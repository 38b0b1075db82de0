----------------------------- MODULE MCToolRound ------------------------------
(* Bounds for ToolRound: rounds of at most three calls on one target. *)
EXTENDS ToolRound

CONSTANT x

MCTarget == {x}

Of(kinds) == [k \in DOMAIN kinds |-> [kind |-> kinds[k], target |-> x]]

MCRound ==
    {Of(kinds) : kinds \in
        {<<"read", "edit", "read">>, <<"read", "read", "read">>,
         <<"delegate", "read", "read">>, <<"delegate", "delegate", "review">>,
         <<"delegate", "edit", "read">>,
         <<"chain", "delegate", "read">>, <<"explore", "read", "delegate">>,
         <<"control", "invalid", "edit">>, <<"read", "read", "delegate">>}}

MCWorkers == {Of(<<"delegate", "delegate">>)}

MCPrior == {<<0, 1>>, <<1, 0>>}
MCNothing == {<<0, 0>>}
MCMode == {"build"}
=============================================================================
