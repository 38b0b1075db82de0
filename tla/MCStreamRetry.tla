--------------------------- MODULE MCStreamRetry ---------------------------
EXTENDS StreamRetry

A(kind, val) == [kind |-> kind, val |-> val]
Began == <<A("started", 0), A("model", 0)>>

\* Two answers that begin alike and differ within the text, one that is shorter than both,
\* one with other reasoning and another call, and one that calls before it writes.
MCAnswer ==
    {Began \o <<A("reason", 1), A("sealed", 1), A("text", 1), A("text", 2), A("call", 1)>>,
     Began \o <<A("reason", 1), A("sealed", 1), A("text", 1), A("text", 3)>>,
     Began \o <<A("text", 1)>>,
     Began \o <<A("reason", 2), A("sealed", 2), A("text", 1), A("call", 2)>>,
     Began \o <<A("call", 1), A("text", 2)>>}

=============================================================================
