SPECIFICATION Spec
CONSTANTS
    c1 = c1
    c2 = c2
    e1 = e1
    File <- MCFile
    Call <- TwoCalls
    Edit <- MCEdit
    GroupOf <- OneTurn
    Present = {1, 2}
    Large = {e1}
    Orig = Orig
    Absent = Absent
    None = None
    MaxRollbacks = 1
    MaxCrashes = 1
INVARIANTS
    TypeOK
    
PROPERTIES
    UserEditsSurvive
    
    CleanUndoRestores
SYMMETRY Calls
