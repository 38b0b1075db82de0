SPECIFICATION Spec
CONSTANTS
    c1 = c1
    c2 = c2
    e1 = e1
    File <- MCFile
    Call <- TwoCalls
    Edit <- MCEdit
    GroupOf <- OneTurn
    Present = {1}
    Large = {Orig}
    Orig = Orig
    Absent = Absent
    None = None
    MaxRollbacks = 1
    MaxCrashes = 0
PROPERTIES
    LargeFilesKept
