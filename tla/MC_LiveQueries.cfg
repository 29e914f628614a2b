CONSTANTS
    n1 = n1
    n2 = n2
    mA = mA
    mB = mB
    i1 = i1
    NULL = NULL
    Names <- MC_Names
    Models <- MC_Models
    Ids <- MC_Ids
    MaxQuery = 3
    Drops = TRUE
SPECIFICATION Spec
INVARIANT TypeOK
