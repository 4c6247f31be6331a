SPECIFICATION Spec
CONSTANTS
    s1 = s1
    s2 = s2
    s3 = s3
    s4 = s4
    s5 = s5
    Sources = {s1, s2, s3, s4, s5}
    NoSource = NoSource
    Period = 2
    GlobalBurst = 2
    SourcePeriod = 2
    SourceBurst = 1
    Window = 2
    TableCapacity = 4
SYMMETRY Symmetry
INVARIANTS
    TableNeverFull
