CONSTANTS
    Min = 3
    Max = 7
    Nil = Nil
SPECIFICATION Spec
INVARIANTS
    TypeOK
    UnappliedIsTimed
    NeverLate
PROPERTY
    QuietOrOverdue
