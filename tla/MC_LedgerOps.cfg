CONSTANTS
    Owners = {a1, a2}
    TokenIds = {t1, t2}
SPECIFICATION Spec
PROPERTY MergeIsPointwiseSum NormalizeKeepsExactlyNonZero
\* The operation under test is applied once; the harness then stops.
CHECK_DEADLOCK FALSE
