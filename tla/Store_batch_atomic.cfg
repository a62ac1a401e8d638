\* One failing statement in a batch of two: the spec's rollback of a
\* failed batch against DoTransaction's unconditional EndTransaction.
CONSTANTS
    Hash = {c1, c2}
    Height <- MCHeight
    MaxBatch = 2
    MaxFailures = 1
SPECIFICATION Spec
CHECK_DEADLOCK FALSE
PROPERTY CallsAtomic
