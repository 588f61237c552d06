CONSTANTS
    Blocks <- MCBlocks
    Sizes <- MCSizes
    Target = 12
    MaxNative = 6
    Limit = 16
    MaxBatch = 6
    Garbage = Garbage
    BatchSizes <- MCBatchSizes
SPECIFICATION Spec
INVARIANTS
    HalpernConsecutive
    SnapshotsCoherent
    EveryKernelIntact
PROPERTIES
    ImplementsBlock
