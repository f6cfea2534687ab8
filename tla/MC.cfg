CONSTANTS
    BatchSizes <- MCBatchSizes
    EntrySizes <- MCEntrySizes
    ConsumerCounts <- MCConsumerCounts
    CompLevels <- MCCompLevels
    Throughputs <- MCThroughputs
    Datasets <- MCDatasets
    Headers <- MCHeaders
    PriorDisks <- MCPriorDisks
    Fallback = Fallback
    NoLabel = NoLabel
SPECIFICATION Spec
INVARIANTS
    TypeOK
    ArtifactsMatchProgress
    ArtifactsOnDisk
PROPERTIES
    AbstractSpec
\* main() returns or raises: its final states have no successor.
CHECK_DEADLOCK FALSE
