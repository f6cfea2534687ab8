CONSTANTS
    BatchSizes <- MCBatchSizes
    EntrySizes <- MCEntrySizes
    ConsumerCounts <- MCConsumerCounts
    Throughputs <- MCThroughputs
    Fallback = Fallback
    NoLabel = NoLabel
    CompLevels <- MCCompLevels
    Datasets <- MCNonEmptyDatasets
    Headers <- MCFullHeaders
    PriorDisks <- MCPriorDisks
    SaveFigFails <- MCSaveFigNeverFails
SPECIFICATION Spec
INVARIANTS
    ViewFailureContained
\* main() returns or raises: its final states have no successor.
CHECK_DEADLOCK FALSE
