CONSTANTS
    BatchSizes <- MCBatchSizes
    EntrySizes <- MCEntrySizes
    ConsumerCounts <- MCConsumerCounts
    Throughputs <- MCThroughputs
    Fallback = Fallback
    NoLabel = NoLabel
    CompLevels <- MCCompLevels
    Datasets <- MCDatasets
    Headers <- MCFullHeaders
    PriorDisks <- MCPriorDisks
SPECIFICATION Spec
INVARIANTS
    EntryLabelsAsSpecified
\* main() returns or raises: its final states have no successor.
CHECK_DEADLOCK FALSE
