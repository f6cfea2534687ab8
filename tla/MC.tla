--------------------------------- MODULE MC ---------------------------------
(***************************************************************************)
(* Small instances of Report for TLC.  The dimension values are ones the   *)
(* script names itself (batch sizes as in its comments, the 256 B and 1 KB *)
(* entry sizes of its batch-analysis variants, 4 and 8 writer threads,     *)
(* compression levels 0, 5, 9).  A dataset is any set of at most MaxRows   *)
(* rows over them.                                                       *)
(***************************************************************************)
EXTENDS Report

MaxRows == 2

MCBatchSizes == {512, 2048}
MCEntrySizes == {256, 1024}
MCConsumerCounts == {4, 8}
MCCompLevels == {0, 5, 9}
MCThroughputs == {0, 1}

(* The ranges of all row lists of length at most MaxRows. *)
MCDatasets ==
    UNION {{{f[i] : i \in 1..k} : f \in [1..k -> Row]} : k \in 0..MaxRows}

(* A complete header, and headers lacking one column each: a metric read  *)
(* late (latency, logical throughput) or a dimension read at load time.   *)
MCHeaders ==
    {Columns, Columns \ {"avg_latency_ms"},
     Columns \ {"logical_throughput_gib_sec"}, Columns \ {"use_encryption"}}

(* The same datasets less the empty file. *)
MCNonEmptyDatasets == MCDatasets \ {{}}

(* Only complete headers. *)
MCFullHeaders == {Columns}

(* An output directory that is empty, or that holds every file of an     *)
(* earlier run.                                                          *)
MCPriorDisks ==
    {[a \in Artifacts |-> "none"], [a \in Artifacts |-> "old"]}

(* A savefig call that never fails: an exit 1 after load is then a view  *)
(* raising, not an OSError of the output directory.                      *)
MCSaveFigNeverFails(v, fmt) == FALSE

=============================================================================
