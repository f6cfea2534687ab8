------------------------------ MODULE MCHatch ------------------------------
(***************************************************************************)
(* The palette bound of gdpruler_benchmark_plot.py: bar series i of the    *)
(* compression view uses hatches[i], of which there are ten.  Every        *)
(* dataset here covers compression levels 0..n under both encryption      *)
(* settings, one batch size, entry size and writer count, with zero or     *)
(* positive throughput; n = 10 is one level past the bound.               *)
(***************************************************************************)
EXTENDS Report

MCBatchSizes == {512}
MCEntrySizes == {1024}
MCConsumerCounts == {4}
MCCompLevels == 0..10
MCThroughputs == {0, 1}

HatchRow(e, l, t) ==
    [batch_size |-> 512, entry_size_bytes |-> 1024, consumers |-> 4,
     use_encryption |-> e, compression_level |-> l, entries_per_sec |-> t]

MCDatasets ==
    {{HatchRow(e, l, t) : e \in Encryption, l \in 0..n} :
        n \in {8, 9, 10}, t \in MCThroughputs}

MCHeaders ==
    {Columns, Columns \ {"avg_latency_ms"},
     Columns \ {"logical_throughput_gib_sec"}, Columns \ {"use_encryption"}}

(* An output directory that is empty, or that holds every file of an     *)
(* earlier run.                                                          *)
MCPriorDisks ==
    {[a \in Artifacts |-> "none"], [a \in Artifacts |-> "old"]}

=============================================================================
