------------------------------- MODULE Views -------------------------------
(***************************************************************************)
(* What each of the seven create_* functions of                            *)
(* src/plot_scripts/gdpruler_benchmark_plot.py draws from a loaded         *)
(* dataset, which columns it reads and when it raises.  No variables: the  *)
(* driver module Report calls these operators from its actions.            *)
(*                                                                         *)
(* Abstraction.  A row keeps the five dimension columns and the sign of    *)
(* entries_per_sec (the only metric value the code branches on, line 516). *)
(* A plotted value is represented by the bucket it was averaged from: a    *)
(* point says at which x key (a function from the group-by columns to      *)
(* values) it is drawn and from which bucket key its mean comes, or        *)
(* Fallback when the code substituted its default (0 or 1.0).  Styling,    *)
(* units (/1000) and text are left out; the entry-size tick text           *)
(* f'{es//1024}KB' is kept as the number es \div 1024.                     *)
(***************************************************************************)
EXTENDS Integers, FiniteSets

CONSTANTS
    BatchSizes,      \* values of batch_size in the input file
    EntrySizes,      \* values of entry_size_bytes
    ConsumerCounts,  \* values of consumers (writer threads)
    CompLevels,      \* values of compression_level
    Throughputs,     \* values of entries_per_sec (only 0 versus > 0 matters)
    Fallback,        \* marker: the code drew its default for a missing bucket
    NoLabel          \* marker: the spec's label table has no entry

ASSUME DomainsAssumption ==
    /\ BatchSizes \subseteq Nat /\ EntrySizes \subseteq Nat
    /\ ConsumerCounts \subseteq Nat /\ CompLevels \subseteq Nat
    /\ Throughputs \subseteq Nat

Encryption == {0, 1}

Row == [batch_size: BatchSizes, entry_size_bytes: EntrySizes,
        consumers: ConsumerCounts, use_encryption: Encryption,
        compression_level: CompLevels, entries_per_sec: Throughputs]

DimCols == {"batch_size", "entry_size_bytes", "consumers",
            "use_encryption", "compression_level"}
MetricCols == {"entries_per_sec", "write_amplification",
               "avg_latency_ms", "logical_throughput_gib_sec"}
Columns == DimCols \cup MetricCols

ViewOrder == <<"encryption_effect", "compression_effect", "entry_size_effect",
               "writer_threads_effect", "batch_size_effect", "heatmaps",
               "batch_analysis">>
Views == {ViewOrder[k] : k \in 1..7}

(* len(hatches): bar series i uses hatches[i]. *)
NumHatches == 10

-----------------------------------------------------------------------------
(* pandas: boolean filter, unique(), groupby keys. *)

Sub(rs, f) == {r \in rs : \A d \in DOMAIN f : r[d] = f[d]}
Vals(rs, d) == {r[d] : r \in rs}
Key(d, t) == [e \in {d} |-> t]
RowKey(r, D) == [e \in D |-> r[e]]
Observed(rs, D) == {RowKey(r, D) : r \in rs}

NoFilter == [e \in {} |-> 0]
Least(S) == CHOOSE s \in S : \A u \in S : s <= u

Point(v, p, f, x, src, m, form) ==
    [view |-> v, panel |-> p, filt |-> f, x |-> x, src |-> src,
     metric |-> m, form |-> form]

(* data = sub.groupby(d)[m].mean();                                        *)
(* [data[t] if t in data.index else default for t in T]                    *)
Lookup(v, p, rs, f, d, T, m, form) ==
    {Point(v, p, f, Key(d, t),
           IF t \in Vals(Sub(rs, f), d) THEN Key(d, t) ELSE Fallback,
           m, form) : t \in T}

(* for t in T: if t in data.index: append(data[t])  (no default) *)
Present(v, p, rs, f, d, T, m, form) ==
    {Point(v, p, f, Key(d, t), Key(d, t), m, form) :
        t \in T \cap Vals(Sub(rs, f), d)}

(* ax.bar(x_positions, data.values): numpy broadcasts the n tick          *)
(* positions against the m group means.  The groups VK are among the      *)
(* ticks T, so m = n means VK = T and the rank pairing of the two sorted  *)
(* lists is the identity; m = 1 repeats the one mean at every tick; m = 0 *)
(* with n <= 1 draws nothing; anything else raises "shape mismatch".      *)
BarShapeError(rs, f, d, T) ==
    LET VK == Vals(Sub(rs, f), d) IN
    /\ VK # T /\ Cardinality(VK) # 1
    /\ ~(VK = {} /\ Cardinality(T) <= 1)

BarSeries(v, p, rs, f, d, T, m) ==
    LET VK == Vals(Sub(rs, f), d) IN
    IF VK = T
    THEN {Point(v, p, f, Key(d, t), Key(d, t), m, "value") : t \in T}
    ELSE IF Cardinality(VK) = 1
    THEN {Point(v, p, f, Key(d, t), Key(d, CHOOSE u \in VK : TRUE),
                m, "value") : t \in T}
    ELSE {}

(* f'{es//1024}KB' *)
EntryTicks(E) == {<<es, es \div 1024>> : es \in E}

Combo(c) == [use_encryption |-> c[1], compression_level |-> c[2]]
NonEmptyCombos(rs, Cs) == {c \in Cs : Sub(rs, Combo(c)) # {}}

-----------------------------------------------------------------------------
(* create_encryption_effect_plots *)

EncPanels == {[p |-> "a", d |-> "batch_size", m |-> "entries_per_sec"],
              [p |-> "b", d |-> "entry_size_bytes", m |-> "entries_per_sec"],
              [p |-> "c", d |-> "compression_level", m |-> "write_amplification"],
              [p |-> "d", d |-> "consumers", m |-> "entries_per_sec"]}

EncryptionEffectReads(rs) == {"entries_per_sec", "write_amplification"}
EncryptionEffectRaises(rs) ==
    \E q \in EncPanels, e \in Encryption :
        BarShapeError(rs, [use_encryption |-> e], q.d, Vals(rs, q.d))
EncryptionEffectPoints(rs) ==
    UNION {BarSeries("encryption_effect", q.p, rs, [use_encryption |-> e],
                     q.d, Vals(rs, q.d), q.m) : q \in EncPanels, e \in Encryption}
EncryptionEffectLabels(rs) == EntryTicks(Vals(rs, "entry_size_bytes"))

-----------------------------------------------------------------------------
(* create_compression_effect_plots: one series per compression level *)

CompPanels(rs) ==
    {[p |-> "a", d |-> "batch_size", T |-> Vals(rs, "batch_size"), m |-> "entries_per_sec"],
     [p |-> "b", d |-> "entry_size_bytes", T |-> Vals(rs, "entry_size_bytes"), m |-> "entries_per_sec"],
     [p |-> "c", d |-> "use_encryption", T |-> Encryption, m |-> "write_amplification"],
     [p |-> "d", d |-> "consumers", T |-> Vals(rs, "consumers"), m |-> "write_amplification"]}

CompressionEffectReads(rs) ==
    IF rs = {} THEN {} ELSE {"entries_per_sec", "write_amplification"}
CompressionEffectRaises(rs) ==
    Cardinality(Vals(rs, "compression_level")) > NumHatches
CompressionEffectPoints(rs) ==
    UNION {Lookup("compression_effect", q.p, rs, [compression_level |-> l],
                  q.d, q.T, q.m, "value") :
           q \in CompPanels(rs), l \in Vals(rs, "compression_level")}
CompressionEffectLabels(rs) == EntryTicks(Vals(rs, "entry_size_bytes"))

-----------------------------------------------------------------------------
(* create_entry_size_effect_plots: one series per entry size *)

EntryPanels(rs) ==
    {[p |-> "a", d |-> "batch_size", T |-> Vals(rs, "batch_size"), m |-> "entries_per_sec"],
     [p |-> "b", d |-> "compression_level", T |-> Vals(rs, "compression_level"), m |-> "logical_throughput_gib_sec"],
     [p |-> "c", d |-> "use_encryption", T |-> Encryption, m |-> "entries_per_sec"],
     [p |-> "d", d |-> "consumers", T |-> Vals(rs, "consumers"), m |-> "entries_per_sec"]}

EntrySizeEffectReads(rs) ==
    IF rs = {} THEN {} ELSE {"entries_per_sec", "logical_throughput_gib_sec"}
EntrySizeEffectRaises(rs) ==
    Cardinality(Vals(rs, "entry_size_bytes")) > NumHatches
EntrySizeEffectPoints(rs) ==
    UNION {Lookup("entry_size_effect", q.p, rs, [entry_size_bytes |-> es],
                  q.d, q.T, q.m, "value") :
           q \in EntryPanels(rs), es \in Vals(rs, "entry_size_bytes")}
EntrySizeEffectLabels(rs) == EntryTicks(Vals(rs, "entry_size_bytes"))

-----------------------------------------------------------------------------
(* create_writer_threads_effect_plots *)

WriterCombos == {<<0, 0>>, <<0, 9>>, <<1, 0>>, <<1, 9>>}

(* Panel (c) plots entry size es only when the bucket of the fewest      *)
(* writer threads exists and its mean throughput is > 0 (all values are   *)
(* >= 0, so the mean is > 0 iff one row has a positive value).            *)
BaselineFilter(rs, es) ==
    [entry_size_bytes |-> es, consumers |-> Least(Vals(rs, "consumers"))]
HasBaseline(rs, es) ==
    \E r \in Sub(rs, BaselineFilter(rs, es)) : r.entries_per_sec > 0
ScaledSizes(rs) == {es \in Vals(rs, "entry_size_bytes") : HasBaseline(rs, es)}

WriterThreadsEffectReads(rs) ==
    (IF rs = {} THEN {} ELSE {"entries_per_sec"})
    \cup (IF NonEmptyCombos(rs, WriterCombos) = {} THEN {}
          ELSE {"entries_per_sec", "avg_latency_ms"})
WriterThreadsEffectRaises(rs) == FALSE
WriterThreadsPanel(rs, p, f, m, form) ==
    Lookup("writer_threads_effect", p, rs, f, "consumers",
           Vals(rs, "consumers"), m, form)
WriterThreadsEffectPoints(rs) ==
    (UNION {WriterThreadsPanel(rs, "a", [batch_size |-> bs],
                               "entries_per_sec", "value") :
            bs \in Vals(rs, "batch_size")})
    \cup (UNION {WriterThreadsPanel(rs, "b", Combo(c), "entries_per_sec", "value") :
                 c \in NonEmptyCombos(rs, WriterCombos)})
    \cup (UNION {WriterThreadsPanel(rs, "c", [entry_size_bytes |-> es],
                                    "entries_per_sec", "normalized") :
                 es \in ScaledSizes(rs)})
    \cup (UNION {WriterThreadsPanel(rs, "d", Combo(c), "avg_latency_ms", "value") :
                 c \in NonEmptyCombos(rs, WriterCombos)})
WriterThreadsEffectLabels(rs) == EntryTicks(ScaledSizes(rs))

-----------------------------------------------------------------------------
(* create_batch_size_effect_plots *)

BatchCombos == {<<0, 0>>, <<0, 5>>, <<0, 9>>, <<1, 0>>, <<1, 5>>, <<1, 9>>}
SelectedCombos == {<<0, 0>>, <<1, 0>>, <<0, 9>>, <<1, 9>>}

BatchSizeEffectReads(rs) ==
    (IF rs = {} THEN {} ELSE {"entries_per_sec", "avg_latency_ms"})
    \cup (IF NonEmptyCombos(rs, SelectedCombos) = {} THEN {}
          ELSE {"write_amplification"})
BatchSizeEffectRaises(rs) == FALSE
BatchSizePanel(rs, p, f, m) ==
    Lookup("batch_size_effect", p, rs, f, "batch_size",
           Vals(rs, "batch_size"), m, "value")
BatchSizeEffectPoints(rs) ==
    (UNION {BatchSizePanel(rs, "a", Combo(c), "entries_per_sec") :
            c \in NonEmptyCombos(rs, BatchCombos)})
    \cup (UNION {BatchSizePanel(rs, "b", [entry_size_bytes |-> es], "entries_per_sec") :
                 es \in Vals(rs, "entry_size_bytes")})
    \cup (UNION {BatchSizePanel(rs, "c", [consumers |-> c], "avg_latency_ms") :
                 c \in Vals(rs, "consumers")})
    \cup (UNION {BatchSizePanel(rs, "d", Combo(c), "write_amplification") :
                 c \in NonEmptyCombos(rs, SelectedCombos)})
BatchSizeEffectLabels(rs) == EntryTicks(Vals(rs, "entry_size_bytes"))

-----------------------------------------------------------------------------
(* create_heatmaps: groupby two columns, unstack; absent cells are NaN    *)
(* and left blank, so only observed combinations are drawn.  seaborn      *)
(* raises on an empty pivot table.                                        *)

Cells(p, rs, D, m) ==
    {Point("heatmaps", p, NoFilter, k, k, m, "value") : k \in Observed(rs, D)}

HeatmapsReads(rs) ==
    {"entries_per_sec", "write_amplification", "avg_latency_ms"}
HeatmapsRaises(rs) == rs = {}
HeatmapsPoints(rs) ==
    Cells("a", rs, {"batch_size", "compression_level"}, "entries_per_sec")
    \cup Cells("b", rs, {"entry_size_bytes", "use_encryption"}, "write_amplification")
    \cup Cells("c", rs, {"consumers", "entry_size_bytes"}, "entries_per_sec")
    \cup Cells("d", rs, {"batch_size", "consumers"}, "avg_latency_ms")

-----------------------------------------------------------------------------
(* create_encryption_batch_analysis_plot *)

BatchAnalysisFilter == [compression_level |-> 0, use_encryption |-> 1]
Variants == {<<4, 256>>, <<8, 256>>, <<4, 1024>>, <<8, 1024>>,
             <<4, 4096>>, <<8, 4096>>}
VariantFilter(vr) ==
    [compression_level |-> 0, use_encryption |-> 1,
     consumers |-> vr[1], entry_size_bytes |-> vr[2]]
PlottedVariants(rs) == {vr \in Variants : Sub(rs, VariantFilter(vr)) # {}}

(* Mutant: the emptiness check filters on use_encryption == 0. *)
BatchAnalysisSkipsEnc0(rs) ==
    Sub(rs, [compression_level |-> 0, use_encryption |-> 0]) = {}
BatchAnalysisSkips(rs) == Sub(rs, BatchAnalysisFilter) = {}
BatchAnalysisPoints(rs) ==
    LET B == Vals(Sub(rs, BatchAnalysisFilter), "batch_size") IN
    UNION {Present("batch_analysis", "a", rs, VariantFilter(vr), "batch_size",
                   B, "entries_per_sec", "value") \cup
           Present("batch_analysis", "b", rs, VariantFilter(vr), "batch_size",
                   B, "write_amplification", "percent") :
           vr \in PlottedVariants(rs)}

=============================================================================
