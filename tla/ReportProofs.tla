---------------------------- MODULE ReportProofs ----------------------------
(***************************************************************************)
(* Proofs about the report driver: its type invariant and the invariant    *)
(* that the artifacts on disk are those of the views main() finished.      *)
(***************************************************************************)
EXTENDS Report, Sequences, TLAPS

-----------------------------------------------------------------------------
(* Building blocks of the charts. *)

LEMMA KeyIsKey ==
    ASSUME NEW d \in DimCols, NEW t
    PROVE  IsKey(Key(d, t))
BY DEF IsKey, Key

LEMMA RowKeyIsKey ==
    ASSUME NEW r, NEW D \in SUBSET DimCols
    PROVE  IsKey(RowKey(r, D))
BY DEF IsKey, RowKey

LEMMA PointIsPoint ==
    ASSUME NEW v \in Views, NEW p \in Panels, NEW f, NEW x, NEW src,
           NEW m \in MetricCols, NEW form \in Forms,
           IsKey(f), IsKey(x), src = Fallback \/ IsKey(src)
    PROVE  IsPoint(Point(v, p, f, x, src, m, form))
BY DEF IsPoint, Point

LEMMA LookupTyped ==
    ASSUME NEW v \in Views, NEW p \in Panels, NEW rs, NEW f, NEW d \in DimCols,
           NEW T, NEW m \in MetricCols, NEW form \in Forms, IsKey(f)
    PROVE  \A pt \in Lookup(v, p, rs, f, d, T, m, form) : IsPoint(pt)
<1> SUFFICES ASSUME NEW t \in T
             PROVE  IsPoint(Point(v, p, f, Key(d, t),
                        IF t \in Vals(Sub(rs, f), d) THEN Key(d, t) ELSE Fallback,
                        m, form))
    BY DEF Lookup
<1>1. IsKey(Key(d, t))
    BY KeyIsKey
<1> QED BY <1>1, PointIsPoint

LEMMA PresentTyped ==
    ASSUME NEW v \in Views, NEW p \in Panels, NEW rs, NEW f, NEW d \in DimCols,
           NEW T, NEW m \in MetricCols, NEW form \in Forms, IsKey(f)
    PROVE  \A pt \in Present(v, p, rs, f, d, T, m, form) : IsPoint(pt)
<1> SUFFICES ASSUME NEW t \in T \cap Vals(Sub(rs, f), d)
             PROVE  IsPoint(Point(v, p, f, Key(d, t), Key(d, t), m, form))
    BY DEF Present
<1> QED BY KeyIsKey, PointIsPoint

LEMMA BarSeriesTyped ==
    ASSUME NEW v \in Views, NEW p \in Panels, NEW rs, NEW f, NEW d \in DimCols,
           NEW T, NEW m \in MetricCols, IsKey(f)
    PROVE  \A pt \in BarSeries(v, p, rs, f, d, T, m) : IsPoint(pt)
<1> DEFINE VK == Vals(Sub(rs, f), d)
<1> "value" \in Forms
    BY DEF Forms
<1>1. CASE VK = T
    <2> SUFFICES ASSUME NEW t \in T
                 PROVE  IsPoint(Point(v, p, f, Key(d, t), Key(d, t), m, "value"))
        BY <1>1 DEF BarSeries
    <2> QED BY KeyIsKey, PointIsPoint
<1>2. CASE VK # T /\ Cardinality(VK) = 1
    <2> SUFFICES ASSUME NEW t \in T
                 PROVE  IsPoint(Point(v, p, f, Key(d, t),
                                      Key(d, CHOOSE u \in VK : TRUE), m, "value"))
        BY <1>2 DEF BarSeries
    <2> QED BY KeyIsKey, PointIsPoint
<1>3. CASE VK # T /\ Cardinality(VK) # 1
    BY <1>3 DEF BarSeries
<1> QED BY <1>1, <1>2, <1>3

LEMMA CellsTyped ==
    ASSUME NEW p \in Panels, NEW rs, NEW D \in SUBSET DimCols, NEW m \in MetricCols
    PROVE  \A pt \in Cells(p, rs, D, m) : IsPoint(pt)
<1> SUFFICES ASSUME NEW k \in Observed(rs, D)
             PROVE  IsPoint(Point("heatmaps", p, NoFilter, k, k, m, "value"))
    BY DEF Cells
<1>1. IsKey(k) /\ IsKey(NoFilter)
    BY RowKeyIsKey DEF Observed, IsKey, NoFilter
<1>2. "heatmaps" \in Views /\ "value" \in Forms
    BY DEF Views, ViewOrder, Forms
<1> QED BY <1>1, <1>2, PointIsPoint

-----------------------------------------------------------------------------
(* What each view draws is a set of points. *)

LEMMA FilterIsKey ==
    ASSUME NEW a, NEW b, NEW c
    PROVE  /\ IsKey([use_encryption |-> a])
           /\ IsKey([compression_level |-> a])
           /\ IsKey([entry_size_bytes |-> a])
           /\ IsKey([batch_size |-> a])
           /\ IsKey([consumers |-> a])
           /\ IsKey(Combo(c))
           /\ IsKey(VariantFilter(c))
BY DEF IsKey, Combo, VariantFilter, DimCols

LEMMA ViewNamesAreViews ==
    /\ "encryption_effect" \in Views /\ "compression_effect" \in Views
    /\ "entry_size_effect" \in Views /\ "writer_threads_effect" \in Views
    /\ "batch_size_effect" \in Views /\ "heatmaps" \in Views
    /\ "batch_analysis" \in Views
BY DEF Views, ViewOrder

LEMMA EncryptionEffectTyped ==
    ASSUME NEW rs
    PROVE  \A pt \in EncryptionEffectPoints(rs) : IsPoint(pt)
<1> SUFFICES ASSUME NEW pt \in EncryptionEffectPoints(rs) PROVE IsPoint(pt)
    OBVIOUS
<1>1. PICK q \in EncPanels, e \in Encryption :
          pt \in BarSeries("encryption_effect", q.p, rs, [use_encryption |-> e],
                           q.d, Vals(rs, q.d), q.m)
    BY DEF EncryptionEffectPoints
<1>2. q.p \in Panels /\ q.d \in DimCols /\ q.m \in MetricCols
    BY DEF EncPanels, Panels, DimCols, MetricCols
<1>3. IsKey([use_encryption |-> e]) /\ "encryption_effect" \in Views
    BY FilterIsKey, ViewNamesAreViews
<1> QED BY <1>1, <1>2, <1>3, BarSeriesTyped

LEMMA CompressionEffectTyped ==
    ASSUME NEW rs
    PROVE  \A pt \in CompressionEffectPoints(rs) : IsPoint(pt)
<1> SUFFICES ASSUME NEW pt \in CompressionEffectPoints(rs) PROVE IsPoint(pt)
    OBVIOUS
<1>1. PICK q \in CompPanels(rs), l \in Vals(rs, "compression_level") :
          pt \in Lookup("compression_effect", q.p, rs, [compression_level |-> l],
                        q.d, q.T, q.m, "value")
    BY DEF CompressionEffectPoints
<1>2. q.p \in Panels /\ q.d \in DimCols /\ q.m \in MetricCols /\ "value" \in Forms
    BY DEF CompPanels, Panels, DimCols, MetricCols, Forms
<1>3. IsKey([compression_level |-> l]) /\ "compression_effect" \in Views
    BY FilterIsKey, ViewNamesAreViews
<1> QED BY <1>1, <1>2, <1>3, LookupTyped

LEMMA EntrySizeEffectTyped ==
    ASSUME NEW rs
    PROVE  \A pt \in EntrySizeEffectPoints(rs) : IsPoint(pt)
<1> SUFFICES ASSUME NEW pt \in EntrySizeEffectPoints(rs) PROVE IsPoint(pt)
    OBVIOUS
<1>1. PICK q \in EntryPanels(rs), es \in Vals(rs, "entry_size_bytes") :
          pt \in Lookup("entry_size_effect", q.p, rs, [entry_size_bytes |-> es],
                        q.d, q.T, q.m, "value")
    BY DEF EntrySizeEffectPoints
<1>2. q.p \in Panels /\ q.d \in DimCols /\ q.m \in MetricCols /\ "value" \in Forms
    BY DEF EntryPanels, Panels, DimCols, MetricCols, Forms
<1>3. IsKey([entry_size_bytes |-> es]) /\ "entry_size_effect" \in Views
    BY FilterIsKey, ViewNamesAreViews
<1> QED BY <1>1, <1>2, <1>3, LookupTyped

LEMMA WriterThreadsEffectTyped ==
    ASSUME NEW rs
    PROVE  \A pt \in WriterThreadsEffectPoints(rs) : IsPoint(pt)
<1> SUFFICES ASSUME NEW pt \in WriterThreadsEffectPoints(rs) PROVE IsPoint(pt)
    OBVIOUS
<1>1. /\ "a" \in Panels /\ "b" \in Panels /\ "c" \in Panels /\ "d" \in Panels
      /\ "consumers" \in DimCols /\ "batch_size" \in DimCols
      /\ "entries_per_sec" \in MetricCols /\ "avg_latency_ms" \in MetricCols
      /\ "write_amplification" \in MetricCols
      /\ "value" \in Forms /\ "normalized" \in Forms
      /\ "writer_threads_effect" \in Views /\ "batch_size_effect" \in Views
    BY ViewNamesAreViews DEF Panels, DimCols, MetricCols, Forms
<1>2. CASE \E bs \in Vals(rs, "batch_size") : pt \in WriterThreadsPanel(rs, "a", [batch_size |-> bs], "entries_per_sec", "value")
  <2>1. PICK bs \in Vals(rs, "batch_size") : pt \in WriterThreadsPanel(rs, "a", [batch_size |-> bs], "entries_per_sec", "value")
      BY <1>2
  <2> QED BY <1>1, <2>1, FilterIsKey, LookupTyped DEF WriterThreadsPanel
<1>3. CASE \E c \in NonEmptyCombos(rs, WriterCombos) : pt \in WriterThreadsPanel(rs, "b", Combo(c), "entries_per_sec", "value")
  <2>1. PICK c \in NonEmptyCombos(rs, WriterCombos) : pt \in WriterThreadsPanel(rs, "b", Combo(c), "entries_per_sec", "value")
      BY <1>3
  <2> QED BY <1>1, <2>1, FilterIsKey, LookupTyped DEF WriterThreadsPanel
<1>4. CASE \E es \in ScaledSizes(rs) : pt \in WriterThreadsPanel(rs, "c", [entry_size_bytes |-> es], "entries_per_sec", "normalized")
  <2>1. PICK es \in ScaledSizes(rs) : pt \in WriterThreadsPanel(rs, "c", [entry_size_bytes |-> es], "entries_per_sec", "normalized")
      BY <1>4
  <2> QED BY <1>1, <2>1, FilterIsKey, LookupTyped DEF WriterThreadsPanel
<1>5. CASE \E c \in NonEmptyCombos(rs, WriterCombos) : pt \in WriterThreadsPanel(rs, "d", Combo(c), "avg_latency_ms", "value")
  <2>1. PICK c \in NonEmptyCombos(rs, WriterCombos) : pt \in WriterThreadsPanel(rs, "d", Combo(c), "avg_latency_ms", "value")
      BY <1>5
  <2> QED BY <1>1, <2>1, FilterIsKey, LookupTyped DEF WriterThreadsPanel
<1> QED BY <1>2, <1>3, <1>4, <1>5 DEF WriterThreadsEffectPoints

LEMMA BatchSizeEffectTyped ==
    ASSUME NEW rs
    PROVE  \A pt \in BatchSizeEffectPoints(rs) : IsPoint(pt)
<1> SUFFICES ASSUME NEW pt \in BatchSizeEffectPoints(rs) PROVE IsPoint(pt)
    OBVIOUS
<1>1. /\ "a" \in Panels /\ "b" \in Panels /\ "c" \in Panels /\ "d" \in Panels
      /\ "consumers" \in DimCols /\ "batch_size" \in DimCols
      /\ "entries_per_sec" \in MetricCols /\ "avg_latency_ms" \in MetricCols
      /\ "write_amplification" \in MetricCols
      /\ "value" \in Forms /\ "normalized" \in Forms
      /\ "writer_threads_effect" \in Views /\ "batch_size_effect" \in Views
    BY ViewNamesAreViews DEF Panels, DimCols, MetricCols, Forms
<1>2. CASE \E c \in NonEmptyCombos(rs, BatchCombos) : pt \in BatchSizePanel(rs, "a", Combo(c), "entries_per_sec")
  <2>1. PICK c \in NonEmptyCombos(rs, BatchCombos) : pt \in BatchSizePanel(rs, "a", Combo(c), "entries_per_sec")
      BY <1>2
  <2> QED BY <1>1, <2>1, FilterIsKey, LookupTyped DEF BatchSizePanel
<1>3. CASE \E es \in Vals(rs, "entry_size_bytes") : pt \in BatchSizePanel(rs, "b", [entry_size_bytes |-> es], "entries_per_sec")
  <2>1. PICK es \in Vals(rs, "entry_size_bytes") : pt \in BatchSizePanel(rs, "b", [entry_size_bytes |-> es], "entries_per_sec")
      BY <1>3
  <2> QED BY <1>1, <2>1, FilterIsKey, LookupTyped DEF BatchSizePanel
<1>4. CASE \E c \in Vals(rs, "consumers") : pt \in BatchSizePanel(rs, "c", [consumers |-> c], "avg_latency_ms")
  <2>1. PICK c \in Vals(rs, "consumers") : pt \in BatchSizePanel(rs, "c", [consumers |-> c], "avg_latency_ms")
      BY <1>4
  <2> QED BY <1>1, <2>1, FilterIsKey, LookupTyped DEF BatchSizePanel
<1>5. CASE \E c \in NonEmptyCombos(rs, SelectedCombos) : pt \in BatchSizePanel(rs, "d", Combo(c), "write_amplification")
  <2>1. PICK c \in NonEmptyCombos(rs, SelectedCombos) : pt \in BatchSizePanel(rs, "d", Combo(c), "write_amplification")
      BY <1>5
  <2> QED BY <1>1, <2>1, FilterIsKey, LookupTyped DEF BatchSizePanel
<1> QED BY <1>2, <1>3, <1>4, <1>5 DEF BatchSizeEffectPoints

LEMMA HeatmapsTyped ==
    ASSUME NEW rs
    PROVE  \A pt \in HeatmapsPoints(rs) : IsPoint(pt)
<1>1. /\ "a" \in Panels /\ "b" \in Panels /\ "c" \in Panels /\ "d" \in Panels
      /\ {"batch_size", "compression_level"} \in SUBSET DimCols
      /\ {"entry_size_bytes", "use_encryption"} \in SUBSET DimCols
      /\ {"consumers", "entry_size_bytes"} \in SUBSET DimCols
      /\ {"batch_size", "consumers"} \in SUBSET DimCols
      /\ "entries_per_sec" \in MetricCols /\ "avg_latency_ms" \in MetricCols
      /\ "write_amplification" \in MetricCols
    BY DEF Panels, DimCols, MetricCols
<1> QED BY <1>1, CellsTyped DEF HeatmapsPoints

LEMMA BatchAnalysisTyped ==
    ASSUME NEW rs
    PROVE  \A pt \in BatchAnalysisPoints(rs) : IsPoint(pt)
<1>1. /\ "a" \in Panels /\ "b" \in Panels /\ "batch_size" \in DimCols
      /\ "entries_per_sec" \in MetricCols /\ "write_amplification" \in MetricCols
      /\ "value" \in Forms /\ "percent" \in Forms
    BY DEF Panels, DimCols, MetricCols, Forms
<1> QED BY <1>1, ViewNamesAreViews, FilterIsKey, PresentTyped DEF BatchAnalysisPoints

-----------------------------------------------------------------------------
(* The entry-size labels a view draws are <<size, size // 1024>> pairs. *)

LEMMA EntryTicksTyped ==
    ASSUME NEW rs, rs \subseteq Row, NEW E, E \subseteq Vals(rs, "entry_size_bytes")
    PROVE  EntryTicks(E) \subseteq EntrySizes \X Nat
<1>1. E \subseteq EntrySizes
    BY DEF Vals, Row
<1>2. EntrySizes \subseteq Nat
    BY DomainsAssumption
<1> QED BY <1>1, <1>2 DEF EntryTicks

LEMMA ScaledSizesSub ==
    ASSUME NEW rs
    PROVE  ScaledSizes(rs) \subseteq Vals(rs, "entry_size_bytes")
BY DEF ScaledSizes

-----------------------------------------------------------------------------
(* Each step of main() keeps every variable in its type.  A view step    *)
(* raises before savefig, writes the .png, writes the .pdf and completes  *)
(* the view, or fails in one of the two writes.                           *)

LEMMA DiskUpdateTyped ==
    ASSUME TypeOK, NEW v \in Views, NEW fmt \in Formats, NEW st \in FileStates
    PROVE  [disk EXCEPT ![<<v, fmt>>] = st] \in [Artifacts -> FileStates]
BY DEF TypeOK, Artifacts

(* A failed savefig leaves its file as it was or truncated. *)
LEMMA SaveFigFailsDisk ==
    ASSUME TypeOK, NEW v \in Views, NEW fmt \in Formats, SaveFigFails(v, fmt)
    PROVE  \E st \in {disk[<<v, fmt>>], "partial"} :
               disk' = [disk EXCEPT ![<<v, fmt>>] = st]
<1>1. disk = [disk EXCEPT ![<<v, fmt>>] = disk[<<v, fmt>>]]
    BY DEF TypeOK, Artifacts
<1> QED BY <1>1 DEF SaveFigFails

LEMMA SaveFigFailsTyped ==
    ASSUME TypeOK, NEW v \in Views, NEW fmt \in Formats, SaveFigFails(v, fmt)
    PROVE  TypeOK'
<1>1. PICK st \in {disk[<<v, fmt>>], "partial"} :
          disk' = [disk EXCEPT ![<<v, fmt>>] = st]
    BY SaveFigFailsDisk
<1>2. st \in FileStates
    BY <1>1 DEF TypeOK, Artifacts, FileStates
<1>3. disk' \in [Artifacts -> FileStates]
    BY <1>1, <1>2, DiskUpdateTyped
<1> QED BY <1>3 DEF SaveFigFails, TypeOK

LEMMA SaveFiguresTyped ==
    ASSUME TypeOK, NEW v \in Views, NEW pts, NEW lbls,
           \A pt \in pts : IsPoint(pt), lbls \subseteq EntrySizes \X Nat,
           pc + 1 \in 1..SummaryPc,
           SaveFigures(v, pts, lbls)
    PROVE  TypeOK'
<1>1. "png" \in Formats /\ "pdf" \in Formats /\ "new" \in FileStates
    BY DEF Formats, FileStates
<1>2. CASE SavePng(v)
    BY <1>1, <1>2, DiskUpdateTyped DEF SavePng, SaveFig, TypeOK
<1>3. CASE SaveView(v, pts, lbls)
    BY <1>1, <1>3, DiskUpdateTyped DEF SaveView, SaveFig, TypeOK
<1>4. CASE SaveFigFails(v, "png") \/ SaveFigFails(v, "pdf")
    BY <1>1, <1>4, SaveFigFailsTyped
<1> QED BY <1>2, <1>3, <1>4 DEF SaveFigures

LEMMA DrawViewTyped ==
    ASSUME TypeOK, NEW v \in Views, NEW reads, NEW raises, NEW pts, NEW lbls,
           \A pt \in pts : IsPoint(pt), lbls \subseteq EntrySizes \X Nat,
           pc + 1 \in 1..SummaryPc,
           DrawView(v, reads, raises, pts, lbls)
    PROVE  TypeOK'
<1>1. CASE Crash
    BY <1>1 DEF Crash, TypeOK
<1>2. CASE SaveFigures(v, pts, lbls)
    BY <1>2, SaveFiguresTyped
<1> QED BY <1>1, <1>2 DEF DrawView

(* The initial state of main() is well typed. *)
LEMMA InitTyped == Init => TypeOK
<1> SUFFICES ASSUME Init PROVE TypeOK
    OBVIOUS
<1>1. csvRows \subseteq Row /\ csvHeader \subseteq Columns
    BY InputsAssumption DEF Init
<1>2. DOMAIN charts = Views /\ \A v \in Views : charts[v] = {}
    BY DEF Init
<1>3. disk \in [Artifacts -> FileStates]
    BY InputsAssumption DEF Init, FileStates
<1>4. pc \in 1..SummaryPc /\ status \in {"running", "exit0", "exit1"}
    BY DEF Init, SummaryPc
<1>5. dirMade \in BOOLEAN /\ pngSaved \in BOOLEAN
    BY DEF Init
<1>6. cols \subseteq Columns /\ rows \subseteq Row /\ files \subseteq Views
    BY DEF Init
<1>7. skipped \subseteq Views /\ entryLabels \subseteq EntrySizes \X Nat
    BY DEF Init
<1> QED BY <1>1, <1>2, <1>3, <1>4, <1>5, <1>6, <1>7 DEF TypeOK

(* Every step of main() keeps every variable in its type. *)
LEMMA TypeOKStep == TypeOK /\ [Next]_vars => TypeOK'
<1> SUFFICES ASSUME TypeOK, [Next]_vars PROVE TypeOK'
    OBVIOUS
<1>1. CASE MakeDirs
    <2>1. CASE Crash
        BY <2>1 DEF Crash, TypeOK
    <2>2. CASE /\ pc = 1 /\ dirMade' = TRUE /\ pc' = 2
               /\ UNCHANGED <<csvRows, csvHeader, status, cols, rows, files, charts, skipped, entryLabels, disk, pngSaved>>
        BY <2>2 DEF TypeOK, SummaryPc
    <2> QED BY <1>1, <2>1, <2>2 DEF MakeDirs
<1>2. CASE LoadGdprData
    <2>1. CASE Crash
        BY <2>1 DEF Crash, TypeOK
    <2>2. CASE /\ pc = 2 /\ cols' = csvHeader /\ rows' = csvRows
               /\ \/ pc' = 3 /\ UNCHANGED status
                  \/ status' = "exit1" /\ UNCHANGED pc
               /\ UNCHANGED <<csvRows, csvHeader, dirMade, files, charts, skipped, entryLabels, disk, pngSaved>>
        BY <2>2 DEF TypeOK, SummaryPc
    <2> QED BY <1>2, <2>1, <2>2 DEF LoadGdprData
<1>3. CASE CreateEncryptionEffectPlots
    <2>1. pc + 1 \in 1..SummaryPc
        BY <1>3 DEF CreateEncryptionEffectPlots, ViewStep, SummaryPc
    <2>2. \A pt \in EncryptionEffectPoints(rows) : IsPoint(pt)
        BY EncryptionEffectTyped
    <2>3. EncryptionEffectLabels(rows) \subseteq EntrySizes \X Nat
        BY EntryTicksTyped DEF EncryptionEffectLabels, TypeOK
    <2> QED BY <1>3, <2>1, <2>2, <2>3, DrawViewTyped, ViewNamesAreViews DEF CreateEncryptionEffectPlots
<1>4. CASE CreateCompressionEffectPlots
    <2>1. pc + 1 \in 1..SummaryPc
        BY <1>4 DEF CreateCompressionEffectPlots, ViewStep, SummaryPc
    <2>2. \A pt \in CompressionEffectPoints(rows) : IsPoint(pt)
        BY CompressionEffectTyped
    <2>3. CompressionEffectLabels(rows) \subseteq EntrySizes \X Nat
        BY EntryTicksTyped DEF CompressionEffectLabels, TypeOK
    <2> QED BY <1>4, <2>1, <2>2, <2>3, DrawViewTyped, ViewNamesAreViews DEF CreateCompressionEffectPlots
<1>5. CASE CreateEntrySizeEffectPlots
    <2>1. pc + 1 \in 1..SummaryPc
        BY <1>5 DEF CreateEntrySizeEffectPlots, ViewStep, SummaryPc
    <2>2. \A pt \in EntrySizeEffectPoints(rows) : IsPoint(pt)
        BY EntrySizeEffectTyped
    <2>3. EntrySizeEffectLabels(rows) \subseteq EntrySizes \X Nat
        BY EntryTicksTyped DEF EntrySizeEffectLabels, TypeOK
    <2> QED BY <1>5, <2>1, <2>2, <2>3, DrawViewTyped, ViewNamesAreViews DEF CreateEntrySizeEffectPlots
<1>6. CASE CreateWriterThreadsEffectPlots
    <2>1. pc + 1 \in 1..SummaryPc
        BY <1>6 DEF CreateWriterThreadsEffectPlots, ViewStep, SummaryPc
    <2>2. \A pt \in WriterThreadsEffectPoints(rows) : IsPoint(pt)
        BY WriterThreadsEffectTyped
    <2>3. WriterThreadsEffectLabels(rows) \subseteq EntrySizes \X Nat
        BY EntryTicksTyped, ScaledSizesSub DEF WriterThreadsEffectLabels, TypeOK
    <2> QED BY <1>6, <2>1, <2>2, <2>3, DrawViewTyped, ViewNamesAreViews DEF CreateWriterThreadsEffectPlots
<1>7. CASE CreateBatchSizeEffectPlots
    <2>1. pc + 1 \in 1..SummaryPc
        BY <1>7 DEF CreateBatchSizeEffectPlots, ViewStep, SummaryPc
    <2>2. \A pt \in BatchSizeEffectPoints(rows) : IsPoint(pt)
        BY BatchSizeEffectTyped
    <2>3. BatchSizeEffectLabels(rows) \subseteq EntrySizes \X Nat
        BY EntryTicksTyped DEF BatchSizeEffectLabels, TypeOK
    <2> QED BY <1>7, <2>1, <2>2, <2>3, DrawViewTyped, ViewNamesAreViews DEF CreateBatchSizeEffectPlots
<1>8. CASE CreateHeatmaps
    <2>1. pc + 1 \in 1..SummaryPc
        BY <1>8 DEF CreateHeatmaps, ViewStep, SummaryPc
    <2>2. \A pt \in HeatmapsPoints(rows) : IsPoint(pt)
        BY HeatmapsTyped
    <2>3. {} \subseteq EntrySizes \X Nat
        OBVIOUS
    <2> QED BY <1>8, <2>1, <2>2, <2>3, DrawViewTyped, ViewNamesAreViews DEF CreateHeatmaps
<1>9. CASE CreateEncryptionBatchAnalysisPlot
    <2>1. pc + 1 \in 1..SummaryPc /\ "batch_analysis" \in Views
        BY <1>9, ViewNamesAreViews DEF CreateEncryptionBatchAnalysisPlot, ViewStep, SummaryPc
    <2>2. CASE /\ BatchAnalysisSkips(rows)
               /\ skipped' = skipped \cup {"batch_analysis"}
               /\ pc' = pc + 1
               /\ UNCHANGED <<csvRows, csvHeader, status, dirMade, cols, rows, files, charts, entryLabels, disk, pngSaved>>
        BY <2>1, <2>2 DEF TypeOK
    <2>3. CASE SaveFigures("batch_analysis", BatchAnalysisPoints(rows), {})
        BY <2>1, <2>3, SaveFiguresTyped, BatchAnalysisTyped
    <2> QED BY <1>9, <2>2, <2>3 DEF CreateEncryptionBatchAnalysisPlot

<1>10. CASE PrintPlotSummary
    BY <1>10 DEF PrintPlotSummary, TypeOK
<1>11. CASE UNCHANGED vars
    BY <1>11 DEF vars, TypeOK
<1> QED BY <1>1, <1>2, <1>3, <1>4, <1>5, <1>6, <1>7, <1>8, <1>9, <1>10, <1>11 DEF Next

(* main() keeps every variable of the report in its type. *)
THEOREM TypeCorrect == Spec => []TypeOK
<1>1. Init => TypeOK
    BY InitTyped
<1>2. TypeOK /\ [Next]_vars => TypeOK'
    BY TypeOKStep
<1> QED BY <1>1, <1>2, PTL DEF Spec

-----------------------------------------------------------------------------
(* The views finished so far, as pc advances. *)

LEMMA ViewOrderInjective ==
    ASSUME NEW i \in 1..7, NEW j \in 1..7, ViewOrder[i] = ViewOrder[j]
    PROVE  i = j
BY DEF ViewOrder

LEMMA ViewOrderInViews ==
    ASSUME NEW k \in 1..7
    PROVE  ViewOrder[k] \in Views
BY DEF Views

LEMMA FinishedGrows ==
    ASSUME NEW k \in 1..7, pc = k + 2, pc' = pc + 1
    PROVE  /\ Finished' = Finished \cup {ViewOrder[k]}
           /\ ViewOrder[k] \notin Finished
<1>1. Finished' = Finished \cup {ViewOrder[k]}
    BY DEF Finished
<1>2. ViewOrder[k] \notin Finished
    BY ViewOrderInjective DEF Finished
<1> QED BY <1>1, <1>2

LEMMA NothingFinishedBeforeViews ==
    ASSUME pc \in 1..3
    PROVE  Finished = {}
BY DEF Finished

-----------------------------------------------------------------------------
(* Saving view k when main() is at view k adds exactly that view's files  *)
(* and chart: the artifacts stay those of the finished views.             *)

LEMMA SaveViewKeepsArtifacts ==
    ASSUME TypeOK, ArtifactsMatchProgress,
           NEW k \in 1..7, pc = k + 2, NEW pts, NEW lbls,
           SaveView(ViewOrder[k], pts, lbls)
    PROVE  ArtifactsMatchProgress'
<1> DEFINE v == ViewOrder[k]
<1>1. Finished' = Finished \cup {v} /\ v \notin Finished
    BY FinishedGrows DEF SaveView
<1>2. v \notin skipped /\ v \in Views
    BY <1>1, ViewOrderInViews DEF ArtifactsMatchProgress
<1>3. files' = Finished' \ skipped'
    BY <1>1, <1>2 DEF SaveView, ArtifactsMatchProgress
<1>4. skipped' \subseteq {"batch_analysis"} \cap Finished'
    BY <1>1 DEF SaveView, ArtifactsMatchProgress
<1>5. "batch_analysis" \in skipped' => Sub(rows', BatchAnalysisFilter) = {}
    BY DEF SaveView, ArtifactsMatchProgress
<1>6. \A w \in Views \ files' : charts'[w] = {}
    BY <1>2 DEF SaveView, ArtifactsMatchProgress, TypeOK
<1> QED BY <1>3, <1>4, <1>5, <1>6 DEF ArtifactsMatchProgress

(* The .png write and a failed write change neither the progress of     *)
(* main() nor the views it counts as saved.                               *)
LEMMA SaveFiguresKeepsArtifacts ==
    ASSUME TypeOK, ArtifactsMatchProgress,
           NEW k \in 1..7, pc = k + 2, NEW pts, NEW lbls,
           SaveFigures(ViewOrder[k], pts, lbls)
    PROVE  ArtifactsMatchProgress'
<1>1. CASE SavePng(ViewOrder[k])
    BY <1>1 DEF SavePng, ArtifactsMatchProgress, Finished
<1>2. CASE SaveView(ViewOrder[k], pts, lbls)
    BY <1>2, SaveViewKeepsArtifacts
<1>3. CASE SaveFigFails(ViewOrder[k], "png") \/ SaveFigFails(ViewOrder[k], "pdf")
    BY <1>3 DEF SaveFigFails, ArtifactsMatchProgress, Finished
<1> QED BY <1>1, <1>2, <1>3 DEF SaveFigures

LEMMA DrawViewKeepsArtifacts ==
    ASSUME TypeOK, ArtifactsMatchProgress,
           NEW k \in 1..7, pc = k + 2, NEW reads, NEW raises, NEW pts, NEW lbls,
           DrawView(ViewOrder[k], reads, raises, pts, lbls)
    PROVE  ArtifactsMatchProgress'
<1>1. CASE Crash
    BY <1>1 DEF Crash, ArtifactsMatchProgress, Finished
<1>2. CASE SaveFigures(ViewOrder[k], pts, lbls)
    BY <1>2, SaveFiguresKeepsArtifacts
<1> QED BY <1>1, <1>2 DEF DrawView

(* Every step of main() keeps the artifacts those of the finished views. *)
LEMMA ArtifactsStep ==
    TypeOK /\ ArtifactsMatchProgress /\ [Next]_vars => ArtifactsMatchProgress'
<1> SUFFICES ASSUME TypeOK, ArtifactsMatchProgress, [Next]_vars
             PROVE  ArtifactsMatchProgress'
    OBVIOUS
<1>1. CASE MakeDirs
    <2>1. CASE Crash
        BY <2>1 DEF Crash, ArtifactsMatchProgress, Finished
    <2>2. CASE /\ pc = 1 /\ dirMade' = TRUE /\ pc' = 2
               /\ UNCHANGED <<csvRows, csvHeader, status, cols, rows, files, charts, skipped, entryLabels, disk, pngSaved>>
        BY <2>2 DEF ArtifactsMatchProgress, Finished
    <2> QED BY <1>1, <2>1, <2>2 DEF MakeDirs
<1>2. CASE LoadGdprData
    <2>1. Finished = {} /\ Finished' = {}
        BY <1>2, NothingFinishedBeforeViews DEF LoadGdprData, Crash, Finished
    <2> QED BY <1>2, <2>1 DEF LoadGdprData, Crash, ArtifactsMatchProgress
<1>3. CASE CreateEncryptionEffectPlots
    <2>1. 1 \in 1..7 /\ pc = 1 + 2
        BY <1>3 DEF CreateEncryptionEffectPlots, ViewStep
    <2> QED BY <1>3, <2>1, DrawViewKeepsArtifacts DEF CreateEncryptionEffectPlots, ViewOrder
<1>4. CASE CreateCompressionEffectPlots
    <2>1. 2 \in 1..7 /\ pc = 2 + 2
        BY <1>4 DEF CreateCompressionEffectPlots, ViewStep
    <2> QED BY <1>4, <2>1, DrawViewKeepsArtifacts DEF CreateCompressionEffectPlots, ViewOrder
<1>5. CASE CreateEntrySizeEffectPlots
    <2>1. 3 \in 1..7 /\ pc = 3 + 2
        BY <1>5 DEF CreateEntrySizeEffectPlots, ViewStep
    <2> QED BY <1>5, <2>1, DrawViewKeepsArtifacts DEF CreateEntrySizeEffectPlots, ViewOrder
<1>6. CASE CreateWriterThreadsEffectPlots
    <2>1. 4 \in 1..7 /\ pc = 4 + 2
        BY <1>6 DEF CreateWriterThreadsEffectPlots, ViewStep
    <2> QED BY <1>6, <2>1, DrawViewKeepsArtifacts DEF CreateWriterThreadsEffectPlots, ViewOrder
<1>7. CASE CreateBatchSizeEffectPlots
    <2>1. 5 \in 1..7 /\ pc = 5 + 2
        BY <1>7 DEF CreateBatchSizeEffectPlots, ViewStep
    <2> QED BY <1>7, <2>1, DrawViewKeepsArtifacts DEF CreateBatchSizeEffectPlots, ViewOrder
<1>8. CASE CreateHeatmaps
    <2>1. 6 \in 1..7 /\ pc = 6 + 2
        BY <1>8 DEF CreateHeatmaps, ViewStep
    <2> QED BY <1>8, <2>1, DrawViewKeepsArtifacts DEF CreateHeatmaps, ViewOrder
<1>9. CASE CreateEncryptionBatchAnalysisPlot
    <2>1. pc = 7 + 2 /\ ViewOrder[7] = "batch_analysis"
        BY <1>9 DEF CreateEncryptionBatchAnalysisPlot, ViewStep, ViewOrder
    <2>2. CASE /\ BatchAnalysisSkips(rows)
               /\ skipped' = skipped \cup {"batch_analysis"}
               /\ pc' = pc + 1
               /\ UNCHANGED <<csvRows, csvHeader, status, dirMade, cols, rows, files, charts, entryLabels, disk, pngSaved>>
        <3>1. Finished' = Finished \cup {"batch_analysis"}
              /\ "batch_analysis" \notin Finished
            BY <2>1, <2>2, FinishedGrows
        <3> QED BY <2>2, <3>1 DEF ArtifactsMatchProgress, BatchAnalysisSkips
    <2>3. CASE SaveFigures("batch_analysis", BatchAnalysisPoints(rows), {})
        BY <2>1, <2>3, SaveFiguresKeepsArtifacts
    <2> QED BY <1>9, <2>2, <2>3 DEF CreateEncryptionBatchAnalysisPlot
<1>10. CASE PrintPlotSummary
    BY <1>10 DEF PrintPlotSummary, ArtifactsMatchProgress, Finished
<1>11. CASE UNCHANGED vars
    BY <1>11 DEF vars, ArtifactsMatchProgress, Finished
<1> QED BY <1>1, <1>2, <1>3, <1>4, <1>5, <1>6, <1>7, <1>8, <1>9, <1>10, <1>11 DEF Next

(* The artifacts on disk are always exactly those of the views main()    *)
(* finished, less a batch analysis skipped for want of rows; TypeOK is    *)
(* the strengthening that makes it inductive (charts is a function on     *)
(* Views, pc stays within the steps of main()).                           *)
THEOREM ArtifactsCorrect == Spec => []ArtifactsMatchProgress
<1> DEFINE IInv == TypeOK /\ ArtifactsMatchProgress
<1>1. Init => IInv
    <2> SUFFICES ASSUME Init PROVE IInv
        OBVIOUS
    <2>1. TypeOK
        BY InitTyped
    <2>2. Finished = {}
        BY NothingFinishedBeforeViews DEF Init
    <2> QED BY <2>1, <2>2 DEF Init, ArtifactsMatchProgress
<1>2. IInv /\ [Next]_vars => ArtifactsMatchProgress'
    BY ArtifactsStep
<1> QED BY <1>1, <1>2, TypeCorrect, PTL DEF Spec

-----------------------------------------------------------------------------
(* The output directory.  ArtifactsOnDisk is not inductive by itself: a   *)
(* .png write must find the view's .pdf untouched, and the view main()    *)
(* enters next must find both its files untouched.  DiskIInv adds that    *)
(* a running main() has touched no file of its current view before the   *)
(* .png write, and that the .png flag is set only inside a view.          *)

UntouchedBeforePng ==
    status = "running" /\ ~pngSaved =>
        \A v \in Running : \A f \in Formats : disk[<<v, f>>] \in {"none", "old"}

PngInsideView == pngSaved => pc \in 3..9

DiskIInv ==
    /\ TypeOK
    /\ ArtifactsMatchProgress
    /\ ArtifactsOnDisk
    /\ UntouchedBeforePng
    /\ PngInsideView

LEMMA RunningView ==
    ASSUME NEW k \in 1..7, pc = k + 2
    PROVE  Running = {ViewOrder[k]}
BY DEF Running

LEMMA CurrentNotSaved ==
    ASSUME ArtifactsMatchProgress, NEW k \in 1..7, pc = k + 2
    PROVE  ViewOrder[k] \notin files
BY ViewOrderInjective DEF ArtifactsMatchProgress, Finished

LEMMA ArtifactsInViews ==
    ASSUME TypeOK, NEW a \in Artifacts
    PROVE  /\ a = <<a[1], a[2]>> /\ a[1] \in Views /\ a[2] \in Formats
           /\ disk[a] \in FileStates
BY DEF Artifacts, TypeOK

(* A step that ends the run and touches nothing but, perhaps, one file of *)
(* the current view keeps the directory consistent.                       *)
LEMMA FailureKeepsDisk ==
    ASSUME DiskIInv, status' = "exit1", UNCHANGED <<pc, files, disk, pngSaved>>
    PROVE  ArtifactsOnDisk' /\ UntouchedBeforePng' /\ PngInsideView'
BY DEF DiskIInv, ArtifactsOnDisk, Written, UntouchedBeforePng, PngInsideView, Running


(* A savefig call that fails on a file of the current view the run had    *)
(* not yet written leaves that file as it was or truncated, and ends the *)
(* run: the directory stays consistent.                                   *)
LEMMA FailedWriteKeepsDisk ==
    ASSUME DiskIInv, status' = "exit1", UNCHANGED <<pc, files, pngSaved>>,
           NEW a0 \in Artifacts, a0[1] \in Running, a0[1] \notin files,
           disk[a0] \in {"none", "old"},
           NEW st \in {disk[a0], "partial"}, disk' = [disk EXCEPT ![a0] = st]
    PROVE  ArtifactsOnDisk' /\ UntouchedBeforePng' /\ PngInsideView'
<1>1. \A a \in Artifacts : disk'[a] = IF a = a0 THEN st ELSE disk[a]
    BY DEF DiskIInv, TypeOK
<1>2. \A a \in Artifacts : disk'[a] # "new" \/ disk[a] = "new"
    BY <1>1
<1>3. \A v \in Views : v \in files' <=> Written(v)'
    <2> SUFFICES ASSUME NEW v \in Views PROVE v \in files' <=> Written(v)'
        OBVIOUS
    <2>1. <<v, "png">> \in Artifacts /\ <<v, "pdf">> \in Artifacts
        BY DEF Artifacts, Formats
    <2>2. CASE v = a0[1]
        <3>1. a0 = <<v, "png">> \/ a0 = <<v, "pdf">>
            BY <2>2 DEF Artifacts, Formats
        <3>2. ~Written(v)'
            BY <1>1, <2>1, <3>1 DEF Written
        <3> QED BY <2>2, <3>2
    <2>3. CASE v # a0[1]
        <3>1. <<v, "png">> # a0 /\ <<v, "pdf">> # a0
            BY <2>3
        <3> QED BY <1>1, <2>1, <3>1 DEF DiskIInv, ArtifactsOnDisk, Written
    <2> QED BY <2>2, <2>3
<1>4. \A a \in Artifacts :
          disk'[a] \in {"new", "partial"} => a[1] \in files' \cup Running'
    BY <1>1 DEF DiskIInv, ArtifactsOnDisk, Running
<1> QED BY <1>3, <1>4 DEF ArtifactsOnDisk, UntouchedBeforePng, PngInsideView, DiskIInv

LEMMA CurrentNotSavedNext ==
    ASSUME ArtifactsMatchProgress', NEW k \in 1..7, pc' = k + 2
    PROVE  ViewOrder[k] \notin files'
BY ViewOrderInjective DEF ArtifactsMatchProgress, Finished


(* The two savefig calls of view k, made while main() is at view k.       *)
LEMMA SaveFiguresKeepsDisk ==
    ASSUME DiskIInv, NEW k \in 1..7, pc = k + 2, status = "running",
           NEW pts, NEW lbls, SaveFigures(ViewOrder[k], pts, lbls),
           ArtifactsMatchProgress'
    PROVE  ArtifactsOnDisk' /\ UntouchedBeforePng' /\ PngInsideView'
<1> DEFINE v == ViewOrder[k]
<1>1. /\ v \in Views /\ Running = {v} /\ v \notin files
      /\ <<v, "png">> \in Artifacts /\ <<v, "pdf">> \in Artifacts
    BY ViewOrderInViews, RunningView, CurrentNotSaved DEF DiskIInv, Artifacts, Formats
<1>2. CASE ~pngSaved /\ SaveFigFails(v, "png")
    <2>1. disk[<<v, "png">>] \in {"none", "old"}
        BY <1>1, <1>2 DEF DiskIInv, UntouchedBeforePng, Formats
    <2>2. PICK st \in {disk[<<v, "png">>], "partial"} :
              disk' = [disk EXCEPT ![<<v, "png">>] = st]
        BY <1>1, <1>2, SaveFigFailsDisk DEF DiskIInv, Formats
    <2> QED BY <1>1, <1>2, <2>1, <2>2, FailedWriteKeepsDisk DEF SaveFigFails
<1>3. CASE pngSaved /\ SaveFigFails(v, "pdf")
    <2>1. disk[<<v, "pdf">>] \in {"none", "old"}
        BY <1>1, <1>3 DEF DiskIInv, ArtifactsOnDisk
    <2>2. PICK st \in {disk[<<v, "pdf">>], "partial"} :
              disk' = [disk EXCEPT ![<<v, "pdf">>] = st]
        BY <1>1, <1>3, SaveFigFailsDisk DEF DiskIInv, Formats
    <2> QED BY <1>1, <1>3, <2>1, <2>2, FailedWriteKeepsDisk DEF SaveFigFails
<1>4. CASE ~pngSaved /\ SavePng(v)
    <2>1. disk[<<v, "pdf">>] \in {"none", "old"}
        BY <1>1, <1>4 DEF DiskIInv, UntouchedBeforePng, Formats
    <2>2. \A a \in Artifacts :
              disk'[a] = IF a = <<v, "png">> THEN "new" ELSE disk[a]
        BY <1>4 DEF SavePng, SaveFig, DiskIInv, TypeOK
    <2>3. \A w \in Views : w \in files' <=> Written(w)'
        <3> SUFFICES ASSUME NEW w \in Views PROVE w \in files' <=> Written(w)'
            OBVIOUS
        <3>1. <<w, "png">> \in Artifacts /\ <<w, "pdf">> \in Artifacts
            BY DEF Artifacts, Formats
        <3>2. CASE w = v
            BY <1>1, <1>4, <2>1, <2>2, <3>1, <3>2 DEF Written, SavePng
        <3>3. CASE w # v
            BY <1>4, <2>2, <3>1, <3>3 DEF Written, SavePng, DiskIInv, ArtifactsOnDisk
        <3> QED BY <3>2, <3>3
    <2>4. \A a \in Artifacts :
              disk'[a] \in {"new", "partial"} => a[1] \in files' \cup Running'
        BY <1>1, <1>4, <2>2 DEF SavePng, DiskIInv, ArtifactsOnDisk, Running
    <2>5. pngSaved' /\ status' = "running" => \A w \in Running' :
              disk'[<<w, "png">>] = "new" /\ disk'[<<w, "pdf">>] \in {"none", "old"}
        BY <1>1, <1>4, <2>1, <2>2 DEF SavePng, Running
    <2> QED BY <1>4, <2>3, <2>4, <2>5
            DEF SavePng, ArtifactsOnDisk, UntouchedBeforePng, PngInsideView
<1>5. CASE pngSaved /\ SaveView(v, pts, lbls)
    <2>1. disk[<<v, "png">>] = "new"
        BY <1>1, <1>5 DEF DiskIInv, ArtifactsOnDisk
    <2>2. \A a \in Artifacts :
              disk'[a] = IF a = <<v, "pdf">> THEN "new" ELSE disk[a]
        BY <1>5 DEF SaveView, SaveFig, DiskIInv, TypeOK
    <2>3. files' = files \cup {v} /\ pc' = pc + 1 /\ ~pngSaved'
          /\ status' = status
        BY <1>5 DEF SaveView
    <2>4. \A w \in Views : w \in files' <=> Written(w)'
        <3> SUFFICES ASSUME NEW w \in Views PROVE w \in files' <=> Written(w)'
            OBVIOUS
        <3>1. <<w, "png">> \in Artifacts /\ <<w, "pdf">> \in Artifacts
            BY DEF Artifacts, Formats
        <3>2. CASE w = v
            BY <1>1, <2>1, <2>2, <2>3, <3>1, <3>2 DEF Written
        <3>3. CASE w # v
            BY <2>2, <2>3, <3>1, <3>3 DEF Written, DiskIInv, ArtifactsOnDisk
        <3> QED BY <3>2, <3>3
    <2>5. \A a \in Artifacts :
              disk'[a] \in {"new", "partial"} => a[1] \in files' \cup Running'
        BY <1>1, <2>2, <2>3 DEF DiskIInv, ArtifactsOnDisk
    <2>6. UntouchedBeforePng'
        <3> SUFFICES ASSUME status' = "running", NEW w \in Running', NEW f \in Formats
                     PROVE  disk'[<<w, f>>] \in {"none", "old"}
            BY <2>3 DEF UntouchedBeforePng
        <3>1. k < 7 /\ w = ViewOrder[k + 1] /\ k + 1 \in 1..7
            BY <2>3 DEF Running
        <3>2. w \notin files /\ w # v /\ w \in Views
            BY <2>3, <3>1, CurrentNotSavedNext, ViewOrderInjective, ViewOrderInViews
        <3>3. <<w, f>> \in Artifacts /\ <<w, f>>[1] = w /\ <<w, f>> # <<v, "pdf">>
            BY <3>2 DEF Artifacts
        <3>4. disk[<<w, f>>] \notin {"new", "partial"}
            BY <1>1, <3>2, <3>3 DEF DiskIInv, ArtifactsOnDisk
        <3> QED BY <2>2, <3>3, <3>4 DEF DiskIInv, TypeOK, FileStates
    <2> QED BY <2>3, <2>4, <2>5, <2>6 DEF ArtifactsOnDisk, PngInsideView
<1> QED BY <1>2, <1>3, <1>4, <1>5 DEF SaveFigures


LEMMA DrawViewKeepsDisk ==
    ASSUME DiskIInv, NEW k \in 1..7, pc = k + 2, status = "running",
           NEW reads, NEW raises, NEW pts, NEW lbls,
           DrawView(ViewOrder[k], reads, raises, pts, lbls),
           ArtifactsMatchProgress'
    PROVE  ArtifactsOnDisk' /\ UntouchedBeforePng' /\ PngInsideView'
BY SaveFiguresKeepsDisk, FailureKeepsDisk DEF DrawView, Crash

LEMMA DiskStep == DiskIInv /\ [Next]_vars => DiskIInv'
<1> SUFFICES ASSUME DiskIInv, [Next]_vars PROVE DiskIInv'
    OBVIOUS
<1>0. TypeOK' /\ ArtifactsMatchProgress'
    BY TypeOKStep, ArtifactsStep DEF DiskIInv
<1> SUFFICES ArtifactsOnDisk' /\ UntouchedBeforePng' /\ PngInsideView'
    BY <1>0 DEF DiskIInv
<1>1. CASE MakeDirs
    <2>1. CASE Crash
        BY <2>1, FailureKeepsDisk DEF Crash
    <2>2. CASE /\ pc = 1 /\ dirMade' = TRUE /\ pc' = 2
               /\ UNCHANGED <<csvRows, csvHeader, status, cols, rows, files, charts, skipped, entryLabels, disk, pngSaved>>
        BY <2>2 DEF DiskIInv, ArtifactsOnDisk, Written, UntouchedBeforePng, PngInsideView, Running
    <2> QED BY <1>1, <2>1, <2>2 DEF MakeDirs
<1>2. CASE LoadGdprData
    <2>1. CASE Crash
        BY <2>1, FailureKeepsDisk DEF Crash
    <2>2. CASE /\ pc = 2 /\ status' = "exit1"
               /\ UNCHANGED <<pc, files, disk, pngSaved>>
        BY <2>2, FailureKeepsDisk
    <2>3. CASE /\ pc = 2 /\ pc' = 3 /\ status' = status
               /\ UNCHANGED <<files, disk, pngSaved>>
        <3>1. files = {} /\ ~pngSaved /\ Running = {}
            BY <2>3, NothingFinishedBeforeViews DEF DiskIInv, ArtifactsMatchProgress, PngInsideView, Running
        <3>2. \A a \in Artifacts : disk[a] \in {"none", "old"}
            BY <3>1 DEF DiskIInv, ArtifactsOnDisk, TypeOK, FileStates
        <3>3. \A v \in Views : ~Written(v)
            BY <3>1 DEF DiskIInv, ArtifactsOnDisk
        <3>4. \A v \in Views : \A f \in Formats : <<v, f>> \in Artifacts
            BY DEF Artifacts
        <3>5. Running' = {"encryption_effect"} /\ "encryption_effect" \in Views
            BY <2>3 DEF Running, ViewOrder, Views
        <3>6. ArtifactsOnDisk'
            BY <2>3, <3>1, <3>2, <3>3 DEF ArtifactsOnDisk, Written
        <3>7. UntouchedBeforePng'
            BY <2>3, <3>2, <3>4, <3>5 DEF UntouchedBeforePng
        <3> QED BY <2>3, <3>1, <3>6, <3>7 DEF PngInsideView
    <2> QED BY <1>2, <2>1, <2>2, <2>3 DEF LoadGdprData
<1>3. CASE CreateEncryptionEffectPlots
    <2>1. 1 \in 1..7 /\ pc = 1 + 2 /\ status = "running"
        BY <1>3 DEF CreateEncryptionEffectPlots, ViewStep
    <2> QED BY <1>3, <2>1, <1>0, DrawViewKeepsDisk DEF CreateEncryptionEffectPlots, ViewOrder
<1>4. CASE CreateCompressionEffectPlots
    <2>1. 2 \in 1..7 /\ pc = 2 + 2 /\ status = "running"
        BY <1>4 DEF CreateCompressionEffectPlots, ViewStep
    <2> QED BY <1>4, <2>1, <1>0, DrawViewKeepsDisk DEF CreateCompressionEffectPlots, ViewOrder
<1>5. CASE CreateEntrySizeEffectPlots
    <2>1. 3 \in 1..7 /\ pc = 3 + 2 /\ status = "running"
        BY <1>5 DEF CreateEntrySizeEffectPlots, ViewStep
    <2> QED BY <1>5, <2>1, <1>0, DrawViewKeepsDisk DEF CreateEntrySizeEffectPlots, ViewOrder
<1>6. CASE CreateWriterThreadsEffectPlots
    <2>1. 4 \in 1..7 /\ pc = 4 + 2 /\ status = "running"
        BY <1>6 DEF CreateWriterThreadsEffectPlots, ViewStep
    <2> QED BY <1>6, <2>1, <1>0, DrawViewKeepsDisk DEF CreateWriterThreadsEffectPlots, ViewOrder
<1>7. CASE CreateBatchSizeEffectPlots
    <2>1. 5 \in 1..7 /\ pc = 5 + 2 /\ status = "running"
        BY <1>7 DEF CreateBatchSizeEffectPlots, ViewStep
    <2> QED BY <1>7, <2>1, <1>0, DrawViewKeepsDisk DEF CreateBatchSizeEffectPlots, ViewOrder
<1>8. CASE CreateHeatmaps
    <2>1. 6 \in 1..7 /\ pc = 6 + 2 /\ status = "running"
        BY <1>8 DEF CreateHeatmaps, ViewStep
    <2> QED BY <1>8, <2>1, <1>0, DrawViewKeepsDisk DEF CreateHeatmaps, ViewOrder
<1>9. CASE CreateEncryptionBatchAnalysisPlot
    <2>1. pc = 7 + 2 /\ status = "running" /\ ViewOrder[7] = "batch_analysis"
        BY <1>9 DEF CreateEncryptionBatchAnalysisPlot, ViewStep, ViewOrder
    <2>2. CASE /\ ~pngSaved
               /\ pc' = pc + 1
               /\ UNCHANGED <<status, files, disk, pngSaved>>
        <3>1. Running = {"batch_analysis"} /\ Running' = {}
            BY <2>1, <2>2 DEF Running, ViewOrder
        <3>2. \A a \in Artifacts : disk[a] \in {"new", "partial"} => a[1] \in files
            <4> SUFFICES ASSUME NEW a \in Artifacts, disk[a] \in {"new", "partial"}
                         PROVE  a[1] \in files
                OBVIOUS
            <4>1. a = <<a[1], a[2]>> /\ a[2] \in Formats
                BY DEF Artifacts
            <4>2. a[1] # "batch_analysis"
                BY <2>1, <2>2, <3>1, <4>1 DEF DiskIInv, UntouchedBeforePng
            <4> QED BY <3>1, <4>2 DEF DiskIInv, ArtifactsOnDisk
        <3> QED BY <2>2, <3>1, <3>2
                DEF DiskIInv, ArtifactsOnDisk, Written, UntouchedBeforePng, PngInsideView
    <2>3. CASE SaveFigures("batch_analysis", BatchAnalysisPoints(rows), {})
        BY <1>0, <2>1, <2>3, SaveFiguresKeepsDisk
    <2> QED BY <1>9, <2>2, <2>3 DEF CreateEncryptionBatchAnalysisPlot
<1>10. CASE PrintPlotSummary
    BY <1>10 DEF PrintPlotSummary, SummaryPc, DiskIInv, ArtifactsOnDisk, Written,
                 UntouchedBeforePng, PngInsideView, Running
<1>11. CASE UNCHANGED vars
    BY <1>11 DEF vars, DiskIInv, ArtifactsOnDisk, Written, UntouchedBeforePng,
                 PngInsideView, Running
<1> QED BY <1>1, <1>2, <1>3, <1>4, <1>5, <1>6, <1>7, <1>8, <1>9, <1>10, <1>11 DEF Next

LEMMA DiskInit == Init => DiskIInv
<1> SUFFICES ASSUME Init PROVE DiskIInv
    OBVIOUS
<1>1. TypeOK /\ ArtifactsMatchProgress
    BY InitTyped, NothingFinishedBeforeViews DEF Init, ArtifactsMatchProgress
<1>2. \A a \in Artifacts : disk[a] \in {"none", "old"}
    BY InputsAssumption DEF Init
<1> QED BY <1>1, <1>2 DEF Init, DiskIInv, ArtifactsOnDisk, Written, UntouchedBeforePng,
                         PngInsideView, Running, Artifacts, Formats

(* Whatever the output directory held before, a run of main() leaves the *)
(* .png and .pdf of a view complete exactly for the views it finished,    *)
(* touches no file of a view it never reached, and between the two        *)
(* savefig calls of a view has written its .png and not yet its .pdf.     *)
(* ArtifactsOnDisk is not inductive: DiskIInv adds TypeOK,                *)
(* ArtifactsMatchProgress, that a running main() has touched no file of   *)
(* its current view before the .png write, and that the .png flag is set  *)
(* only inside a view.                                                    *)
THEOREM DiskCorrect == Spec => []ArtifactsOnDisk
<1>1. Init => DiskIInv
    BY DiskInit
<1>2. DiskIInv /\ [Next]_vars => DiskIInv'
    BY DiskStep
<1>3. DiskIInv => ArtifactsOnDisk
    BY DEF DiskIInv
<1> QED BY <1>1, <1>2, <1>3, PTL DEF Spec


-----------------------------------------------------------------------------
(* Refinement: main() implements ReportAbstract under the mapping         *)
(* done <- Done, out <- files, result <- status.                          *)

(* The two savefig calls of view k are a stutter (.png), the abstract     *)
(* Produce (.pdf) or the abstract Fail (an OSError).                       *)
LEMMA SaveFiguresRefines ==
    ASSUME TypeOK, NEW k \in 1..7, pc = k + 2, status = "running",
           NEW pts, NEW lbls, SaveFigures(ViewOrder[k], pts, lbls)
    PROVE  [Abstract!Next]_Abstract!avars
<1>1. Done = k - 1 /\ Len(ViewOrder) = 7
    BY DEF Done, ViewOrder
<1>2. CASE SaveFigFails(ViewOrder[k], "png") \/ SaveFigFails(ViewOrder[k], "pdf")
    <2>1. Abstract!Fail
        BY <1>2 DEF SaveFigFails, Abstract!Fail, Done
    <2> QED BY <2>1 DEF Abstract!Next
<1>3. CASE SavePng(ViewOrder[k])
    BY <1>3 DEF SavePng, Abstract!avars, Done
<1>4. CASE SaveView(ViewOrder[k], pts, lbls)
    <2>1. Abstract!Produce
        BY <1>1, <1>4 DEF SaveView, Abstract!Produce, Done
    <2> QED BY <2>1 DEF Abstract!Next
<1> QED BY <1>2, <1>3, <1>4 DEF SaveFigures

LEMMA DrawViewRefines ==
    ASSUME TypeOK, NEW k \in 1..7, pc = k + 2, status = "running",
           NEW reads, NEW raises, NEW pts, NEW lbls,
           DrawView(ViewOrder[k], reads, raises, pts, lbls)
    PROVE  [Abstract!Next]_Abstract!avars
<1>1. CASE Crash
    <2>1. Abstract!Fail
        BY <1>1 DEF Crash, Abstract!Fail, Done
    <2> QED BY <2>1 DEF Abstract!Next
<1> QED BY <1>1, SaveFiguresRefines DEF DrawView

LEMMA RefinementStep == TypeOK /\ [Next]_vars => [Abstract!Next]_Abstract!avars
<1> SUFFICES ASSUME TypeOK, [Next]_vars PROVE [Abstract!Next]_Abstract!avars
    OBVIOUS
<1>1. CASE MakeDirs
    <2>1. CASE Crash
        <3>1. Abstract!Fail
            BY <1>1, <2>1 DEF MakeDirs, Crash, Abstract!Fail, Done
        <3> QED BY <3>1 DEF Abstract!Next
    <2>2. CASE /\ pc = 1 /\ pc' = 2
               /\ UNCHANGED <<status, files>>
        BY <2>2 DEF Abstract!avars, Done
    <2> QED BY <1>1, <2>1, <2>2 DEF MakeDirs
<1>2. CASE LoadGdprData
    <2>1. CASE status = "running" /\ status' = "exit1" /\ UNCHANGED <<pc, files>>
        <3>1. Abstract!Fail
            BY <2>1 DEF Abstract!Fail, Done
        <3> QED BY <3>1 DEF Abstract!Next
    <2>2. CASE pc = 2 /\ pc' = 3 /\ UNCHANGED <<status, files>>
        BY <2>2 DEF Abstract!avars, Done
    <2> QED BY <1>2, <2>1, <2>2 DEF LoadGdprData, Crash
<1>3. CASE CreateEncryptionEffectPlots
    <2>1. 1 \in 1..7 /\ pc = 1 + 2 /\ status = "running"
        BY <1>3 DEF CreateEncryptionEffectPlots, ViewStep
    <2> QED BY <1>3, <2>1, DrawViewRefines DEF CreateEncryptionEffectPlots, ViewOrder
<1>4. CASE CreateCompressionEffectPlots
    <2>1. 2 \in 1..7 /\ pc = 2 + 2 /\ status = "running"
        BY <1>4 DEF CreateCompressionEffectPlots, ViewStep
    <2> QED BY <1>4, <2>1, DrawViewRefines DEF CreateCompressionEffectPlots, ViewOrder
<1>5. CASE CreateEntrySizeEffectPlots
    <2>1. 3 \in 1..7 /\ pc = 3 + 2 /\ status = "running"
        BY <1>5 DEF CreateEntrySizeEffectPlots, ViewStep
    <2> QED BY <1>5, <2>1, DrawViewRefines DEF CreateEntrySizeEffectPlots, ViewOrder
<1>6. CASE CreateWriterThreadsEffectPlots
    <2>1. 4 \in 1..7 /\ pc = 4 + 2 /\ status = "running"
        BY <1>6 DEF CreateWriterThreadsEffectPlots, ViewStep
    <2> QED BY <1>6, <2>1, DrawViewRefines DEF CreateWriterThreadsEffectPlots, ViewOrder
<1>7. CASE CreateBatchSizeEffectPlots
    <2>1. 5 \in 1..7 /\ pc = 5 + 2 /\ status = "running"
        BY <1>7 DEF CreateBatchSizeEffectPlots, ViewStep
    <2> QED BY <1>7, <2>1, DrawViewRefines DEF CreateBatchSizeEffectPlots, ViewOrder
<1>8. CASE CreateHeatmaps
    <2>1. 6 \in 1..7 /\ pc = 6 + 2 /\ status = "running"
        BY <1>8 DEF CreateHeatmaps, ViewStep
    <2> QED BY <1>8, <2>1, DrawViewRefines DEF CreateHeatmaps, ViewOrder
<1>9. CASE CreateEncryptionBatchAnalysisPlot
    <2>1. pc = 7 + 2 /\ status = "running" /\ ViewOrder[7] = "batch_analysis"
        BY <1>9 DEF CreateEncryptionBatchAnalysisPlot, ViewStep, ViewOrder
    <2>2. CASE pc' = pc + 1 /\ UNCHANGED <<status, files>>
        <3>1. Abstract!Skip
            BY <2>1, <2>2 DEF Abstract!Skip, Done, ViewOrder
        <3> QED BY <3>1 DEF Abstract!Next
    <2>3. CASE SaveFigures("batch_analysis", BatchAnalysisPoints(rows), {})
        BY <2>1, <2>3, SaveFiguresRefines
    <2> QED BY <1>9, <2>2, <2>3 DEF CreateEncryptionBatchAnalysisPlot
<1>10. CASE PrintPlotSummary
    <2>1. Abstract!Finish
        BY <1>10 DEF PrintPlotSummary, SummaryPc, Abstract!Finish, Done, ViewOrder
    <2> QED BY <2>1 DEF Abstract!Next
<1>11. CASE UNCHANGED vars
    BY <1>11 DEF vars, Abstract!avars, Done
<1> QED BY <1>1, <1>2, <1>3, <1>4, <1>5, <1>6, <1>7, <1>8, <1>9, <1>10, <1>11 DEF Next

(* main() implements the safety part of its abstract contract for every   *)
(* input file, header and prior directory: every step of main() is a      *)
(* stutter or one of Produce, Skip, Fail, Finish of ReportAbstract under  *)
(* done <- Done, out <- files, result <- status.  The only fact the steps *)
(* need beyond the action is TypeOK (pc stays within the steps of         *)
(* main()).  The fairness part stays with TLC (AbstractSpec).             *)
THEOREM Refinement == Spec => Abstract!SafetySpec
<1>1. Init => Abstract!Init
    BY DEF Init, Abstract!Init, Done
<1>2. TypeOK /\ [Next]_vars => [Abstract!Next]_Abstract!avars
    BY RefinementStep
<1> QED BY <1>1, <1>2, TypeCorrect, PTL DEF Spec, Abstract!SafetySpec

=============================================================================
