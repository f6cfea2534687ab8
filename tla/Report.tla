------------------------------ MODULE Report ------------------------------
(***************************************************************************)
(* The report driver main() of gdpruler_benchmark_plot.py: create the      *)
(* output directory, load the CSV, run the seven views in their fixed      *)
(* order, print the summary.  An uncaught exception anywhere ends the      *)
(* process with exit status 1; nothing catches one.                        *)
(***************************************************************************)
EXTENDS Views

CONSTANTS
    Datasets,   \* the row sets the input file may hold
    Headers,    \* the column sets its header row may name
    PriorDisks  \* what the output directory may hold before the run

(* Each view writes <view>.png, then <view>.pdf (plt.savefig twice).  A   *)
(* file is absent, left by an earlier run, truncated by a failed write,   *)
(* or complete from this run.                                             *)
Formats == {"png", "pdf"}
Artifacts == Views \X Formats
FileStates == {"none", "old", "partial", "new"}

ASSUME InputsAssumption ==
    /\ \A rs \in Datasets : rs \subseteq Row
    /\ \A c \in Headers : c \subseteq Columns
    /\ PriorDisks \subseteq [Artifacts -> {"none", "old"}]

VARIABLES
    csvRows,      \* rows of the input file (fixed before main() starts)
    csvHeader,    \* columns its header row names
    pc,           \* step of main(): 1 makedirs, 2 load, k+2 view k, 10 summary
    status,       \* "running", or the exit status "exit0" / "exit1"
    dirMade,      \* os.makedirs(output_dir) has run
    cols,         \* columns of the loaded DataFrame
    rows,         \* rows of the loaded DataFrame
    files,        \* views whose .png and .pdf were saved
    charts,       \* what each saved view drew
    skipped,      \* views that printed "No data found" and returned
    entryLabels,  \* <<entry size, KB shown>> pairs drawn in saved views
    disk,         \* state of each artifact file in the output directory
    pngSaved      \* the current view's .png is written, its .pdf not yet

vars == <<csvRows, csvHeader, pc, status, dirMade, cols, rows, files, charts, skipped, entryLabels, disk, pngSaved>>

SummaryPc == 10

Init ==
    /\ csvRows \in Datasets
    /\ csvHeader \in Headers
    /\ pc = 1
    /\ status = "running"
    /\ dirMade = FALSE
    /\ cols = {}
    /\ rows = {}
    /\ files = {}
    /\ charts = [v \in Views |-> {}]
    /\ skipped = {}
    /\ entryLabels = {}
    /\ disk \in PriorDisks
    /\ pngSaved = FALSE

Crash ==
    /\ status' = "exit1"
    /\ UNCHANGED <<csvRows, csvHeader, pc, dirMade, cols, rows, files, charts, skipped, entryLabels, disk, pngSaved>>

-----------------------------------------------------------------------------
(* os.makedirs(args.output_dir, exist_ok=True) *)
MakeDirs ==
    /\ pc = 1 /\ status = "running"
    /\ \/ /\ dirMade' = TRUE
          /\ pc' = 2
          /\ UNCHANGED <<csvRows, csvHeader, status, cols, rows, files, charts, skipped, entryLabels, disk, pngSaved>>
       \/ Crash

(* df = load_gdpr_data(args.input_file), then the "Data summary" prints,  *)
(* which index batch_size and consumers.  read_csv raises on an unreadable *)
(* file; df[c] raises KeyError for a missing dimension column.  A missing  *)
(* metric column goes unnoticed here.                                      *)
LoadGdprData ==
    /\ pc = 2 /\ status = "running"
    /\ \/ Crash
       \/ /\ cols' = csvHeader
          /\ rows' = csvRows
          /\ \/ DimCols \subseteq csvHeader /\ pc' = 3 /\ UNCHANGED status
             \/ ~(DimCols \subseteq csvHeader) /\ status' = "exit1" /\ UNCHANGED pc
          /\ UNCHANGED <<csvRows, csvHeader, dirMade, files, charts, skipped, entryLabels, disk, pngSaved>>

(* One create_* call: it raises (KeyError on a column the header lacks,   *)
(* or an error of its own) before savefig, or it reaches the two savefig  *)
(* calls.  savefig opens the target path and writes it in place: an       *)
(* OSError (disk full, permission) ends the run and leaves the file as it *)
(* was or truncated.  The figure is computed from rows, which no view     *)
(* changes, so the .pdf step draws what the .png step drew.               *)
SaveFig(v, fmt) ==
    disk' = [disk EXCEPT ![<<v, fmt>>] = "new"]

SaveFigFails(v, fmt) ==
    /\ disk' \in {disk, [disk EXCEPT ![<<v, fmt>>] = "partial"]}
    /\ status' = "exit1"
    /\ UNCHANGED <<csvRows, csvHeader, pc, dirMade, cols, rows, files, charts, skipped, entryLabels, pngSaved>>

SavePng(v) ==
    /\ SaveFig(v, "png")
    /\ pngSaved' = TRUE
    /\ UNCHANGED <<csvRows, csvHeader, pc, status, dirMade, cols, rows, files, charts, skipped, entryLabels>>

(* Mutant: the .pdf savefig call is missing. *)
SaveViewNoPdf(v, pts, lbls) ==
    /\ files' = files \cup {v}
    /\ charts' = [charts EXCEPT ![v] = pts]
    /\ entryLabels' = entryLabels \cup lbls
    /\ pc' = pc + 1
    /\ pngSaved' = FALSE
    /\ UNCHANGED <<csvRows, csvHeader, status, dirMade, cols, rows, skipped, disk>>

(* The .pdf is written: the view is complete and main() moves on. *)
SaveView(v, pts, lbls) ==
    /\ SaveFig(v, "pdf")
    /\ files' = files \cup {v}
    /\ charts' = [charts EXCEPT ![v] = pts]
    /\ entryLabels' = entryLabels \cup lbls
    /\ pc' = pc + 1
    /\ pngSaved' = FALSE
    /\ UNCHANGED <<csvRows, csvHeader, status, dirMade, cols, rows, skipped>>

(* The two savefig calls of a view whose figure was drawn. *)
SaveFigures(v, pts, lbls) ==
    \/ ~pngSaved /\ SavePng(v)
    \/ ~pngSaved /\ SaveFigFails(v, "png")
    \/ pngSaved /\ SaveView(v, pts, lbls)
    \/ pngSaved /\ SaveFigFails(v, "pdf")

(* Mutant: the figure is saved in a finally block, even when it raised. *)
DrawViewSavesOnError(v, reads, raises, pts, lbls) ==
    \/ /\ ~pngSaved
       /\ ~(reads \subseteq cols) \/ raises
       /\ status' = "exit1"
       /\ files' = files \cup {v}
       /\ charts' = [charts EXCEPT ![v] = pts]
       /\ disk' = [a \in Artifacts |-> IF a[1] = v THEN "new" ELSE disk[a]]
       /\ UNCHANGED <<csvRows, csvHeader, pc, dirMade, cols, rows, skipped, entryLabels, pngSaved>>
    \/ /\ pngSaved \/ (reads \subseteq cols /\ ~raises)
       /\ SaveFigures(v, pts, lbls)

(* Mutant: main() wraps each view in try/except and goes on to the next. *)
DrawViewContinues(v, reads, raises, pts, lbls) ==
    \/ /\ ~pngSaved
       /\ ~(reads \subseteq cols) \/ raises
       /\ pc' = pc + 1
       /\ UNCHANGED <<csvRows, csvHeader, status, dirMade, cols, rows, files, charts, skipped, entryLabels, disk, pngSaved>>
    \/ /\ pngSaved \/ (reads \subseteq cols /\ ~raises)
       /\ SaveFigures(v, pts, lbls)

DrawView(v, reads, raises, pts, lbls) ==
    \/ /\ ~pngSaved
       /\ ~(reads \subseteq cols) \/ raises
       /\ Crash
    \/ /\ pngSaved \/ (reads \subseteq cols /\ ~raises)
       /\ SaveFigures(v, pts, lbls)

ViewStep(k) == pc = k + 2 /\ status = "running"

CreateEncryptionEffectPlots ==
    /\ ViewStep(1)
    /\ DrawView("encryption_effect", EncryptionEffectReads(rows),
                EncryptionEffectRaises(rows), EncryptionEffectPoints(rows),
                EncryptionEffectLabels(rows))

CreateCompressionEffectPlots ==
    /\ ViewStep(2)
    /\ DrawView("compression_effect", CompressionEffectReads(rows),
                CompressionEffectRaises(rows), CompressionEffectPoints(rows),
                CompressionEffectLabels(rows))

CreateEntrySizeEffectPlots ==
    /\ ViewStep(3)
    /\ DrawView("entry_size_effect", EntrySizeEffectReads(rows),
                EntrySizeEffectRaises(rows), EntrySizeEffectPoints(rows),
                EntrySizeEffectLabels(rows))

CreateWriterThreadsEffectPlots ==
    /\ ViewStep(4)
    /\ DrawView("writer_threads_effect", WriterThreadsEffectReads(rows),
                WriterThreadsEffectRaises(rows), WriterThreadsEffectPoints(rows),
                WriterThreadsEffectLabels(rows))

CreateBatchSizeEffectPlots ==
    /\ ViewStep(5)
    /\ DrawView("batch_size_effect", BatchSizeEffectReads(rows),
                BatchSizeEffectRaises(rows), BatchSizeEffectPoints(rows),
                BatchSizeEffectLabels(rows))

(* Mutant: savefig writes 'heatmap.png' (a typo in the file name). *)
CreateHeatmapsMisnamed ==
    /\ ViewStep(6)
    /\ DrawView("heatmap", HeatmapsReads(rows), HeatmapsRaises(rows),
                HeatmapsPoints(rows), {})

CreateHeatmaps ==
    /\ ViewStep(6)
    /\ DrawView("heatmaps", HeatmapsReads(rows), HeatmapsRaises(rows),
                HeatmapsPoints(rows), {})

(* The only view with an emptiness check: it prints and returns.  It     *)
(* reads entries_per_sec and write_amplification only, which            *)
(* create_encryption_effect_plots has read already, and has no bar or     *)
(* hatch indexing: it cannot raise.                                       *)
CreateEncryptionBatchAnalysisPlot ==
    /\ ViewStep(7)
    /\ \/ /\ ~pngSaved /\ BatchAnalysisSkips(rows)
          /\ skipped' = skipped \cup {"batch_analysis"}
          /\ pc' = pc + 1
          /\ UNCHANGED <<csvRows, csvHeader, status, dirMade, cols, rows, files, charts, entryLabels, disk, pngSaved>>
       \/ /\ pngSaved \/ ~BatchAnalysisSkips(rows)
          /\ SaveFigures("batch_analysis", BatchAnalysisPoints(rows), {})

(* "All plots saved", print_plot_summary(), return from main(). *)
PrintPlotSummary ==
    /\ pc = SummaryPc /\ status = "running"
    /\ status' = "exit0"
    /\ UNCHANGED <<csvRows, csvHeader, pc, dirMade, cols, rows, files, charts, skipped, entryLabels, disk, pngSaved>>

Next ==
    \/ MakeDirs
    \/ LoadGdprData
    \/ CreateEncryptionEffectPlots
    \/ CreateCompressionEffectPlots
    \/ CreateEntrySizeEffectPlots
    \/ CreateWriterThreadsEffectPlots
    \/ CreateBatchSizeEffectPlots
    \/ CreateHeatmaps
    \/ CreateEncryptionBatchAnalysisPlot
    \/ PrintPlotSummary

(* main() runs to the end on one thread: it is never stopped from outside. *)
Spec == Init /\ [][Next]_vars /\ WF_vars(Next)

-----------------------------------------------------------------------------
(***************************************************************************)
(* Properties.                                                             *)
(***************************************************************************)

(* A group key or filter: a function on some of the dimension columns. *)
IsKey(f) == f = [e \in DOMAIN f |-> f[e]] /\ DOMAIN f \subseteq DimCols

Panels == {"a", "b", "c", "d"}
Forms == {"value", "percent", "normalized"}

IsPoint(pt) ==
    /\ DOMAIN pt = {"view", "panel", "filt", "x", "src", "metric", "form"}
    /\ pt.view \in Views /\ pt.panel \in Panels
    /\ IsKey(pt.filt) /\ IsKey(pt.x) /\ (pt.src = Fallback \/ IsKey(pt.src))
    /\ pt.metric \in MetricCols
    /\ pt.form \in Forms

TypeOK ==
    /\ csvRows \subseteq Row
    /\ csvHeader \subseteq Columns
    /\ pc \in 1..SummaryPc
    /\ status \in {"running", "exit0", "exit1"}
    /\ dirMade \in BOOLEAN
    /\ cols \subseteq Columns
    /\ rows \subseteq Row
    /\ files \subseteq Views
    /\ DOMAIN charts = Views
    /\ \A v \in Views : \A pt \in charts[v] : IsPoint(pt)
    /\ skipped \subseteq Views
    /\ entryLabels \subseteq EntrySizes \X Nat
    /\ disk \in [Artifacts -> FileStates]
    /\ pngSaved \in BOOLEAN

(* The views that main() has finished (returned from) so far. *)
Finished == {ViewOrder[k] : k \in {j \in 1..7 : j + 2 < pc}}

(* The artifacts on disk are exactly those of the views main() finished, *)
(* in its fixed order, less the batch analysis when it found no row with  *)
(* compression_level 0 and use_encryption 1; only that view is ever       *)
(* skipped, and only for that reason; an exception leaves the files of    *)
(* the views before it and nothing of its own.                            *)
ArtifactsMatchProgress ==
    /\ files = Finished \ skipped
    /\ skipped \subseteq {"batch_analysis"} \cap Finished
    /\ "batch_analysis" \in skipped => Sub(rows, BatchAnalysisFilter) = {}
    /\ \A v \in Views \ files : charts[v] = {}

(* The view main() is inside, if any. *)
Running == IF pc \in 3..9 THEN {ViewOrder[pc - 2]} ELSE {}

(* Both files of view v were written completely by this run. *)
Written(v) == disk[<<v, "png">>] = "new" /\ disk[<<v, "pdf">>] = "new"

(* The output directory agrees with main()'s progress through the two    *)
(* savefig calls of each view: a view counts as saved exactly when both   *)
(* its .png and .pdf were written by this run; no run touches a file of a *)
(* view it has not reached or that it skipped, whatever the directory     *)
(* held before; and while main() runs between the two calls, the .png is  *)
(* new and the .pdf not yet touched.                                      *)
ArtifactsOnDisk ==
    /\ \A v \in Views : v \in files <=> Written(v)
    /\ \A a \in Artifacts :
          disk[a] \in {"new", "partial"} => a[1] \in files \cup Running
    /\ pngSaved /\ status = "running" => \A v \in Running :
          disk[<<v, "png">>] = "new" /\ disk[<<v, "pdf">>] \in {"none", "old"}

(* The abstract main(): how many views it has returned from (view k runs *)
(* at pc = k + 2), the views with complete artifacts, the exit status.    *)
Done == IF pc >= 3 THEN pc - 3 ELSE 0

Abstract == INSTANCE ReportAbstract
    WITH Order <- ViewOrder, Optional <- "batch_analysis",
         done <- Done, out <- files, result <- status

(* main() implements its abstract contract: the views complete one by one *)
(* in the order of its seven create_* calls, only the batch analysis may  *)
(* return without writing, an exception keeps what was written and ends   *)
(* the run with 1, and exit 0 comes only after the last view; the         *)
(* makedirs, load and .png steps are invisible to it.                     *)
AbstractSpec == Abstract!Spec

(* Spec 4.2 / 4.3: every value is drawn at the tick of the group it was   *)
(* averaged over (or is a default).  create_encryption_effect_plots hands *)
(* the bare .values of each groupby to ax.bar.                            *)
PointsAligned ==
    \A v \in files : \A pt \in charts[v] : pt.src \in {pt.x, Fallback}

(* Spec 4.4 and 7: only a load failure is fatal; an error in one view     *)
(* must not abort the views after it.                                     *)
ViewFailureContained ==
    status = "exit1" => pc \in {1, 2}

(* Spec 4.1 and 7: a file missing a required column fails at load, before *)
(* any chart is written.                                                  *)
MissingColumnFatalAtLoad ==
    ~(Columns \subseteq cols) => files = {}

(* Spec 4.1 and 8: entry sizes 1024, 2048, 4096 are labelled 1KB, 2KB,    *)
(* 4KB and any other size carries no label.                               *)
SpecEntryLabel(es) ==
    IF es \in {1024, 2048, 4096} THEN es \div 1024 ELSE NoLabel
EntryLabelsAsSpecified ==
    \A lbl \in entryLabels : lbl[2] = SpecEntryLabel(lbl[1])

(* Spec 5: every artifact is fully written before the run moves on, even  *)
(* on a mid-view error, so that no truncated file is left in the output   *)
(* directory.  plt.savefig writes the target path in place.               *)
NoPartialArtifacts ==
    \A a \in Artifacts : disk[a] # "partial"

=============================================================================
