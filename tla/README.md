# Verification of `gdpruler_benchmark_plot.py`

This directory holds a TLA+ model of the benchmark plotting script
`src/plot_scripts/gdpruler_benchmark_plot.py`. It also holds the TLC
configurations that check the model on small inputs, and TLAPS proofs of
its main invariants for every input.

## The system

The script is a single-threaded batch program. Its `main()` function works
in these steps:

1. It parses `--input_file` and `--output_dir` with argparse.
2. It runs `os.makedirs(output_dir, exist_ok=True)` (line 753).
3. It loads the CSV with `load_gdpr_data` (lines 42-51). This calls
   `pd.read_csv` and adds three label columns that nothing reads.
4. It prints a data summary that indexes the five dimension columns
   (lines 760-765).
5. It calls the seven chart views in a fixed order (lines 769-775):
   `create_encryption_effect_plots`, `create_compression_effect_plots`,
   `create_entry_size_effect_plots`, `create_writer_threads_effect_plots`,
   `create_batch_size_effect_plots`, `create_heatmaps` and
   `create_encryption_batch_analysis_plot`. Each view computes group
   means with pandas, draws bars, lines or heatmaps, and writes a `.png`
   and a `.pdf`.
6. It prints "All plots saved" and calls `print_plot_summary()` (lines 777-780).

Nothing in the script catches an exception. A `KeyError` on a missing
column, a numpy `ValueError` from `ax.bar` on mismatched shapes, or an
`IndexError` on `hatches[i]` ends the process with exit status 1. The
files that earlier views wrote stay on disk.

Only the batch-analysis view checks for empty data (lines 59-61). It
prints a message and returns.

## Modules

| Module | Models | State and actions |
|---|---|---|
| `Views.tla` | the seven `create_*` functions, as pure operators | none: for a row set `rs`, each view has `XReads(rs)` (the columns it indexes), `XRaises(rs)` (whether it raises for a reason other than a missing column), `XPoints(rs)` (what it draws) and `XLabels(rs)` (the entry-size labels it prints) |
| `Report.tla` | `main()`, `load_gdpr_data` and the `savefig` pairs | variables `csvRows`/`csvHeader` (the input file), `pc` (the step of `main()`), `status`, `dirMade`, `cols`/`rows` (the DataFrame), `files`, `charts`, `skipped`, `entryLabels`, `disk` (the state of each output file), `pngSaved` (between the two `savefig` calls of a view); one action per call in `main()` |
| `ReportAbstract.tla` | what `main()` promises | variables `done` (views returned from), `out` (views with complete artifacts), `result`; actions `Produce`, `Skip`, `Fail`, `Finish` |
| `MC.tla`, `MCHatch.tla` | TLC instances | constants for the two model-checked instances |
| `ReportProofs.tla` | proofs | typing lemmas for every view, `TypeCorrect`, `ArtifactsCorrect`, `DiskCorrect`, `Refinement` |

### How the views are modelled

A row is a record of the five dimension columns plus `entries_per_sec`.
Only the sign of `entries_per_sec` is kept, because the writer-threads
scaling guard (line 516) is the only place where a metric's value
changes control flow. Other metric values are never compared.

A drawn value is a *point* with these fields:

- the view and the panel (a-d);
- the filter of its series (for example `[compression_level |-> 5]`);
- the x tick (a one-column key);
- `src`: the group whose mean is drawn, or `Fallback` when the code draws
  its default (`0`, or `1.0` for write amplification);
- the metric;
- the form: a value, a percentage, or a throughput normalised to the
  baseline.

The three ways the code turns group means into bars map to three
operators:

- `Lookup` models the `data[k] if k in data.index else default` lists.
- `Present` models the batch-analysis lines, which skip missing points.
- `BarSeries` models `ax.bar(x, series.values)` in the encryption view,
  with numpy's broadcasting rule:
  - `m = n` values draws aligned bars;
  - `m = 1` repeats that one value at every tick;
  - `m = 0` with `n <= 1` draws nothing;
  - any other shape raises `ValueError` (`BarShapeError`).

The following raise paths are modelled:

- `hatches[i]` with `i >= 10` (lines 294, 387);
- `sns.heatmap` of an empty pivot table (line 659);
- the shape error above;
- a `KeyError` when a view reads a column the header lacks. pandas raises
  it lazily, where the view first indexes the column, so `XReads` is
  conditional where the code reads a column only inside
  `if not subset.empty` or only for a non-empty frame.

### How `main()` is modelled

`Report.tla` has one action per step of `main()`:

- `MakeDirs`;
- `LoadGdprData`. It may crash on an unreadable file, and it crashes on a
  missing dimension column, because the summary prints index those
  columns;
- the seven `Create*` actions;
- `PrintPlotSummary`.

Every view action is `DrawView`. If the view raises, the action is
`Crash`: `status' = "exit1"` and nothing is written. Otherwise the view
reaches its two `savefig` calls (`SaveFigures`), which are two steps:

- `SavePng` writes `<view>.png` and sets `pngSaved`;
- `SaveView` writes `<view>.pdf`, records the chart and labels, and moves
  `pc` to the next view;
- either call may instead be `SaveFigFails`. `plt.savefig` opens the
  target path and writes it in place, so an `OSError` (disk full,
  permission) leaves the file as it was or truncated (`"partial"`).
  Nothing catches it, so the run ends with exit 1.

Each file in `disk` is `"none"`, `"old"` (left by an earlier run: the
script calls `makedirs(..., exist_ok=True)` and overwrites in place),
`"partial"` or `"new"`. The directory's content before the run is chosen
in `Init` from the constant `PriorDisks`.

### The abstract specification

`ReportAbstract.tla` states what `main()` promises, without data or
files:

- it goes through the views of `Order` one by one;
- each view either adds itself to `out` (`Produce`) or, for the view
  `Optional` only, adds nothing (`Skip`);
- at any point `Fail` may end the run with exit 1, and what was written
  stays;
- `Finish` gives exit 0 once every view has returned.

`Report.tla` instantiates it as `Abstract` with these substitutions:

- `Order <- ViewOrder`;
- `Optional <- "batch_analysis"`;
- `done <- Done`, where `Done` is `pc - 3` once the views have started;
- `out <- files`;
- `result <- status`.

Under this mapping, `MakeDirs`, a successful load and `SavePng` are
stutters. `SaveView` is `Produce`, the batch-analysis skip is `Skip`,
every crash or failed write is `Fail`, and `PrintPlotSummary` is
`Finish`.

The input file is chosen in `Init` from the constants `Datasets` (row
sets) and `Headers` (column sets). The file is fixed before `main()`
starts.

## Runs

| Run | Config | Expect | What it shows |
|---|---|---|---|
| `report_small` | `MC.cfg` | pass | `TypeOK`, `ArtifactsMatchProgress`, `ArtifactsOnDisk`, `AbstractSpec` over every file of 0-2 rows and four headers, an empty or stale output directory, and `savefig` failing at any call (551,626 states) |
| `report_hatches` | `MCHatch.cfg` | pass | `ArtifactsMatchProgress` and `ArtifactsOnDisk` when 11 compression levels make `hatches[10]` raise in view 2 |
| `viol_bar_misaligned` | `MCBarAligned.cfg` | violation | `PointsAligned`: encryption bars are drawn at another group's tick |
| `viol_view_abort` | `MCViewAbort.cfg` | violation | `ViewFailureContained`: a `ValueError` in view 1 aborts all later views. The run uses non-empty files only, and `SaveFigFails <- MCSaveFigNeverFails` rules out `savefig` errors, so the exit 1 cannot have another cause |
| `viol_late_column` | `MCLateColumn.cfg` | violation | `MissingColumnFatalAtLoad`: a missing metric column is found only after charts were written |
| `viol_entry_label` | `MCEntryLabel.cfg` | violation | `EntryLabelsAsSpecified`: 256 B is labelled `0KB` |
| `viol_partial_artifact` | `MCPartial.cfg` | violation | `NoPartialArtifacts`: a failed `savefig` leaves a truncated file behind |

### Properties

`ArtifactsMatchProgress` says four things:

- the files on disk are exactly those of the views `main()` has finished,
  less a skipped batch analysis;
- only the batch analysis is ever skipped;
- it is skipped only when no row has compression 0 and encryption 1;
- an unsaved view has no chart.

`ArtifactsOnDisk` relates the output directory to `main()`'s progress,
whatever the directory held before and wherever `savefig` fails:

- a view is in `files` exactly when both its `.png` and `.pdf` are
  `"new"`;
- a file that is new or truncated belongs to a finished view or to the
  view now running. So a view that was never reached, or that was
  skipped, keeps its files from an earlier run (spec: a skipped view
  "must not create or overwrite its output files");
- between the two calls of a running view, the `.png` is new and the
  `.pdf` is untouched.

`AbstractSpec` (`Abstract!Spec`, with its fairness) says that `main()`
implements `ReportAbstract`.

Each of these properties has a mutant of the code that TLC catches:

| Mutant | Property it breaks |
|---|---|
| the skip test uses encryption 0 | `ArtifactsMatchProgress` |
| the figure is saved even when the view raised | `ArtifactsMatchProgress` |
| the heatmaps are saved under the wrong name | `TypeOK` |
| the `.pdf` `savefig` call is missing | `ArtifactsOnDisk` (in both passing runs) |
| `main()` wraps each view in try/except and goes on | `AbstractSpec` |

### Bounds and why they suffice

`MC` uses these bounds:

- two values of every dimension;
- three compression levels (0, 5, 9), so that both the fixed `(enc, comp)`
  combinations of the writer-threads and batch-size views and a level
  outside them (5) occur;
- throughput 0 or positive;
- 0-2 rows (4,657 row sets);
- four headers: the full header, and headers without latency, without
  logical throughput, or without `use_encryption`;
- two prior directories: empty, and holding a file of an earlier run for
  every artifact. These separate "left from before" from "written now".

These bounds reach every path:

- two rows with different batch sizes and one encryption setting give
  both the broadcast case (`m = 1`, `n = 2`) and the shape error
  (`m = 0`, `n = 2`);
- the empty file reaches the heatmap crash;
- each header triggers a different `KeyError`: at load, in view 3, in
  view 4, or in view 5;
- the batch-analysis skip and its drawn case both occur;
- every `savefig` call of every view that is reached can fail, with
  either outcome.

The hatch limit needs 11 series. `MCHatch` has one value in every other
dimension and files with 9, 10 or 11 compression levels.

## Fairness

`Spec` has `WF_vars(Next)`. `main()` runs on one thread and nobody stops it
from outside, so an enabled step eventually happens. The final states
(`exit0`, `exit1`) have no successor, which is why the configs set
`CHECK_DEADLOCK FALSE`.

`ReportAbstract` has `WF_avars(Next)`: a running abstract `main()` always
has a step enabled, so it eventually takes one. `Report` meets this only
because its own steps that the mapping makes invisible (`MakeDirs`, the
load, `SavePng`) are finitely many before a visible step. TLC checks this
as part of `AbstractSpec`.

## Findings

1. **Misaligned bars** (lines 195-261). When one encryption setting has a
   single group, `ax.bar` broadcasts its mean to every tick, so the chart
   shows a value for configurations that were never measured. This
   diverges from spec 4.2/4.3.
2. **One view's failure aborts all views** (line 240). In TLC's trace,
   two unencrypted rows have compression levels 0 and 5. Panel c of the
   first view then passes `ax.bar` 0 encrypted values for 2 ticks, and it
   raises `ValueError`. Nothing catches it, and the six later views never
   run. This diverges from spec 4.4/7.
3. **A missing metric column is detected late.** `load_gdpr_data` does not
   validate columns. Charts are written, and then a `KeyError` ends the
   run. This diverges from spec 4.1/7.
4. **`es//1024` labels.** 256 B is printed as `0KB`. This diverges from
   spec 4.1/8.
5. **Truncated artifacts** (lines 271-272 and every other `savefig`
   pair). `plt.savefig` writes in place and nothing catches an `OSError`
   or cleans up. A failed write leaves a truncated file in the output
   directory, and a failure at the `.pdf` also leaves a new `.png` beside
   the `.pdf` of an earlier run. This diverges from spec 5.

## Proofs (`ReportProofs.tla`, all checked by tlapm)

The proofs assume only `DomainsAssumption` (every domain of column values
is a set of naturals) and `InputsAssumption` (every input file is a set of
rows over those domains, every header is a set of known columns, and
every prior directory holds only absent or earlier-run files).

- **`TypeCorrect`**: `Spec => []TypeOK`.
  - One lemma per view shows that every point it draws satisfies
    `IsPoint`. These lemmas rest on `LookupTyped`, `PresentTyped`,
    `BarSeriesTyped` and `CellsTyped`.
  - `EntryTicksTyped` shows that labels are in `EntrySizes \X Nat`.
  - `SaveFiguresTyped` covers the two writes and their failures.
  - `DrawViewTyped` combines the crash case and the save case.
  - The step lemma `TypeOKStep` has one case per action.
- **`ArtifactsCorrect`**: `Spec => []ArtifactsMatchProgress`. The
  invariant alone is not inductive. It needs `TypeOK` for two facts:
  `charts` is a function on `Views`, and `pc` stays in `1..10`. So the
  inductive invariant is `TypeOK /\ ArtifactsMatchProgress`. The argument
  runs as follows:
  - `FinishedGrows`: the step at `pc = k + 2` adds exactly `ViewOrder[k]`
    to `Finished`, and that view was not already finished. This uses the
    injectivity of `ViewOrder`.
  - So saving view `k` keeps `files = Finished \ skipped`.
  - The `.png` write and a crash leave `files`, `pc` and `skipped` alone.
  - The batch-analysis skip adds the view to both `Finished` and
    `skipped`.
- **`DiskCorrect`**: `Spec => []ArtifactsOnDisk`. `ArtifactsOnDisk` is not
  inductive. A `.png` write keeps it only if the view's `.pdf` was not
  already new, and the step into view `k + 1` keeps it only if that
  view's files are untouched. The inductive invariant `DiskIInv` adds
  four things:
  - `TypeOK`;
  - `ArtifactsMatchProgress`, so that the running view is not yet in
    `files` (`CurrentNotSaved`);
  - `UntouchedBeforePng`: a running `main()` that has not written the
    `.png` has touched neither file of its current view;
  - `PngInsideView`: `pngSaved` holds only at a view step.

  The case argument:
  - `FailedWriteKeepsDisk`: a failed write changes only a file of the
    running view, which was absent or old, and it ends the run.
  - `SaveFiguresKeepsDisk` covers the two writes. For the `.pdf`, the
    next view's files were neither new nor partial, because that view
    was neither finished nor running.
  - For the batch-analysis skip, `UntouchedBeforePng` shows that the
    skipped view's files were not touched.
- **`Refinement`**: `Spec => Abstract!SafetySpec`. Every step of `main()`
  maps to a stutter or to one abstract action (`RefinementStep`,
  `SaveFiguresRefines`, `DrawViewRefines`). The only invariant needed is
  `TypeOK`, which keeps `pc` in `1..10` so that `Done` stays in `0..7`.

The following stay with TLC only:

- The fairness part of `AbstractSpec`. It is liveness, which TLAPS does
  not check here.
- The violation runs.

## Not modelled

- Styling, colours, fonts, layout and the rendering libraries.
- The text of `print_plot_summary` and of the progress prints.
- What a truncated file contains, and `savefig` errors other than
  `OSError`.
- Metric values other than the sign of throughput.
- Duplicate CSV rows. They change means but not which groups exist.
- NaN cells.

## What is deliberately not stated

Three properties were dropped because nothing in the code could break
them:

- **That every drawn value is a real mean or a default drawn only for an
  empty bucket.** Each `data[k] if k in data.index else default` tests and
  reads the same `data`, and the line-516 guard is one condition. The
  model made this hold by construction.
- **That `main()` terminates.** `main()` has no loop and no retry, so it
  terminates whatever the views do.
- **That an exception truncates at most the file being written.** That
  only restated the definitions of `Crash` and `SaveFigFails`.

The hazards they were meant to cover are listed in `PROJECT.json` with a
note saying why no property covers them.

## Plan for later work

- Every safety invariant of the passing runs has a TLAPS theorem. The
  fairness part of `AbstractSpec` is liveness, and stays with TLC.
- Model NaN cells. `groupby().mean()` skips them, so a bucket can have
  rows and still have no mean for one metric. A property about which
  values are drawn would then have something to check.
