-------------------------- MODULE FlowOrchestrator --------------------------
(***************************************************************************)
(* One run of the implementation flow (app/orchestrator/modern.rs): the    *)
(* stages run in a fixed order, each writes its artifacts, and whatever    *)
(* happens the run ends by writing report.json, summary.rpt and run.log.   *)
(*                                                                         *)
(* What a failed run reports comes from the events a RuntimeLogReporter    *)
(* has heard, not from the results the pipeline holds: the pipeline is     *)
(* gone when the failure report is built.  The output directory may hold   *)
(* the files of an earlier run, and a write that fails may leave its file  *)
(* as it was or truncated.                                                 *)
(***************************************************************************)
EXTENDS Naturals, Sequences, SequencesExt, FiniteSets

CONSTANTS
    MaxFaults,      \* bound: how many operations of the run may fail
    NoReport

ASSUME FaultsAssumption == MaxFaults \in Nat

FLOW_STAGES == <<"map", "pack", "place", "route", "sta", "bitgen">>
Stages == ToSet(FLOW_STAGES)

RunFiles == <<"report", "summary", "log">>

\* The files a stage writes, in order (FlowArtifacts.modern).
ArtifactsOf(stage, emit_sidecar) ==
    CASE stage = "route"  -> <<"route", "device">>
      [] stage = "sta"    -> <<"sta", "sta_report", "sta_report_json">>
      [] stage = "bitgen" -> IF emit_sidecar THEN <<"bitstream", "bitstream_sidecar">>
                             ELSE <<"bitstream">>
      [] OTHER            -> <<stage>>

StageFiles(emit_sidecar) == UNION {ToSet(ArtifactsOf(s, emit_sidecar)) : s \in Stages}
Files == StageFiles(TRUE) \cup ToSet(RunFiles)

Error(stage) == [stage |-> stage, severity |-> "error"]
Warning(stage) == [stage |-> stage, severity |-> "warning"]

VARIABLES
    options,        \* fail_on_timing and emit_sidecar
    pc,             \* start, load, stage, artifact, lower, report, finish, done
    written,        \* files of the current stage, or of finish_run, written
    results,        \* the stage reports run_pipeline holds, with their artifacts
    violated,       \* the timing summary of sta
    stage_reports,  \* RuntimeLogReporter: the stage reports it heard of
    diagnostics,    \*   and the diagnostics
    recovering,     \* run_pipeline failed: the failure report is being written
    report,         \* the report last built
    published,      \* the one report.json holds
    disk,           \* absent, stale (an earlier run's), torn, own, or for a run
                    \*   file the status of the report it was written from
    faults, outcome

reporterVars == <<stage_reports, diagnostics>>
vars == <<options, pc, written, results, violated, reporterVars, recovering, report,
          published, disk, faults, outcome>>

Init ==
    /\ options \in [fail_on_timing : BOOLEAN, emit_sidecar : BOOLEAN]
    /\ pc = "start" /\ written = 0
    /\ results = <<>> /\ violated = FALSE
    /\ stage_reports = <<>> /\ diagnostics = <<>>
    /\ recovering = FALSE
    /\ report = NoReport /\ published = NoReport
    /\ \E old \in {"absent", "stale"} : disk = [f \in Files |-> old]
    /\ faults = 0 /\ outcome = "running"

-----------------------------------------------------------------------------

\* Mutant: diagnostics heard live and again with the stage's report appear twice.
Distinct_Keep(s) == s

Distinct(s) ==
    LET upto[n \in 0 .. Len(s)] ==
          IF n = 0 THEN <<>>
          ELSE IF s[n] \in ToSet(upto[n - 1]) THEN upto[n - 1]
          ELSE Append(upto[n - 1], s[n])
    IN  upto[Len(s)]

StageReport(stage, status, ds, metrics) ==
    [stage |-> stage, status |-> status, diagnostics |-> ds, metrics |-> metrics,
     artifacts |-> {}]

\* artifact_map: device and sidecar only if the file exists.
ArtifactMap(files) ==
    ToSet(RunFiles) \cup
    {f \in StageFiles(options.emit_sidecar) :
        f \in {"device", "bitstream_sidecar"} => files[f] # "absent"}

\* Mutant: the filter of a failed run is dropped.
FailureArtifactMap_Unfiltered(files) == ArtifactMap(files)

FailureArtifactMap(files) ==
    {f \in ArtifactMap(files) : f \in ToSet(RunFiles) \/ files[f] # "absent"}

\* Mutant: the first stage that never started is left out.
Skipped_OffByOne(n) ==
    [i \in 1 .. Len(FLOW_STAGES) - n - 1 |->
        StageReport(FLOW_STAGES[n + i + 1], "Skipped", <<>>, FALSE)]

\* What FLOW_STAGES.skip(n) adds to n stage reports.
Skipped(n) ==
    [i \in 1 .. Len(FLOW_STAGES) - n |-> StageReport(FLOW_STAGES[n + i], "Skipped", <<>>, FALSE)]

FailureReport(reports, ds, files) ==
    [status |-> "Failed", stages |-> reports \o Skipped(Len(reports)),
     diagnostics |-> Distinct(ds), artifacts |-> FailureArtifactMap(files)]

\* run_pipeline returns an error: run_internal reports what was heard.
PipelineFails(reports, ds, files) ==
    LET all == Append(ds, Error("impl")) IN
    /\ recovering' = TRUE
    /\ report' = FailureReport(reports, all, files)
    /\ stage_reports' = reports /\ diagnostics' = all /\ disk' = files
    /\ pc' = "finish" /\ written' = 0

Fault == faults < MaxFaults /\ faults' = faults + 1

\* A failed fs::write leaves the file alone or truncates it.
DiskAfterFailedWrite(f) ==
    {[disk EXCEPT ![f] = left] : left \in {disk[f], "torn"}}

-----------------------------------------------------------------------------

CreateOutDir ==
    /\ pc = "start"
    /\ pc' = "load"
    /\ UNCHANGED <<options, written, results, violated, reporterVars, recovering, report,
                   published, disk, faults, outcome>>

\* Before there is a directory there is nowhere to report to.
CreateOutDirFails ==
    /\ pc = "start" /\ Fault
    /\ pc' = "done" /\ outcome' = "unreported"
    /\ UNCHANGED <<options, written, results, violated, reporterVars, recovering, report,
                   published, disk>>

\* Resources, constraints, architecture, delays, CIL and the input netlist.
LoadInputs ==
    /\ pc = "load"
    /\ pc' = "stage"
    /\ UNCHANGED <<options, written, results, violated, reporterVars, recovering, report,
                   published, disk, faults, outcome>>

\* Reading the inputs, or lowering the placed design for routing.
PreparationFails ==
    /\ pc \in {"load", "lower"} /\ Fault
    /\ PipelineFails(stage_reports, diagnostics, disk)
    /\ UNCHANGED <<options, results, violated, published, outcome>>

\* prepare_route_device_design
LowerForRoute ==
    /\ pc = "lower"
    /\ pc' = "stage"
    /\ UNCHANGED <<options, written, results, violated, reporterVars, recovering, report,
                   published, disk, faults, outcome>>

NextStage == FLOW_STAGES[Len(results) + 1]

\* Only route and sta have warnings; those of route are emitted as they come,
\* and again in its report.
Warnings == {<<>>} \cup {<<Warning(s)>> : s \in {"route", "sta"} \cap {NextStage}}
Live(warnings) == IF NextStage = "route" THEN warnings ELSE <<>>

\* run_stage_with_reporter returns Ok.
RunStage ==
    /\ pc = "stage"
    /\ \E ws \in Warnings :
          LET r == StageReport(NextStage, "Success", ws, TRUE) IN
          /\ results' = Append(results, r)
          /\ stage_reports' = Append(stage_reports, r)
          /\ diagnostics' = diagnostics \o Live(ws) \o ws
    /\ \E v \in BOOLEAN : violated' = IF NextStage = "sta" THEN v ELSE violated
    /\ pc' = "artifact" /\ written' = 0
    /\ UNCHANGED <<options, recovering, report, published, disk, faults, outcome>>

\* Finished with a status other than Success: the new report of the stage is
\* given every diagnostic heard so far.
HeardFailed(ds) == Append(stage_reports, StageReport(NextStage, "Failed", ds, FALSE))

StageFails ==
    /\ pc = "stage" /\ Fault
    /\ \E ws \in Warnings :
          LET ds == diagnostics \o Live(ws) \o <<Error(NextStage)>> IN
          PipelineFails(HeardFailed(ds), ds, disk)
    /\ UNCHANGED <<options, results, violated, published, outcome>>

CurrentFiles == ArtifactsOf(Last(results).stage, options.emit_sidecar)

AfterStage ==
    CASE Len(results) = Len(FLOW_STAGES) -> "report"
      [] Last(results).stage = "place"   -> "lower"
      [] OTHER                           -> "stage"

WriteArtifact ==
    /\ pc = "artifact"
    /\ LET f == CurrentFiles[written + 1] IN
          /\ disk' = [disk EXCEPT ![f] = "own"]
          /\ results' = [results EXCEPT ![Len(results)].artifacts = @ \cup {f}]
    /\ written' = written + 1
    /\ pc' = IF written + 1 = Len(CurrentFiles) THEN AfterStage ELSE pc
    /\ UNCHANGED <<options, violated, reporterVars, recovering, report, published, faults,
                   outcome>>

WriteArtifactFails ==
    /\ pc = "artifact" /\ Fault
    /\ \E files \in DiskAfterFailedWrite(CurrentFiles[written + 1]) :
          PipelineFails(stage_reports, diagnostics, files)
    /\ UNCHANGED <<options, results, violated, published, outcome>>

TimingFailure == options.fail_on_timing /\ violated

\* Mutant: the violation is diagnosed but the report still says success.
BuildReport_StatusKept ==
    /\ pc = "report"
    /\ LET ds == FlattenSeq([i \in 1 .. Len(results) |-> results[i].diagnostics]) IN
          report' = [status |-> "Success", stages |-> results,
                     diagnostics |-> IF TimingFailure THEN Append(ds, Error("sta")) ELSE ds,
                     artifacts |-> ArtifactMap(disk)]
    /\ diagnostics' = IF TimingFailure THEN Append(diagnostics, Error("sta")) ELSE diagnostics
    /\ pc' = "finish" /\ written' = 0
    /\ UNCHANGED <<options, results, violated, stage_reports, recovering, published, disk,
                   faults, outcome>>

\* build_report, and the diagnostic of --fail-on-timing.
BuildReport ==
    /\ pc = "report"
    /\ LET ds == FlattenSeq([i \in 1 .. Len(results) |-> results[i].diagnostics]) IN
          report' = [status |-> IF TimingFailure THEN "Failed" ELSE "Success",
                     stages |-> results,
                     diagnostics |-> IF TimingFailure THEN Append(ds, Error("sta")) ELSE ds,
                     artifacts |-> ArtifactMap(disk)]
    /\ diagnostics' = IF TimingFailure THEN Append(diagnostics, Error("sta")) ELSE diagnostics
    /\ pc' = "finish" /\ written' = 0
    /\ UNCHANGED <<options, results, violated, stage_reports, recovering, published, disk,
                   faults, outcome>>

Finished ==
    CASE recovering -> "partial"
      [] ~recovering /\ TimingFailure -> "timing"
      [] OTHER -> "ok"

\* finish_run writes report.json, summary.rpt and run.log.
FinishRun ==
    /\ pc = "finish"
    /\ disk' = [disk EXCEPT ![RunFiles[written + 1]] = report.status]
    /\ published' = IF written = 0 THEN report ELSE published
    /\ written' = written + 1
    /\ IF written + 1 = Len(RunFiles)
       THEN pc' = "done" /\ outcome' = Finished
       ELSE UNCHANGED <<pc, outcome>>
    /\ UNCHANGED <<options, results, violated, reporterVars, recovering, report, faults>>

\* If that was the pipeline's own report the run is reported as failed after all;
\* if it was the failure report nothing is left to try.
FinishRunFails ==
    /\ pc = "finish" /\ Fault
    /\ \E files \in DiskAfterFailedWrite(RunFiles[written + 1]) :
          IF recovering
          THEN /\ disk' = files
               /\ pc' = "done" /\ outcome' = "unreported"
               /\ UNCHANGED <<reporterVars, recovering, report, written>>
          ELSE PipelineFails(stage_reports, diagnostics, files) /\ UNCHANGED outcome
    /\ published' = IF disk'["report"] = "torn" THEN NoReport ELSE published
    /\ UNCHANGED <<options, results, violated>>

Terminated == pc = "done" /\ UNCHANGED vars

\* An operation that succeeds, or one that fails.
Succeed ==
    \/ CreateOutDir \/ LoadInputs \/ LowerForRoute \/ RunStage \/ WriteArtifact
    \/ BuildReport \/ FinishRun

Fail ==
    \/ CreateOutDirFails \/ PreparationFails \/ StageFails \/ WriteArtifactFails
    \/ FinishRunFails

Next == Succeed \/ Fail \/ Terminated

\* One thread; every operation may fail as long as there are faults left.
Spec == Init /\ [][Next]_vars

-----------------------------------------------------------------------------

\* Every report tells exactly how far the run got: all stages in order, those
\* that completed with their metrics, then at most one that failed, then the
\* ones never started (build_failure_report fills them in by position).  A
\* failure report repeats no diagnostic and drops none: not those of stages that
\* completed before the failure, nor those a failing stage had emitted.
ReportTellsHowFar ==
    /\ recovering =>
        /\ ToSet(report.diagnostics) = ToSet(diagnostics)
        /\ Cardinality(ToSet(report.diagnostics)) = Len(report.diagnostics)
        /\ \A i \in DOMAIN results :
              ToSet(results[i].diagnostics) \subseteq ToSet(report.diagnostics)
    /\ report # NoReport =>
        /\ [i \in DOMAIN report.stages |-> report.stages[i].stage] = FLOW_STAGES
        /\ \A i \in DOMAIN report.stages :
              LET s == report.stages[i] IN
              /\ s.status = "Success" <=> i <= Len(results)
              /\ s.metrics <=> i <= Len(results)
              /\ s.status = "Failed" => i = Len(results) + 1

\* The exit code and the files agree, whatever an earlier run left in the
\* directory.  A run that exits with 0 has written every artifact, and its three
\* run files say that it succeeded.  A failure that names its report has it on
\* disk, and summary and log agree; the exit code of a timing violation means
\* that all else was written.
ExitCodeMatchesFiles ==
    /\ outcome = "ok" =>
        /\ \A f \in StageFiles(options.emit_sidecar) : disk[f] = "own"
        /\ \A i \in 1 .. 3 : disk[RunFiles[i]] = "Success"
        /\ published.artifacts = StageFiles(options.emit_sidecar) \cup ToSet(RunFiles)
        /\ \A i \in DOMAIN published.stages :
              published.stages[i].artifacts
                = ToSet(ArtifactsOf(FLOW_STAGES[i], options.emit_sidecar))
        /\ \A d \in ToSet(published.diagnostics) : d.severity # "error"
    /\ outcome \in {"partial", "timing"} =>
        /\ \A i \in 1 .. 3 : disk[RunFiles[i]] = "Failed"
        /\ \E d \in ToSet(published.diagnostics) :
              d = Error(IF outcome = "timing" THEN "sta" ELSE "impl")
        /\ outcome = "timing" => \A f \in StageFiles(options.emit_sidecar) : disk[f] = "own"

\* What a caller sees of a run is of a piece (run_internal, finish_run and
\* build_failure_report): report, summary, log, artifacts and exit code.
RunTellsTheTruth == ReportTellsHowFar /\ ExitCodeMatchesFiles

\* Whatever report.json says at the end, even when rewriting it failed, the
\* artifacts it advertises exist, and those of a success are this run's.
AdvertisedArtifactsExist ==
    pc = "done" /\ published # NoReport =>
        \A f \in published.artifacts \ ToSet(RunFiles) :
            /\ disk[f] # "absent"
            /\ published.status = "Success" => disk[f] = "own"

\* docs/reporting.md: in the report of a failed run "the failing and remaining
\* stages are marked failed/skipped".  A stage whose artifact could not be
\* written is marked as a success (save_design_stage_artifact).
FailingStageMarked ==
    outcome = "partial" /\ results # <<>> /\ Len(results) < Len(FLOW_STAGES)
        /\ (\E f \in ToSet(CurrentFiles) : disk[f] # "own")
    => \E i \in DOMAIN published.stages : published.stages[i].status = "Failed"
=============================================================================
