---------------------------- MODULE RunSpaceLaunch ----------------------------
(***************************************************************************)
(* "semantiva run": one invocation of the command line expands a run space,*)
(* identifies the launch, writes run_space_start, runs one pipeline for    *)
(* each run and writes run_space_end (cli/__init__.py, trace/runtime/,     *)
(* trace/drivers/jsonl.py). It drives the steps of PipelineRun. A later    *)
(* invocation, planned in advance, may retry the launch.                   *)
(*                                                                         *)
(* The process may be killed at any time, and the driver buffers what it   *)
(* writes: of each file a prefix survives that holds at least what was     *)
(* flushed. The source file of the run space may be edited or deleted at   *)
(* any time. The launches have a trace driver and a run-space block.       *)
(***************************************************************************)
EXTENDS RunSpace

CONSTANTS Plans,      \* plans, each a sequence of invocations; a behaviour follows one
          MaxRuns, NodeCount, MaxEdits,
          MaxInvocations, MaxAttempts   \* of a plan, and of a launch

VARIABLES
    plan, inv,    \* the plan being followed, and the number of the current invocation
    step,         \* where _run is
    edition,      \* version of the source file on disk; Gone when it is deleted
    edits,        \* how often it was changed
    expansion,    \* result of expand_run_space, and the edition that it read
    launch,       \* identity and attempt of the launch, or NoLaunch
    completed,    \* runs_completed
    code,         \* exit_code; "escaped": still EXIT_SUCCESS, but an exception is leaving
    rsopen,       \* the driver has its run-space file open
    rslog,        \* run-space records written
    durable,      \* how many run records and run-space records are sure to be on disk
    exits,        \* the invocations that have ended (history)
    disk,         \* the records that are on disk
    pc, run, at, staged, asked, metaOf, file, seq, log, cause, outcome

cli      == <<plan, inv, step, expansion, launch, completed, code>>
source   == <<edition, edits>>
rstrace  == <<rsopen, rslog, durable>>
history  == <<exits, disk>>
pipeline == <<pc, run, at, staged, asked, metaOf, file, seq, log, cause, outcome>>
launchVars == <<cli, source, rstrace, history, pipeline>>

Gone == 0
NoLaunch == <<0, 0>>
NoMeta == [index |-> 0, launch |-> NoLaunch]

conf == Plans[plan][inv]
runs == expansion.runs

LaunchIds == 1 .. (MaxInvocations + MaxEdits + 2)
LaunchKeys == LaunchIds \X (1 .. MaxAttempts)
Metas == [index : 1 .. MaxRuns, launch : LaunchKeys]

P == INSTANCE PipelineRun

\* The run-space configuration, as what the source file holds at present.
RunSpaceOf(c) == IF edition = Gone THEN c.specs[1] ELSE c.specs[Min({edition, Len(c.specs)})]
HasSource(c) == \E i \in DOMAIN c.specs[1].blocks : c.specs[1].blocks[i].source # NoSource

\* Retries under an idempotency key have the configuration of the first attempt,
\* and a configuration that reads no file has one version.
ASSUME RunSpaceLaunchAssumption ==
    /\ MaxRuns \in Nat \ {0} /\ NodeCount \in Nat \ {0} /\ MaxEdits \in Nat
    /\ MaxInvocations \in Nat /\ MaxAttempts \in Nat
    /\ \A p \in DOMAIN Plans :
         /\ DOMAIN Plans[p] = 1 .. Len(Plans[p]) /\ Len(Plans[p]) \in 1 .. MaxInvocations
         /\ \A i \in DOMAIN Plans[p] :
              /\ Plans[p][i].attempt \in 0 .. MaxAttempts /\ Plans[p][i].rereads \in Nat
              /\ IsList(Plans[p][i].specs) /\ Plans[p][i].specs # <<>>
              /\ \A v \in DOMAIN Plans[p][i].specs : IsRunSpace(Plans[p][i].specs[v])
              /\ ~HasSource(Plans[p][i]) => Len(Plans[p][i].specs) = 1
              /\ \A k \in DOMAIN Plans[p] : Plans[p][i].keyed /\ Plans[p][k].keyed =>
                   Plans[p][i].specs = Plans[p][k].specs

-----------------------------------------------------------------------------

Started ==
    /\ step = "load" /\ expansion = [error |-> "none", runs |-> <<>>, read |-> 0]
    /\ launch = NoLaunch /\ completed = 0 /\ code = "success"
    /\ rsopen = FALSE /\ rslog = <<>> /\ durable = [main |-> 0, rs |-> 0]

InitLaunch ==
    /\ plan \in DOMAIN Plans /\ inv = 1
    /\ edition = 1 /\ edits = 0
    /\ Started
    /\ exits = <<>> /\ disk = {}
    /\ P!Init

Leave(how) ==
    /\ step' = "exited"
    /\ code' = how
    /\ durable' = [main |-> Len(log), rs |-> Len(rslog)]
    /\ UNCHANGED <<rsopen, rslog>>

\* _load_yaml, overrides and sections, parsing, inspection and --context items,
\* in this order; --validate stops here.
Load ==
    /\ step = "load"
    /\ \/ conf.fault = "file" /\ Leave("file")
       \/ conf.fault \in {"override", "pipeline", "context"} /\ Leave("config")
       \/ conf.fault \in {"none", "components"} /\ conf.validate /\ Leave("success")
       \/ /\ conf.fault \in {"none", "components"} /\ ~conf.validate
          /\ step' = "build" /\ UNCHANGED <<code, rstrace>>
    /\ UNCHANGED <<plan, inv, expansion, launch, completed, source, history, pipeline>>

\* Trace driver, orchestrator, executor and transport, and the Pipeline.
BuildComponents ==
    /\ step = "build"
    /\ IF conf.fault = "components" THEN Leave("config")
       ELSE step' = "expand" /\ UNCHANGED <<code, rstrace>>
    /\ UNCHANGED <<plan, inv, expansion, launch, completed, source, history, pipeline>>

ExpandRuns ==
    /\ step = "expand"
    /\ \E result \in {IF edition = Gone /\ HasSource(conf) THEN Error("missing")
                      ELSE ExpandRunSpace(RunSpaceOf(conf))} :
          /\ expansion' = [error |-> result.error, runs |-> result.runs, read |-> edition]
          /\ IF result.error # "none" THEN Leave("config")
             ELSE step' = "preflight" /\ UNCHANGED <<code, rstrace>>
    /\ UNCHANGED <<plan, inv, launch, completed, source, history, pipeline>>

\* The keys a run is expected to have: only the first run is looked at.
Probed == conf.context \union (IF runs = <<>> THEN {} ELSE DOMAIN runs[1])

Preflight ==
    /\ step = "preflight"
    /\ \/ ~(conf.required \subseteq Probed) /\ Leave("config")
       \/ /\ conf.required \subseteq Probed
          /\ IF conf.dry THEN Leave("success")
             ELSE step' = "identify" /\ UNCHANGED <<code, rstrace>>
    /\ UNCHANGED <<plan, inv, expansion, launch, completed, source, history, pipeline>>

LaunchIdOfSpec ==                       \* mutant: the contents of the source do not count
    IF conf.provided THEN 1 ELSE IF conf.keyed THEN MaxInvocations + 2 ELSE 1 + inv

\* create_launch: provided id, hash of inputs (or else specification) and key, or fresh id.
LaunchId ==
    IF conf.provided THEN 1
    ELSE IF conf.keyed THEN MaxInvocations + 2 + (IF HasSource(conf) THEN edition - 1 ELSE 0)
    ELSE 1 + inv

IdentifyUnchecked ==                    \* mutant: any attempt number is taken
    /\ step = "identify"
    /\ launch' = <<LaunchId, conf.attempt>>
    /\ step' = "start"
    /\ UNCHANGED <<plan, inv, expansion, completed, code, rstrace, source, history, pipeline>>

Identify ==
    /\ step = "identify"
    /\ \/ conf.attempt < 1 /\ Leave("config") /\ UNCHANGED launch
       \/ /\ conf.attempt >= 1 /\ HasSource(conf) /\ edition = Gone
          /\ Leave("file") /\ UNCHANGED launch
       \/ /\ conf.attempt >= 1 /\ (HasSource(conf) => edition # Gone)
          /\ launch' = <<LaunchId, conf.attempt>>
          /\ step' = "start" /\ UNCHANGED <<code, rstrace>>
    /\ UNCHANGED <<plan, inv, expansion, completed, source, history, pipeline>>

-----------------------------------------------------------------------------
(* The launch                                                              *)

RsRecord(kind, done, status) ==
    [kind |-> kind, launch |-> launch, planned |-> Len(runs), completed |-> done,
     status |-> status]

\* _open_run_space_file: with a single output file it is the file of the runs.
OpenRunSpaceFile ==
    /\ rsopen' = TRUE
    /\ file' = IF conf.single /\ file = P!NoFile THEN 1 ELSE file

EmitStart ==
    /\ step = "start"
    /\ OpenRunSpaceFile
    /\ seq' = seq + 1
    /\ rslog' = Append(rslog, RsRecord("launchStart", 0, "-"))
    /\ step' = "loop"
    /\ UNCHANGED <<plan, inv, expansion, launch, completed, code, source, durable, history,
                   pc, run, at, staged, asked, metaOf, log, cause, outcome>>

\* The driver raises, outside of any try: there will be no end either.
EmitStartFails ==
    /\ step = "start"
    /\ Leave("crash")
    /\ UNCHANGED <<plan, inv, expansion, launch, completed, source, history, pipeline>>

Meta(i) == [index |-> i, launch |-> launch]

StageNext ==                            \* mutant: the index is that of the run completed last
    /\ step = "loop" /\ completed < Len(runs)
    /\ P!SetRunMetadata(IF completed = 0 THEN Meta(1) ELSE Meta(completed))
    /\ step' = "staged"
    /\ UNCHANGED <<plan, inv, expansion, launch, completed, code, source, rstrace, history>>

Stage ==
    /\ step = "loop" /\ completed < Len(runs)
    /\ P!SetRunMetadata(Meta(completed + 1))
    /\ step' = "staged"
    /\ UNCHANGED <<plan, inv, expansion, launch, completed, code, source, rstrace, history>>

StartRun ==
    /\ step = "staged"
    /\ P!Process
    /\ step' = "running"
    /\ UNCHANGED <<plan, inv, expansion, launch, completed, code, source, rstrace, history>>

InRun ==
    /\ step = "running"
    /\ P!Running
    /\ UNCHANGED <<cli, source, rstrace, history>>

\* flush() and close() of the driver act on both files.
CloseRun ==
    /\ step = "running"
    /\ P!Close
    /\ rsopen' = FALSE
    /\ durable' = [main |-> Len(log), rs |-> Len(rslog)]
    /\ UNCHANGED <<cli, source, rslog, history>>

\* An exception leaves the loop. A handler sets exit_code, unless none takes the
\* exception (SystemExit) or the handler is interrupted before it does; then exit_code
\* stays EXIT_SUCCESS, and the exception leaves _run after the finally clause.
Raised(why) ==
    /\ step' = "end"
    /\ \/ why = "interrupted" /\ code' = "interrupt"
       \/ why \notin {"interrupted", "exit"} /\ code' = "runtime"
       \/ code' = "escaped"

CountAnyReturn ==                       \* mutant: a run is counted before it has returned
    /\ step = "running" /\ pc = "idle"
    /\ completed' = completed + 1
    /\ IF outcome[run] = "ok" THEN step' = "loop" /\ UNCHANGED code ELSE Raised(outcome[run])
    /\ UNCHANGED <<plan, inv, expansion, launch, source, rstrace, history, pipeline>>

\* process() has returned and the run is counted, or it has raised.
AfterRun ==
    /\ step = "running" /\ pc = "idle"
    /\ IF outcome[run] = "ok"
       THEN completed' = completed + 1 /\ step' = "loop" /\ UNCHANGED code
       ELSE Raised(outcome[run]) /\ UNCHANGED completed
    /\ UNCHANGED <<plan, inv, expansion, launch, source, rstrace, history, pipeline>>

\* An interrupt outside of process(); a run that has returned may not be counted yet.
InterruptLoop ==
    /\ step \in {"loop", "staged"} \/ (step = "running" /\ pc = "idle")
    /\ Raised("interrupted")
    /\ UNCHANGED <<plan, inv, expansion, launch, completed, source, rstrace, history, pipeline>>

EndLoop ==
    /\ step = "loop" /\ completed = Len(runs)
    /\ step' = "end"
    /\ UNCHANGED <<plan, inv, expansion, launch, completed, code, source, rstrace, history,
                   pipeline>>

Status == CASE code \in {"success", "escaped"} -> "-" [] code = "interrupt" -> "interrupted"
            [] OTHER -> "failed"

EmitEndOfSuccess ==                     \* mutant: the end is written by a launch that succeeded
    /\ step = "end"
    /\ OpenRunSpaceFile
    /\ seq' = seq + 1
    /\ rslog' = IF code = "success" THEN Append(rslog, RsRecord("launchEnd", completed, Status))
                ELSE rslog
    /\ step' = "exit"
    /\ UNCHANGED <<plan, inv, expansion, launch, completed, code, source, durable, history,
                   pc, run, at, staged, asked, metaOf, log, cause, outcome>>

\* The finally clause, however the loop was left.
EmitEnd ==
    /\ step = "end"
    /\ OpenRunSpaceFile
    /\ seq' = seq + 1
    /\ rslog' = Append(rslog, RsRecord("launchEnd", completed, Status))
    /\ step' = "exit"
    /\ UNCHANGED <<plan, inv, expansion, launch, completed, code, source, durable, history,
                   pc, run, at, staged, asked, metaOf, log, cause, outcome>>

EmitEndFails ==
    /\ step = "end"
    /\ Leave("crash")
    /\ UNCHANGED <<plan, inv, expansion, launch, completed, source, history, pipeline>>

\* Nobody closes the files; the interpreter does when it ends.
Exit ==
    /\ step = "exit"
    /\ Leave(code)
    /\ UNCHANGED <<plan, inv, expansion, launch, completed, source, history, pipeline>>

-----------------------------------------------------------------------------
(* The environment                                                         *)

\* What is buffered is lost in part: each file keeps a prefix of its records.
Kill ==
    /\ conf.killable
    /\ step \in {"loop", "staged", "running", "end", "exit"}
    /\ \E m \in durable.main .. Len(log), r \in durable.rs .. Len(rslog) :
         /\ conf.single => (m > 0 => r > 0) /\ (r = 2 => m = Len(log))
         /\ durable' = [main |-> m, rs |-> r]
    /\ step' = "exited" /\ code' = "killed"
    /\ UNCHANGED <<plan, inv, expansion, launch, completed, source, rsopen, rslog, history,
                   pipeline>>

Edit ==
    /\ edits < MaxEdits /\ HasSource(conf)
    /\ step \in {"expand", "preflight", "identify"}
    /\ edits' = edits + 1
    /\ edition' \in {edits + 2, Gone}
    /\ UNCHANGED <<cli, rstrace, history, pipeline>>

\* The records on disk, with the number of the invocation. Their time follows their
\* place, but the clock may have been set back before the third.
RunRecord(i) ==
    [kind |-> log[i].kind, run |-> <<inv, log[i].run>>, node |-> log[i].node,
     status |-> log[i].status, time |-> IF conf.stepped /\ i > 2 THEN i - 2 ELSE i + 1,
     launch |-> IF log[i].kind = "start" THEN metaOf[log[i].run].launch ELSE NoLaunch,
     planned |-> 0]
LaunchRecord(i) ==
    [kind |-> rslog[i].kind, run |-> <<0, 0>>, node |-> 0, status |-> rslog[i].status,
     time |-> 0, launch |-> rslog[i].launch, planned |-> rslog[i].planned]

\* The process is gone: what it had in memory is reset, what is on disk stays.
Collect ==
    /\ step = "exited"
    /\ disk' = disk \union {RunRecord(i) : i \in 1 .. durable.main}
                    \union {LaunchRecord(i) : i \in 1 .. durable.rs}
    /\ exits' = Append(exits, [code |-> code, launch |-> launch, runs |-> runs,
                               keyed |-> conf.keyed /\ ~conf.provided,
                               read |-> expansion.read, fingerprinted |-> edition,
                               begun |-> run])
    /\ IF inv < Len(Plans[plan]) THEN inv' = inv + 1 /\ step' = "load"
       ELSE inv' = inv /\ step' = "read"
    /\ expansion' = [error |-> "none", runs |-> <<>>, read |-> 0]
    /\ launch' = NoLaunch /\ completed' = 0 /\ code' = "success"
    /\ rsopen' = FALSE /\ rslog' = <<>> /\ durable' = [main |-> 0, rs |-> 0]
    /\ pc' = "idle" /\ run' = 0 /\ at' = 0
    /\ staged' = NoMeta
    /\ asked' = [r \in P!Runs |-> NoMeta]
    /\ metaOf' = [r \in P!Runs |-> NoMeta]
    /\ file' = P!NoFile /\ seq' = 0 /\ log' = <<>>
    /\ cause' = "ok"
    /\ outcome' = [r \in P!Runs |-> "none"]
    /\ UNCHANGED <<plan, source>>

NextLaunch ==
    \/ Load \/ BuildComponents \/ ExpandRuns \/ Preflight \/ Identify
    \/ EmitStart \/ EmitStartFails
    \/ Stage \/ StartRun \/ InRun \/ CloseRun \/ AfterRun
    \/ InterruptLoop \/ EndLoop
    \/ EmitEnd \/ EmitEndFails \/ Exit
    \/ Kill \/ Edit \/ Collect
-----------------------------------------------------------------------------
(* Properties *)

Steps == {"load", "build", "expand", "preflight", "identify", "start", "loop", "staged", "running",
          "end", "exit", "exited", "read"}
Codes == {"success", "config", "file", "runtime", "interrupt", "escaped", "crash", "killed"}

LaunchTypeOK ==
    /\ plan \in DOMAIN Plans /\ inv \in DOMAIN Plans[plan] /\ step \in Steps /\ code \in Codes
    /\ edition \in 0 .. (MaxEdits + 1) /\ edits \in 0 .. MaxEdits
    /\ launch \in LaunchKeys \union {NoLaunch}
    /\ completed \in 0 .. MaxRuns /\ rsopen \in BOOLEAN
    /\ Len(rslog) <= 2
    /\ durable.main \in 0 .. Len(log) /\ durable.rs \in 0 .. Len(rslog)
    /\ P!TypeOK

\* A launch that was not reset: its process lives, or has just ended.
Succeeded(r) == outcome[r] = "ok"
OkEnds == {log[i].run : i \in {j \in DOMAIN log : log[j].kind = "end" /\ log[j].status = "ok"}}

(* An expansion has as many runs as the lengths of its lists announce, within*)
(* max_runs; each draws its values from the lists as the modes tie them      *)
(* (expand_run_space), and no two are alike unless a list repeats its values.*)
(* Rows read by position stay together, provided that all of them have the   *)
(* same keys or that they come from a CSV file (_load_source_file).          *)
ExpansionExact ==
    step = "preflight" /\ expansion.read = edition => IsExpansion(runs, RunSpaceOf(conf))

(* The preflight check looks at the first run only, and that is enough: once *)
(* it is passed, no run of the launch lacks a required context key.          *)
PreflightCoversAll ==
    step \in {"identify", "start", "loop", "staged", "running", "end"} =>
        \A i \in DOMAIN runs : conf.required \subseteq conf.context \union DOMAIN runs[i]

(* Every run of a launch is traced with the identity of this launch and with *)
(* its own index, whatever runs and failures came before.                    *)
RunsAttributed ==
    step # "read" => \A r \in 1 .. run : metaOf[r] = Meta(r)

(* The summary of run_space_end counts no run that did not return, and the   *)
(* trace calls every counted run ok, and at most one more (its close failed, *)
(* or an interrupt came before the count). When it says "failed", the count  *)
(* is exact. It names no failure only if all planned runs returned, or if an *)
(* exception that no handler took is leaving the command.                    *)
SummaryHonest ==
    \A i \in DOMAIN rslog : rslog[i].kind = "launchEnd" =>
        LET done == rslog[i].completed
            status == rslog[i].status
        IN  /\ \A r \in 1 .. run : r <= done => Succeeded(r)
            /\ \A r \in 1 .. run : Succeeded(r) =>
                 r <= done \/ (r = done + 1 /\ status # "failed")
            /\ 1 .. done \subseteq OkEnds /\ Cardinality(OkEnds) <= done + 1
            /\ status = "-" => done = Len(runs) \/ code \in {"escaped", "killed"}
            /\ code # "killed" => (status = "-" <=> code \in {"success", "escaped"})

(* A launch that has a start has an end after it, unless the driver raised or*)
(* the process was killed. On disk an end has its start, and so has every    *)
(* record of a second run, whatever was lost: the start was flushed with the *)
(* first run.                                                                *)
EdgesPaired ==
    step = "exited" =>
        /\ code \notin {"killed", "crash"} /\ rslog # <<>> =>
             Len(rslog) = 2 /\ rslog[2].kind = "launchEnd"
        /\ \A i \in 1 .. durable.main : log[i].run > 1 => durable.rs >= 1
        /\ durable.rs = 2 => rslog[1].kind = "launchStart"

(* With an idempotency key, the same launch id means the same runs, unless   *)
(* the source was edited between its expansion and its fingerprint.          *)
SameIdSameRuns ==
    \A i, j \in DOMAIN exits :
        /\ exits[i].launch[1] = exits[j].launch[1] /\ exits[i].launch # NoLaunch
        /\ exits[i].keyed /\ exits[j].keyed
        /\ \A k \in {i, j} : exits[k].read = exits[k].fingerprinted
        => exits[i].runs = exits[j].runs
===============================================================================
