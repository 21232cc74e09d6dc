----------------------------- MODULE PipelineRun -----------------------------
(***************************************************************************)
(* One Pipeline object that is run several times and traced to a directory *)
(* by one JsonlTraceDriver: Pipeline.process, SemantivaOrchestrator.execute*)
(* and the driver's hooks (pipeline/pipeline.py,                           *)
(* execution/orchestrator/orchestrator.py, trace/drivers/jsonl.py).        *)
(*                                                                         *)
(* Everything happens in one thread; what makes it hard is where it may    *)
(* stop: a run can fail in the driver, while nodes are built, before, in   *)
(* and after each node, and it can be interrupted; some of these places    *)
(* are inside the try of execute and some are not, and pipeline,           *)
(* orchestrator and driver all keep state from one run to the next.        *)
(* Runs are numbered; the number stands for run_id, and for the file that  *)
(* the driver opens under that run_id. What a record says of a node (data  *)
(* summaries, checks, timing) is left out: here a record is its kind, its  *)
(* run, its node and its status. A write that raises leaves no record.     *)
(***************************************************************************)
EXTENDS Naturals, Sequences

CONSTANTS MaxRuns,    \* bound on the calls of process()
          NodeCount,  \* nodes of the pipeline
          Metas,      \* dictionaries a caller may pass to set_run_metadata()
          NoMeta      \* None, or the empty dictionary

ASSUME PipelineRunAssumption ==
    /\ MaxRuns \in Nat /\ NodeCount \in Nat \ {0}
    /\ NoMeta \notin Metas

Runs == 1 .. MaxRuns
NoFile == 0

VARIABLES
    pc,        \* where the current run is; "idle" between two runs
    run,       \* number of the current run, or of the last one
    at,        \* index of the node being run
    staged,    \* Pipeline._run_metadata
    asked,     \* asked[r]: what was passed to set_run_metadata() since run r-1 (history)
    metaOf,    \* metaOf[r]: the metadata run r was traced with
    file,      \* run after which the driver's open file is named, or NoFile
    seq,       \* the driver's sequence number
    log,       \* records written, to all files, in order
    cause,     \* why the current run is about to raise; "ok" while nothing failed
    outcome    \* outcome[r]: how run r ended, "none" until then

metadata == <<staged, asked, metaOf>>
driver   == <<file, seq, log>>
vars     == <<pc, run, at, metadata, driver, cause, outcome>>

Init ==
    /\ pc = "idle" /\ run = 0 /\ at = 0
    /\ staged = NoMeta
    /\ asked = [r \in Runs |-> NoMeta]
    /\ metaOf = [r \in Runs |-> NoMeta]
    /\ file = NoFile /\ seq = 0 /\ log = <<>>
    /\ cause = "ok"
    /\ outcome = [r \in Runs |-> "none"]

-----------------------------------------------------------------------------
(* The driver's writes. Lifecycle records take a sequence number, which is *)
(* used up even if the write raises; SER records have none.                *)

Record(f, kind, node, status, n) ==
    [file |-> f, kind |-> kind, run |-> run, node |-> node, status |-> status, seq |-> n]

WriteLifecycle(f, kind, status) ==
    /\ seq' = seq + 1
    /\ log' = Append(log, Record(f, kind, 0, status, seq + 1))

WriteSer(status) ==
    /\ log' = Append(log, Record(file, "ser", at, status, 0))
    /\ UNCHANGED <<file, seq>>

\* execute() leaves by an exception that its try does not see.
Escape(why) ==
    /\ outcome' = [outcome EXCEPT ![run] = why]
    /\ cause' = "ok"
    /\ pc' = "idle"

-----------------------------------------------------------------------------
(* The caller                                                              *)

SetRunMetadata(m) ==
    /\ pc = "idle" /\ run < MaxRuns
    /\ staged' = m
    /\ asked' = [asked EXCEPT ![run + 1] = m]
    /\ UNCHANGED <<pc, run, at, metaOf, driver, cause, outcome>>

\* process() reads the staged metadata and calls execute(), which copies it.
Process ==
    /\ pc = "idle" /\ run < MaxRuns
    /\ pc' = "start"
    /\ run' = run + 1
    /\ at' = 0
    /\ metaOf' = [metaOf EXCEPT ![run + 1] = staged]
    /\ UNCHANGED <<staged, asked, driver, cause, outcome>>

-----------------------------------------------------------------------------
(* Before the try of execute                                               *)

OpenFile == IF file = NoFile THEN run ELSE file

PipelineStart ==
    /\ pc = "start"
    /\ file' = OpenFile
    /\ WriteLifecycle(OpenFile, "start", "-")
    /\ pc' = "instantiate"
    /\ UNCHANGED <<run, at, metadata, cause, outcome>>

\* A processor cannot be resolved, after compute_pipeline_id and before the rest.
ResolveFails ==
    /\ pc = "start"
    /\ Escape("resolve")
    /\ UNCHANGED <<run, at, metadata, driver>>

\* on_pipeline_start raises: the file cannot be opened, or it cannot be written.
StartFails ==
    /\ pc = "start"
    /\ \/ UNCHANGED <<file, seq>> /\ file = NoFile
       \/ file' = OpenFile /\ seq' = seq + 1
    /\ Escape("start")
    /\ UNCHANGED <<run, at, metadata, log>>

InstantiateNodes ==
    /\ pc = "instantiate"
    /\ pc' = "node"
    /\ at' = 1
    /\ UNCHANGED <<run, metadata, driver, cause, outcome>>

\* No pipeline_end, no flush, no close.
InstantiateFails ==
    /\ pc = "instantiate"
    /\ Escape("instantiate")
    /\ UNCHANGED <<run, at, metadata, driver>>

-----------------------------------------------------------------------------
(* The node loop                                                           *)

Goto(next, why) ==
    /\ pc' = next
    /\ cause' = why
    /\ UNCHANGED <<run, at, metadata, outcome>>

NodeReturns == pc = "node" /\ Goto("report", "ok") /\ UNCHANGED driver

NodeRaises == pc = "node" /\ Goto("reportError", "node") /\ UNCHANGED driver

PrepareReported ==                      \* mutant: preparation inside the inner try
    pc = "node" /\ Goto("reportError", "prepare") /\ UNCHANGED driver

\* Parameters or pre-checks raise before the inner try: no SER.
PrepareFails == pc = "node" /\ Goto("endError", "prepare") /\ UNCHANGED driver

\* KeyboardInterrupt is no Exception: only the finally clause runs.
Interrupt == pc = "node" /\ Goto("close", "interrupted") /\ UNCHANGED driver

\* Nor is the SystemExit of a processor that calls sys.exit().
ProcessorExits == pc = "node" /\ Goto("close", "exit") /\ UNCHANGED driver

Report ==
    /\ pc = "report"
    /\ WriteSer("succeeded")
    /\ Goto("publish", "ok")

ReportFailsLate ==                      \* mutant: the driver raises after it wrote
    /\ pc = "report"
    /\ WriteSer("succeeded")
    /\ Goto("reportError", "driver")

\* on_node_event raises inside the inner try: the node is reported as failed.
ReportFails == pc = "report" /\ Goto("reportError", "driver") /\ UNCHANGED driver

ReportErrorAndGoOn ==                   \* mutant: the exception is not raised again
    /\ pc = "reportError"
    /\ WriteSer("error")
    /\ Goto("publish", cause)

ReportError ==
    /\ pc = "reportError"
    /\ WriteSer("error")
    /\ Goto("endError", cause)

ReportErrorFails ==
    pc = "reportError" /\ Goto("endError", "driver") /\ UNCHANGED driver

PublishPastEnd ==                       \* mutant: one node too many
    /\ pc = "publish"
    /\ IF at <= NodeCount
       THEN pc' = "node" /\ at' = at + 1
       ELSE pc' = "endOk" /\ UNCHANGED at
    /\ UNCHANGED <<run, metadata, driver, cause, outcome>>

Publish ==
    /\ pc = "publish"
    /\ IF at < NodeCount
       THEN pc' = "node" /\ at' = at + 1
       ELSE pc' = "endOk" /\ UNCHANGED at
    /\ UNCHANGED <<run, metadata, driver, cause, outcome>>

PublishFails == pc = "publish" /\ Goto("endError", "publish") /\ UNCHANGED driver

-----------------------------------------------------------------------------
(* The end of the run                                                      *)

EndOk ==
    /\ pc = "endOk"
    /\ WriteLifecycle(file, "end", "ok")
    /\ UNCHANGED file
    /\ Goto("close", "ok")

EndError ==
    /\ pc = "endError"
    /\ WriteLifecycle(file, "end", "error")
    /\ UNCHANGED file
    /\ Goto("close", cause)

\* on_pipeline_end raises. From the try it is caught, and called once more.
EndFails ==
    /\ pc \in {"endOk", "endError"}
    /\ seq' = seq + 1
    /\ UNCHANGED <<file, log>>
    /\ Goto(IF pc = "endOk" THEN "endError" ELSE "close", "driver")

CloseKeepingMetadata ==                 \* mutant: the staged metadata is not reset
    /\ pc = "close"
    /\ file' = NoFile
    /\ outcome' = [outcome EXCEPT ![run] = cause]
    /\ cause' = "ok"
    /\ pc' = "idle"
    /\ UNCHANGED <<run, at, metadata, seq, log>>

CloseKeepingFile ==                     \* mutant: the driver's file is not reset
    /\ pc = "close"
    /\ staged' = IF cause = "ok" THEN NoMeta ELSE staged
    /\ outcome' = [outcome EXCEPT ![run] = cause]
    /\ cause' = "ok"
    /\ pc' = "idle"
    /\ UNCHANGED <<run, at, asked, metaOf, driver>>

\* flush() and close(); only a run that succeeded resets the staged metadata.
Close ==
    /\ pc = "close"
    /\ file' = NoFile
    /\ staged' = IF cause = "ok" THEN NoMeta ELSE staged
    /\ outcome' = [outcome EXCEPT ![run] = cause]
    /\ cause' = "ok"
    /\ pc' = "idle"
    /\ UNCHANGED <<run, at, asked, metaOf, seq, log>>

\* flush() raises and close() is not reached.
CloseFails ==
    /\ pc = "close"
    /\ Escape("driver")
    /\ UNCHANGED <<run, at, metadata, driver>>

\* The steps inside of process(), up to the close().
Running == \/ PipelineStart \/ ResolveFails \/ StartFails
           \/ InstantiateNodes \/ InstantiateFails
           \/ NodeReturns \/ NodeRaises \/ PrepareFails
           \/ Interrupt \/ ProcessorExits
           \/ Report \/ ReportFails \/ ReportError \/ ReportErrorFails
           \/ Publish \/ PublishFails
           \/ EndOk \/ EndError \/ EndFails \/ CloseFails

Next == \/ \E m \in Metas : SetRunMetadata(m)
        \/ Process \/ Running \/ Close

Spec == Init /\ [][Next]_vars
-----------------------------------------------------------------------------
(* Properties *)

Causes == {"resolve", "start", "instantiate", "prepare", "node", "publish",
           "driver", "interrupted", "exit"}

Records == [file : Runs, kind : {"start", "ser", "end"}, run : Runs,
            node : 0 .. NodeCount, status : {"-", "succeeded", "error", "ok"}, seq : Nat]

TypeOK ==
    /\ pc \in {"idle", "start", "instantiate", "node", "report", "reportError",
               "publish", "endOk", "endError", "close"}
    /\ run \in 0 .. MaxRuns /\ at \in 0 .. NodeCount
    /\ (pc # "idle" => run \in Runs)
    /\ staged \in Metas \union {NoMeta}
    /\ asked \in [Runs -> Metas \union {NoMeta}]
    /\ metaOf \in [Runs -> Metas \union {NoMeta}]
    /\ file \in Runs \union {NoFile}
    /\ seq \in Nat /\ log \in Seq(Records)
    /\ cause \in Causes \union {"ok"}
    /\ outcome \in [Runs -> Causes \union {"none", "ok"}]

Ser(i, r, status) == log[i].kind = "ser" /\ log[i].run = r /\ log[i].status = status
End(i, r)         == log[i].kind = "end" /\ log[i].run = r
HasError(r)       == \E i \in DOMAIN log : Ser(i, r, "error")
HasEnd(r)         == \E i \in DOMAIN log : End(i, r)

(* What a reader of the trace relies on: the records of a run stand together *)
(* in the order start, SERs by node, end; at most one of each; and nothing   *)
(* but the end follows a failed node. However the driver fails, no node gets *)
(* two SERs on file, though execute() may compose a second one for it. The   *)
(* sequence numbers of start and end records grow over runs, files and       *)
(* failed writes.                                                            *)
WellFormedTrace ==
    \A i, k \in DOMAIN log : i < k =>
        /\ log[i].run <= log[k].run
        /\ log[i].kind # "ser" /\ log[k].kind # "ser" => log[i].seq < log[k].seq
        /\ log[i].run = log[k].run =>
             /\ log[k].kind # "start" /\ log[i].kind # "end"
             /\ log[i].kind = "ser" /\ log[k].kind = "ser" =>
                  log[i].node < log[k].node /\ log[i].status = "succeeded"

(* "ok" in the trace is never premature: every node of the run has its SER   *)
(* "succeeded"; and a run whose process() returned says "ok" in the trace.   *)
OkMeansComplete ==
    /\ \A i \in DOMAIN log : log[i].kind = "end" /\ log[i].status = "ok" =>
         /\ \A n \in 1 .. NodeCount :
              \E k \in 1 .. (i - 1) : Ser(k, log[i].run, "succeeded") /\ log[k].node = n
         /\ ~HasError(log[i].run)
    /\ \A r \in Runs : outcome[r] = "ok" =>
         \E i \in DOMAIN log : End(i, r) /\ log[i].status = "ok"

(* A run that raised tells why: a failed node has its SER "error", any other *)
(* failure has none, and once nodes exist the trace ends with an end record, *)
(* unless the driver itself failed, the run was interrupted or a processor   *)
(* left by SystemExit.                                                       *)
CauseInTrace ==
    \A r \in Runs :
        /\ outcome[r] \in {"node", "prepare", "publish"} =>
             \E i \in DOMAIN log : End(i, r) /\ log[i].status = "error"
        /\ outcome[r] = "node" => HasError(r)
        /\ outcome[r] \in {"ok", "prepare", "publish", "interrupted", "exit"} => ~HasError(r)
        /\ outcome[r] \in {"resolve", "start", "instantiate", "interrupted", "exit"} =>
             ~HasEnd(r)

(* A run is traced with the metadata staged for it. Only when nothing was    *)
(* staged since a run that raised does that run's metadata come back.        *)
MetadataFresh ==
    \A r \in 1 .. run : metaOf[r] # asked[r] =>
        /\ asked[r] = NoMeta
        /\ r > 1 /\ outcome[r - 1] # "ok" /\ metaOf[r] = metaOf[r - 1]

(* The records of a run are in one file, its own, unless it inherits the file*)
(* of an earlier run, and then every run since that one left the file open.  *)
(* Once nodes are built the driver is closed however process() is left,      *)
(* unless the driver itself failed.                                          *)
FileInherited ==
    /\ \A i \in DOMAIN log :
         /\ \A k \in DOMAIN log : log[k].run = log[i].run => log[k].file = log[i].file
         /\ \A r \in log[i].file .. (log[i].run - 1) :
               outcome[r] \in {"resolve", "start", "instantiate", "driver"}
    /\ pc = "idle" /\ run > 0 /\ file # NoFile =>
         outcome[run] \in {"resolve", "start", "instantiate", "driver"}

(* "create a timestamped <timestamp>_<run_id>.ser.jsonl file per run"        *)
(* (JsonlTraceDriver): a record is in the file of its own run. It is not when*)
(* an earlier run was left before the try of execute, with its file open.    *)
OneFilePerRun == \A i \in DOMAIN log : log[i].file = log[i].run
================================================================================
