--------------------------- MODULE LaunchTraceProofs ---------------------------
(***************************************************************************)
(* What the invocations of RunSpaceLaunch keep, for any plan: which runs a *)
(* launch has begun and completed, what its records say of them, what is   *)
(* sure to be on disk, and which runs the identity of a launch stands for; *)
(* what an expansion gives; and what the records on disk tell the          *)
(* aggregator that reads them (LaunchTrace). The pipeline runs inside of a *)
(* launch are those of PipelineRunProofs, the aggregator is that of        *)
(* TraceAggregatorProofs.                                                  *)
(***************************************************************************)
EXTENDS LaunchTrace, EnumerationProofs, SequenceTheorems

PR == INSTANCE PipelineRunProofs

LaunchSpec == InitLaunch /\ [][NextLaunch]_launchVars

\* Where nothing was begun yet, or everything was collected.
Early == {"load", "build", "expand", "preflight", "identify", "start", "read"}
\* From the first record of the launch to the end of the process.
Begun == {"loop", "staged", "running", "end", "exit", "exited"}

\* The pipeline, as PipelineRunProofs has it, but for the file at the end of a launch.
Pipeline == /\ PR!TypeOK /\ PR!Opened /\ PR!FilesOk /\ PR!RecordsOk /\ PR!WellFormedTrace
            /\ PR!StartedOk /\ PR!ProgressOk /\ PR!OkMeansComplete /\ PR!CauseInTrace
RunOk ==
    /\ Pipeline
    /\ step \notin {"exit", "exited"} => PR!FileKept

\* A run is in progress only where the launch waits for it.
RestOk ==
    /\ step \notin {"running", "exited"} => pc = "idle"
    /\ step \in Early =>
         /\ run = 0 /\ log = <<>> /\ file = P!NoFile
         /\ completed = 0 /\ code = "success" /\ durable = [main |-> 0, rs |-> 0]

\* No run has returned without being counted.
Exact == run = completed + 1 => ~Succeeded(run)

\* Runs begun and runs completed.
CountOk ==
    /\ completed <= run /\ run <= completed + 1
    /\ \A r \in 1 .. completed : Succeeded(r)
    /\ step \in {"loop", "staged"} => run = completed
    /\ step = "running" => run = completed + 1
    /\ step \in {"end", "exit"} /\ code = "runtime" => Exact
    /\ step \in {"loop", "staged", "running"} => code = "success"
    /\ step \in {"end", "exit"} =>
         /\ code \in {"success", "interrupt", "runtime", "escaped"}
         /\ code = "success" => completed = Len(runs)

StartRecord == RsRecord("launchStart", 0, "-")
EndRecord(status) == RsRecord("launchEnd", completed, status)
Names(status) ==
    /\ status = "-" => completed = Len(runs) \/ code \in {"escaped", "killed"}
    /\ status = "failed" => Exact
    /\ code # "killed" => (status = "-" <=> code \in {"success", "escaped"})

\* The records of the launch itself.
RsOk ==
    /\ step \in Early => rslog = <<>>
    /\ step \in {"loop", "staged", "running", "end"} => rslog = <<StartRecord>>
    /\ step = "exit" => rslog = <<StartRecord, EndRecord(Status)>>
    /\ step = "exited" =>
         \/ rslog = <<>> /\ run = 0
         \/ rslog = <<StartRecord>> /\ code \in {"killed", "crash"}
         \/ \E status \in {"-", "interrupted", "failed"} :
              rslog = <<StartRecord, EndRecord(status)>> /\ Names(status)

\* A launch that ends with success has completed every run it began, and lost no record.
FinishOk ==
    /\ step \in {"end", "exit"} /\ code = "success" => run = completed
    /\ step = "exited" /\ code = "success" /\ launch # NoLaunch =>
         /\ Len(rslog) = 2 /\ run = completed
         /\ durable = [main |-> Len(log), rs |-> Len(rslog)]

\* The close of a run that succeeded has flushed the start of the launch.
FlushedOk == step \in Begun /\ (\E r \in 1 .. run : Succeeded(r)) => durable.rs >= 1

\* Metadata of the runs.
AttributedOk ==
    /\ \A r \in 1 .. run : metaOf[r] = Meta(r)
    /\ step = "staged" => staged = Meta(run + 1)
    /\ step \in {"loop", "staged", "running", "end", "exit", "start"} \/ rslog # <<>> =>
         launch \in LaunchKeys

\* SERs are of nodes.
NodesOk ==
    /\ pc \in {"node", "report", "reportError", "publish"} => at >= 1
    /\ \A i \in DOMAIN log : log[i].kind = "ser" => log[i].node >= 1

\* The runs of configuration c when the source file has edition e.
SpecAt(c, e) == IF e = Gone THEN c.specs[1] ELSE c.specs[Min({e, Len(c.specs)})]
RunsAt(c, e) == IF e = Gone /\ HasSource(c) THEN <<>> ELSE ExpandRunSpace(SpecAt(c, e)).runs

\* An identity under a key stands for the edition of the source.
KeyedId(c, e) == MaxInvocations + 2 + (IF HasSource(c) THEN e - 1 ELSE 0)
Identified(c, l, e) ==
    c.keyed /\ ~c.provided => l[1] = KeyedId(c, e) /\ (HasSource(c) => e # Gone)

IdentityOk ==
    /\ step \in {"preflight", "identify"} \/ launch # NoLaunch =>
         runs = RunsAt(conf, expansion.read) /\ expansion.read \in 0 .. (MaxEdits + 1)
    /\ launch # NoLaunch => step \in Begun \union {"start"} /\ Identified(conf, launch, edition)

\* The invocations that have ended.
ExitsOk ==
    /\ exits \in Seq({exits[i] : i \in DOMAIN exits})
    /\ \A i \in DOMAIN exits : \E k \in DOMAIN Plans[plan] :
         LET c == Plans[plan][k] e == exits[i] IN
         /\ e.keyed <=> c.keyed /\ ~c.provided
         /\ e.fingerprinted \in 0 .. (MaxEdits + 1)
         /\ e.launch # NoLaunch =>
              /\ Identified(c, e.launch, e.fingerprinted)
              /\ e.runs = RunsAt(c, e.read) /\ e.read \in 0 .. (MaxEdits + 1)

LaunchInv == /\ LaunchTypeOK /\ RunOk /\ RestOk /\ CountOk /\ RsOk /\ FinishOk /\ FlushedOk
             /\ AttributedOk /\ NodesOk /\ IdentityOk /\ ExitsOk

-----------------------------------------------------------------------------
(* The pipeline inside of a launch *)

LEMMA Assumed ==
    /\ PR!PipelineRunAssumption
    /\ MaxRuns \in Nat \ {0} /\ MaxEdits \in Nat /\ MaxInvocations \in Nat /\ MaxAttempts \in Nat
    /\ PR!Runs = 1 .. MaxRuns /\ P!Runs = 1 .. MaxRuns /\ PR!NoFile = 0 /\ P!NoFile = 0
  BY RunSpaceLaunchAssumption
     DEF RunSpaceLaunchAssumption, PR!PipelineRunAssumption, Metas, NoMeta, PR!Runs, P!Runs,
         PR!NoFile, P!NoFile

LEMMA SameTypes == P!TypeOK <=> PR!TypeOK
  BY DEF P!TypeOK, PR!TypeOK, P!Records, PR!Records, P!Runs, PR!Runs, P!NoFile, PR!NoFile,
         P!Causes, PR!Causes

\* A step of the pipeline is a step of PipelineRun.
LEMMA SameSteps ==
    /\ P!Running \/ P!Close \/ P!Process => PR!Next
    /\ \A m \in Metas : P!SetRunMetadata(m) => PR!Next
<1> USE DEF P!metadata, PR!metadata, P!driver, PR!driver, P!Runs, PR!Runs, P!NoFile, PR!NoFile
<1>1. P!Running => PR!Running
  BY DEF P!Running, PR!Running,
         P!PipelineStart, P!ResolveFails, P!StartFails, P!InstantiateNodes, P!InstantiateFails,
         P!NodeReturns, P!NodeRaises, P!PrepareFails, P!Interrupt, P!ProcessorExits,
         P!Report, P!ReportFails,
         P!ReportError, P!ReportErrorFails, P!Publish, P!PublishFails, P!EndOk, P!EndError,
         P!EndFails, P!CloseFails, P!Goto, P!Escape, P!WriteSer, P!WriteLifecycle, P!OpenFile,
         P!Record,
         PR!PipelineStart, PR!ResolveFails, PR!StartFails, PR!InstantiateNodes,
         PR!InstantiateFails, PR!NodeReturns, PR!NodeRaises, PR!PrepareFails, PR!Interrupt,
         PR!ProcessorExits,
         PR!Report, PR!ReportFails, PR!ReportError, PR!ReportErrorFails, PR!Publish,
         PR!PublishFails, PR!EndOk, PR!EndError, PR!EndFails, PR!CloseFails, PR!Goto, PR!Escape,
         PR!WriteSer, PR!WriteLifecycle, PR!OpenFile, PR!Record
<1>2. P!Close => PR!Close
  BY DEF P!Close, PR!Close
<1>3. P!Process => PR!Process
  BY DEF P!Process, PR!Process
<1>4. \A m \in Metas : P!SetRunMetadata(m) => PR!SetRunMetadata(m)
  BY DEF P!SetRunMetadata, PR!SetRunMetadata
<1> QED
  BY <1>1, <1>2, <1>3, <1>4 DEF PR!Next

LEMMA PipelineStep ==
    ASSUME Pipeline, PR!FileKept, PR!Next
    PROVE  Pipeline' /\ PR!FileKept'
  BY Assumed, PR!TypeStep, PR!FileStep, PR!RecordStep, PR!StartedStep, PR!ProgressStep,
     PR!EndStep DEF Pipeline

LEMMA PipelineStays ==
    ASSUME Pipeline, pc = "idle" \/ file' = file,
           file' \in PR!Runs \union {PR!NoFile}, seq' = seq \/ seq' = seq + 1,
           UNCHANGED <<pc, run, at, staged, asked, metaOf, log, cause, outcome>>
    PROVE  Pipeline'
<1> USE DEF Pipeline
<1>1. PR!TypeOK'
  BY DEF PR!TypeOK, PR!Runs, PR!NoFile, PR!Records, PR!Causes
<1>2. PR!Opened'
  BY DEF PR!Opened, PR!Inside
<1>3. PR!FilesOk'
  BY DEF PR!FilesOk
<1>4. PR!RecordsOk'
  <2>1. seq' >= seq /\ seq \in Nat /\ \A i \in DOMAIN log : log[i].seq \in Nat
    BY Assumed, PR!Fields DEF PR!TypeOK
  <2>2. \A i \in DOMAIN log : log[i].kind # "ser" => log[i].seq <= seq'
    BY <2>1 DEF PR!RecordsOk
  <2> QED
    BY <2>2 DEF PR!RecordsOk
<1>5. PR!WellFormedTrace' /\ PR!StartedOk'
  BY DEF PR!WellFormedTrace, PR!StartedOk, PR!HasStart, PR!HasEnd, PR!End
<1>6. PR!ProgressOk'
  BY DEF PR!ProgressOk, PR!Done, PR!EndsWith, PR!HasError, PR!HasEnd, PR!Ser, PR!End
<1>7. PR!OkMeansComplete' /\ PR!CauseInTrace'
  BY DEF PR!OkMeansComplete, PR!CauseInTrace, PR!HasError, PR!HasEnd, PR!Ser, PR!End
<1> QED
  BY <1>1, <1>2, <1>3, <1>4, <1>5, <1>6, <1>7

\* The steps inside of a run leave its number and the metadata alone, and do not succeed.
LEMMA RunningFacts ==
    ASSUME PR!TypeOK, P!Running
    PROVE  /\ pc # "idle" /\ UNCHANGED <<run, staged, metaOf>>
           /\ \A r \in 1 .. MaxRuns : outcome'[r] = outcome[r] \/ (r = run /\ outcome'[r] # "ok")
           /\ log' = log \/ \E rec : log' = Append(log, rec)
  BY Assumed
     DEF PR!TypeOK, P!Running, P!metadata, P!driver,
         P!PipelineStart, P!ResolveFails, P!StartFails, P!InstantiateNodes, P!InstantiateFails,
         P!NodeReturns, P!NodeRaises, P!PrepareFails, P!Interrupt, P!ProcessorExits,
         P!Report, P!ReportFails,
         P!ReportError, P!ReportErrorFails, P!Publish, P!PublishFails, P!EndOk, P!EndError,
         P!EndFails, P!CloseFails, P!Goto, P!Escape, P!WriteSer, P!WriteLifecycle, P!OpenFile

-----------------------------------------------------------------------------
(* The steps, by what they do to the pipeline *)

\* The command line goes on, or stops, or is stopped.
Plain == Load \/ BuildComponents \/ ExpandRuns \/ Preflight \/ Identify \/ EmitStartFails
         \/ AfterRun \/ InterruptLoop \/ EndLoop \/ EmitEndFails \/ Exit \/ Kill \/ Edit
Emits == EmitStart \/ EmitEnd
Drives == Stage \/ StartRun \/ InRun \/ CloseRun

LEMMA ByKind ==
    [NextLaunch]_launchVars => Plain \/ Emits \/ Drives \/ Collect \/ UNCHANGED launchVars
  BY DEF NextLaunch, Plain, Emits, Drives

LEMMA PlainFacts ==
    ASSUME Plain
    PROVE  /\ UNCHANGED <<pc, run, at, staged, asked, metaOf, file, seq, log, cause, outcome>>
           /\ UNCHANGED <<plan, inv, exits, disk, rsopen, rslog>>
           /\ step = "exit" => step' \in {"exit", "exited"}
           /\ step # "exited"
           /\ ~ExpandRuns => UNCHANGED expansion
           /\ ~Identify => UNCHANGED launch
           /\ ~Edit => UNCHANGED <<edition, edits>>
           /\ ~AfterRun => UNCHANGED completed
           /\ step' = "exited" \/ UNCHANGED durable
  BY DEF Plain, Load, BuildComponents, ExpandRuns, Preflight, Identify, EmitStartFails, AfterRun,
         InterruptLoop, EndLoop, EmitEndFails, Exit, Kill, Edit, Leave, pipeline, history, rstrace,
         source, cli

LEMMA EmitsFacts ==
    ASSUME Emits
    PROVE  /\ UNCHANGED <<pc, run, at, staged, asked, metaOf, log, cause, outcome>>
           /\ seq' = seq + 1 /\ (file' = file \/ (file = P!NoFile /\ file' = 1))
           /\ UNCHANGED <<plan, inv, expansion, launch, completed, code, edition, edits, durable,
                         exits, disk>>
           /\ \/ step = "start" /\ step' = "loop"
              \/ step = "end" /\ step' = "exit"
  BY DEF Emits, EmitStart, EmitEnd, OpenRunSpaceFile, source, history

LEMMA DrivesFacts ==
    ASSUME LaunchInv, Drives
    PROVE  /\ PR!Next
           /\ step \in {"loop", "staged", "running"} /\ step' \in {"loop", "staged", "running"}
           /\ UNCHANGED <<plan, inv, expansion, launch, completed, code, edition, edits, rslog,
                         exits, disk>>
           /\ ~CloseRun => UNCHANGED <<rsopen, durable>>
<1>1. Stage => Meta(completed + 1) \in Metas
  <2>1. ASSUME Stage PROVE completed + 1 \in 1 .. MaxRuns /\ launch \in LaunchKeys
    BY <2>1, Assumed
       DEF LaunchInv, LaunchTypeOK, CountOk, AttributedOk, Stage, P!SetRunMetadata, RunOk,
           Pipeline, PR!TypeOK
  <2> QED
    BY <2>1 DEF Metas, Meta
<1>2. PR!Next
  BY <1>1, SameSteps DEF Drives, Stage, StartRun, InRun, CloseRun
<1> QED
  BY <1>2 DEF Drives, Stage, StartRun, InRun, CloseRun, cli, source, rstrace, history

LEMMA RunStep ==
    ASSUME LaunchInv, [NextLaunch]_launchVars, ~Collect
    PROVE  RunOk'
<1> USE DEF LaunchInv, RunOk
<1>1. file \in PR!Runs \union {PR!NoFile} /\ 1 \in PR!Runs
  BY Assumed DEF Pipeline, PR!TypeOK
<1>2. CASE Plain
  <2>1. Pipeline'
    BY <1>1, <1>2, PlainFacts, PipelineStays
  <2>2. PR!FileKept => PR!FileKept'
    BY <1>2, PlainFacts DEF PR!FileKept
  <2> QED
    BY <1>2, <2>1, <2>2, PlainFacts
<1>3. CASE Emits
  <2>1. Pipeline'
    BY <1>1, <1>3, Assumed, EmitsFacts, PipelineStays DEF RestOk
  <2>2. step = "start" => PR!FileKept'
    BY <1>3, Assumed, EmitsFacts DEF RestOk, Early, PR!FileKept
  <2> QED
    BY <1>3, <2>1, <2>2, EmitsFacts
<1>4. CASE Drives
  BY <1>4, DrivesFacts, PipelineStep
<1>5. CASE UNCHANGED launchVars
  <2>1. UNCHANGED <<step, pc, run, at, staged, asked, metaOf, file, seq, log, cause, outcome>>
    BY <1>5 DEF launchVars, cli, pipeline
  <2>2. Pipeline'
    BY <1>1, <2>1, PipelineStays
  <2> QED
    BY <2>1, <2>2 DEF PR!FileKept
<1> QED
  BY <1>2, <1>3, <1>4, <1>5, ByKind

\* Up to the first record of the launch.
Prepares == Load \/ BuildComponents \/ ExpandRuns \/ Preflight \/ Identify \/ EmitStartFails

LEMMA PreparesFacts ==
    ASSUME Prepares
    PROVE  /\ step \in Early \ {"read"} /\ step # "loop"
           /\ UNCHANGED <<completed, run, edition, edits, rslog>>
           /\ \/ step' \in Early \ {"read"} /\ UNCHANGED <<code, durable>>
              \/ step' = "exited" /\ durable' = [main |-> Len(log), rs |-> Len(rslog)]
           /\ launch' # launch => Identify /\ step' = "start"
           /\ step' = "start" => Identify
           /\ step' = "preflight" => ExpandRuns
  BY DEF Prepares, Load, BuildComponents, ExpandRuns, Preflight, Identify, EmitStartFails, Leave,
         Early, pipeline, rstrace, source

\* The process ends by itself, after the loop.
Ends == EmitEndFails \/ Exit

LEMMA EndsFacts ==
    ASSUME Ends
    PROVE  /\ step \in {"end", "exit"} /\ step' = "exited"
           /\ durable' = [main |-> Len(log), rs |-> Len(rslog)]
           /\ step = "end" => code' = "crash"
           /\ step = "exit" => code' = code
           /\ UNCHANGED <<completed, run, launch, expansion, rslog>>
  BY DEF Ends, EmitEndFails, Exit, Leave, pipeline

LEMMA ByStep ==
    [NextLaunch]_launchVars =>
        \/ Prepares \/ EmitStart
        \/ Stage \/ StartRun \/ InRun \/ CloseRun
        \/ AfterRun \/ InterruptLoop \/ EndLoop \/ EmitEnd \/ Ends
        \/ Kill \/ Edit \/ Collect \/ UNCHANGED launchVars
  BY DEF NextLaunch, Prepares, Ends

\* The steps that drive the pipeline.
LEMMA StageFacts ==
    ASSUME Stage
    PROVE  /\ step = "loop" /\ step' = "staged" /\ staged' = Meta(completed + 1)
           /\ UNCHANGED <<pc, run, metaOf, outcome, log, durable>>
  BY DEF Stage, P!SetRunMetadata, P!driver, rstrace

LEMMA StartFacts ==
    ASSUME PR!TypeOK, StartRun
    PROVE  /\ step = "staged" /\ step' = "running" /\ run \in 0 .. (MaxRuns - 1) /\ run' = run + 1
           /\ metaOf'[run + 1] = staged /\ \A r \in 1 .. run : metaOf'[r] = metaOf[r]
           /\ UNCHANGED <<outcome, log, durable>>
  BY Assumed DEF PR!TypeOK, StartRun, P!Process, P!driver, rstrace

LEMMA InRunFacts ==
    ASSUME PR!TypeOK, InRun
    PROVE  /\ step = "running" /\ step' = "running" /\ pc # "idle"
           /\ UNCHANGED <<run, staged, metaOf, durable>>
           /\ run \in 1 .. MaxRuns
           /\ \A r \in 1 .. MaxRuns : outcome'[r] = outcome[r] \/ (r = run /\ outcome'[r] # "ok")
           /\ log' = log \/ \E rec : log' = Append(log, rec)
<1>1. step = "running" /\ P!Running /\ UNCHANGED <<step, durable>>
  BY DEF InRun, cli, rstrace
<1> QED
  BY <1>1, Assumed, RunningFacts DEF PR!TypeOK

LEMMA CloseFacts ==
    ASSUME PR!TypeOK, CloseRun
    PROVE  /\ step = "running" /\ step' = "running" /\ pc' = "idle"
           /\ UNCHANGED <<run, metaOf, log>> /\ run \in 1 .. MaxRuns
           /\ durable' = [main |-> Len(log), rs |-> Len(rslog)]
           /\ \A r \in 1 .. MaxRuns : outcome'[r] = outcome[r] \/ r = run
  BY Assumed DEF PR!TypeOK, CloseRun, P!Close, cli

\* The steps that leave the runs alone.
LEMMA StillFacts ==
    ASSUME Plain \/ Emits \/ UNCHANGED launchVars
    PROVE  UNCHANGED <<pc, run, at, staged, asked, metaOf, log, cause, outcome>>
<1>1. Plain => UNCHANGED <<pc, run, at, staged, asked, metaOf, log, cause, outcome>>
  BY PlainFacts
<1>2. Emits => UNCHANGED <<pc, run, at, staged, asked, metaOf, log, cause, outcome>>
  BY EmitsFacts
<1> QED
  BY <1>1, <1>2 DEF launchVars, pipeline

LEMMA RunNumbers == LaunchInv => run \in 0 .. MaxRuns /\ completed \in 0 .. MaxRuns
                                 /\ PR!TypeOK /\ Len(rslog) \in Nat
  BY Assumed DEF LaunchInv, RunOk, Pipeline, PR!TypeOK, LaunchTypeOK, RsOk, Steps, Early

-----------------------------------------------------------------------------
(* What each part of the invariant becomes by a step of the launch *)

LEMMA RestStep ==
    ASSUME LaunchInv, [NextLaunch]_launchVars, ~Collect
    PROVE  RestOk'
<1> USE DEF LaunchInv, RestOk, Early
<1>1. CASE Plain
  BY <1>1, PlainFacts
     DEF Plain, Load, BuildComponents, ExpandRuns, Preflight, Identify, EmitStartFails, AfterRun,
         InterruptLoop, Raised, EndLoop, EmitEndFails, Exit, Kill, Edit, Leave, cli, rstrace
<1>2. CASE Emits
  BY <1>2, EmitsFacts
<1>3. CASE Drives
  BY <1>3, RunNumbers, DrivesFacts, StageFacts, StartFacts, InRunFacts, CloseFacts DEF Drives
<1>4. CASE UNCHANGED launchVars
  BY <1>4 DEF launchVars, cli, rstrace, pipeline
<1> QED
  BY <1>1, <1>2, <1>3, <1>4, ByKind

LEMMA CountStep ==
    ASSUME LaunchInv, [NextLaunch]_launchVars, ~Collect
    PROVE  CountOk'
<1>1. /\ run \in 0 .. MaxRuns /\ completed \in 0 .. MaxRuns /\ CountOk /\ RestOk /\ RsOk
      /\ step \in Steps /\ MaxRuns \in Nat /\ PR!TypeOK
  BY RunNumbers, Assumed DEF LaunchInv, LaunchTypeOK
<1> USE <1>1 DEF CountOk, Exact, Succeeded
<1>2. CASE Prepares
  BY <1>2, PreparesFacts, StillFacts DEF Plain, Prepares, Early, RestOk
<1>3. CASE EmitStart \/ EmitEnd
  <2>1. step = "start" => run = 0 /\ completed = 0 /\ code = "success"
    BY DEF RestOk, Early
  <2> QED
    BY <1>3, <2>1, EmitsFacts, StillFacts DEF Emits, runs
<1>4. CASE Stage
  BY <1>4, StageFacts, DrivesFacts DEF Drives
<1>5. CASE StartRun
  BY <1>5, StartFacts, DrivesFacts DEF Drives
<1>6. CASE InRun
  BY <1>6, InRunFacts, DrivesFacts DEF Drives
<1>7. CASE CloseRun
  BY <1>7, CloseFacts, DrivesFacts DEF Drives
<1>8. CASE AfterRun
  BY <1>8, StillFacts, PlainFacts DEF Plain, AfterRun, Raised
<1>14. CASE InterruptLoop
  BY <1>14, StillFacts, PlainFacts DEF Plain, InterruptLoop, Raised
<1>9. CASE EndLoop
  BY <1>9, StillFacts, PlainFacts DEF Plain, EndLoop, runs
<1>10. CASE Ends
  BY <1>10, EndsFacts, StillFacts DEF Plain, Ends, RsOk
<1>11. CASE Kill
  BY <1>11, StillFacts DEF Plain, Kill, RsOk
<1>12. CASE Edit
  BY <1>12, StillFacts DEF Plain, Edit, cli, rstrace
<1>13. CASE UNCHANGED launchVars
  BY <1>13, StillFacts DEF launchVars, cli, rstrace, runs
<1> QED
  BY <1>2, <1>3, <1>4, <1>5, <1>6, <1>7, <1>8, <1>9, <1>10, <1>11, <1>12, <1>13,
     <1>14, ByStep

\* The identity that a launch is given.
LEMMA LaunchIdentity ==
    ASSUME LaunchInv, Identify, step' = "start"
    PROVE  /\ launch' = <<LaunchId, conf.attempt>> /\ launch' \in LaunchKeys
           /\ HasSource(conf) => edition # Gone
           /\ UNCHANGED <<plan, inv, expansion, edition, edits>>
<1>1. /\ launch' = <<LaunchId, conf.attempt>> /\ conf.attempt >= 1
      /\ HasSource(conf) => edition # Gone
      /\ UNCHANGED <<plan, inv, expansion, edition, edits>>
  BY DEF Identify, Leave, source
<1>2. plan \in DOMAIN Plans /\ inv \in DOMAIN Plans[plan] /\ edition \in 0 .. (MaxEdits + 1)
  BY DEF LaunchInv, LaunchTypeOK
<1>3. inv \in 1 .. MaxInvocations /\ conf.attempt \in 0 .. MaxAttempts
  BY <1>2, RunSpaceLaunchAssumption DEF RunSpaceLaunchAssumption, conf
<1>4. LaunchId \in LaunchIds
  BY <1>1, <1>2, <1>3, Assumed DEF LaunchId, LaunchIds, Gone
<1> QED
  BY <1>1, <1>3, <1>4, Assumed DEF LaunchKeys

LEMMA TwoRecords == ASSUME NEW a, NEW b PROVE Append(<<a>>, b) = <<a, b>>
<1>1. <<a>> \in Seq({a, b}) /\ <<a, b>> \in Seq({a, b})
  OBVIOUS
<1>2. Append(<<a>>, b) \in Seq({a, b}) /\ Len(Append(<<a>>, b)) = 2
      /\ Append(<<a>>, b)[1] = a /\ Append(<<a>>, b)[2] = b
  BY <1>1
<1>3. \A i \in 1 .. 2 : Append(<<a>>, b)[i] = <<a, b>>[i]
  BY <1>2
<1> QED
  BY <1>1, <1>2, <1>3, SeqEqual

LEMMA RsStep ==
    ASSUME LaunchInv, [NextLaunch]_launchVars, ~Collect
    PROVE  RsOk'
<1>1. /\ CountOk /\ RestOk /\ RsOk /\ run \in 0 .. MaxRuns
  BY RunNumbers DEF LaunchInv
<1> USE <1>1 DEF RsOk, Early, StartRecord, EndRecord, RsRecord, runs
<1>11. step = "exit" => Names(Status) /\ Status \in {"-", "interrupted", "failed"}
  BY DEF CountOk, Names, Status
<1>2. CASE Prepares
  BY <1>2, PreparesFacts, StillFacts DEF Plain, Prepares, RestOk
<1>3. CASE EmitStart
  BY <1>3, EmitsFacts DEF Emits, EmitStart
<1>4. CASE EmitEnd
  <2>1. step = "end" /\ step' = "exit" /\ UNCHANGED <<expansion, launch, completed, code>>
        /\ rslog' = Append(rslog, EndRecord(Status))
    BY <1>4 DEF EmitEnd
  <2>2. rslog = <<StartRecord>>
    BY <2>1
  <2>3. rslog' = <<StartRecord, EndRecord(Status)>>
    BY <2>1, <2>2, TwoRecords
  <2> QED
    BY <2>1, <2>3, EmitsFacts DEF Status
<1>5. CASE Drives
  BY <1>5, DrivesFacts
<1>6. CASE AfterRun \/ InterruptLoop \/ EndLoop
  <2>1. step' \in {"loop", "end"} /\ step \in {"running", "loop", "staged"}
        /\ UNCHANGED <<expansion, launch>>
    BY <1>6 DEF AfterRun, InterruptLoop, Raised, EndLoop
  <2>2. UNCHANGED rslog
    BY <1>6, PlainFacts DEF Plain
  <2> QED
    BY <2>1, <2>2
<1>7. CASE Ends
  <2>1. /\ step' = "exited" /\ UNCHANGED <<completed, run, launch, expansion, rslog, outcome>>
        /\ \/ step = "end" /\ code' = "crash"
           \/ step = "exit" /\ code' = code
    BY <1>7, EndsFacts, StillFacts DEF Plain, Ends
  <2>2. CASE step = "end"
    BY <2>1, <2>2
  <2>3. CASE step = "exit"
    <3>1. Names(Status)' = Names(Status) /\ Status' = Status
      BY <2>1, <2>3 DEF Names, Exact, Succeeded, Status
    <3>2. rslog' = <<StartRecord', EndRecord(Status)'>>
      BY <2>1, <2>3, <3>1
    <3> QED
      BY <1>11, <2>1, <2>3, <3>1, <3>2
  <2> QED
    BY <2>1, <2>2, <2>3
<1>8. CASE Kill
  <2>1. /\ step' = "exited" /\ code' = "killed"
        /\ step \in {"loop", "staged", "running", "end", "exit"}
        /\ UNCHANGED <<completed, run, launch, expansion, rslog, outcome>>
    BY <1>8 DEF Kill, pipeline
  <2>2. CASE step # "exit"
    BY <2>1, <2>2
  <2>3. CASE step = "exit"
    <3>1. \A status : Names(status) => Names(status)'
      BY <2>1 DEF Names, Exact, Succeeded
    <3>2. PICK status \in {"-", "interrupted", "failed"} :
            rslog = <<StartRecord, EndRecord(status)>> /\ Names(status)
      BY <1>11, <2>3
    <3>3. rslog' = <<StartRecord', EndRecord(status)'>> /\ Names(status)'
      BY <2>1, <3>1, <3>2
    <3> QED
      BY <2>1, <3>3
  <2> QED
    BY <2>2, <2>3
<1>9. CASE Edit
  BY <1>9 DEF Edit, cli, rstrace, pipeline
<1>10. CASE UNCHANGED launchVars
  <2>1. UNCHANGED <<step, expansion, launch, completed, code, rslog, run, outcome>>
    BY <1>10 DEF launchVars, cli, rstrace, pipeline
  <2>2. StartRecord' = StartRecord /\ Status' = Status /\ Len(runs)' = Len(runs)
        /\ \A status : EndRecord(status)' = EndRecord(status) /\ Names(status)' = Names(status)
    BY <2>1 DEF Status, Names, Exact, Succeeded
  <2>3. RsOk
    BY <1>1
  <2> HIDE DEF StartRecord, EndRecord, runs
  <2> QED
    BY <2>1, <2>2, <2>3
<1> QED
  BY <1>2, <1>3, <1>4, <1>5, <1>6, <1>7, <1>8, <1>9, <1>10, ByStep DEF Drives

LEMMA FinishStep ==
    ASSUME LaunchInv, [NextLaunch]_launchVars, ~Collect
    PROVE  FinishOk'
<1>1. /\ FinishOk /\ CountOk /\ RestOk /\ RsOk /\ IdentityOk /\ PR!TypeOK
      /\ run \in 0 .. MaxRuns /\ completed \in 0 .. MaxRuns
  BY RunNumbers DEF LaunchInv
<1> USE DEF FinishOk
<1>2. CASE Prepares
  <2>1. step' = "exited" /\ launch' # NoLaunch => code' # "success"
    <3>1. CASE EmitStartFails
      BY <3>1 DEF EmitStartFails, Leave
    <3>2. CASE ~EmitStartFails
      <4>1. step \notin Begun \union {"start"}
        BY <1>2, <3>2
           DEF Prepares, Load, BuildComponents, ExpandRuns, Preflight, Identify, Begun
      <4> QED
        BY <1>1, <1>2, <4>1, PreparesFacts DEF IdentityOk
    <3> QED
      BY <3>1, <3>2
  <2> QED
    BY <1>2, <2>1, PreparesFacts DEF Early
<1>3. CASE Emits
  BY <1>1, <1>3, EmitsFacts
<1>4. CASE Drives
  BY <1>4, DrivesFacts
<1>5. CASE AfterRun \/ InterruptLoop
  BY <1>5 DEF AfterRun, InterruptLoop, Raised
<1>6. CASE EndLoop
  BY <1>1, <1>6 DEF EndLoop, CountOk, pipeline
<1>7. CASE Ends
  <2>1. /\ step' = "exited" /\ durable' = [main |-> Len(log), rs |-> Len(rslog)]
        /\ UNCHANGED <<completed, run, rslog, log>>
        /\ code' = "success" => step = "exit" /\ code = "success"
    BY <1>7, EndsFacts, StillFacts DEF Plain, Ends
  <2>2. step = "exit" => Len(rslog) = 2
    BY <1>1 DEF RsOk
  <2> QED
    BY <1>1, <2>1, <2>2
<1>8. CASE Kill
  BY <1>8 DEF Kill
<1>9. CASE Edit \/ UNCHANGED launchVars
  <2>1. UNCHANGED <<step, code, launch, rslog, run, completed, durable, log>>
    BY <1>9 DEF Edit, launchVars, cli, rstrace, pipeline
  <2> QED
    BY <1>1, <2>1
<1> QED
  BY <1>2, <1>3, <1>4, <1>5, <1>6, <1>7, <1>8, <1>9, ByStep DEF Emits, Drives

LEMMA FlushedStep ==
    ASSUME LaunchInv, [NextLaunch]_launchVars, ~Collect
    PROVE  FlushedOk'
<1>1. /\ RsOk /\ RestOk /\ CountOk /\ FlushedOk /\ PR!TypeOK /\ run \in 0 .. MaxRuns /\ MaxRuns \in Nat
      /\ durable.rs \in 0 .. Len(rslog) /\ Len(rslog) \in Nat
  BY RunNumbers, Assumed DEF LaunchInv, LaunchTypeOK
<1>2. \A r \in 1 .. MaxRuns : r > run => outcome[r] # "ok"
  BY Assumed DEF LaunchInv, RunOk, Pipeline, PR!ProgressOk
<1>3. step \in {"running", "loop", "end", "exit", "staged"} => Len(rslog) >= 1
  <2>1. \A a, b : Len(<<a>>) = 1 /\ Len(<<a, b>>) = 2
    OBVIOUS
  <2>2. CASE step = "exit"
    <3>1. rslog = <<StartRecord, EndRecord(Status)>>
      BY <1>1, <2>2 DEF RsOk
    <3> QED
      BY <2>1, <3>1
  <2>3. CASE step \in {"running", "loop", "end", "staged"}
    <3>1. rslog = <<StartRecord>>
      BY <1>1, <2>3 DEF RsOk
    <3> QED
      BY <2>1, <3>1
  <2> QED
    BY <2>2, <2>3
<1> USE <1>1 DEF FlushedOk, Begun, Succeeded
<1>4. CASE Prepares
  BY <1>4, PreparesFacts, StillFacts DEF Plain, Prepares, Early, RestOk
<1>5. CASE Emits
  BY <1>5, EmitsFacts, StillFacts DEF RestOk, Early
<1>6. CASE Stage
  BY <1>6, StageFacts
<1>7. CASE StartRun
  BY <1>2, <1>7, StartFacts
<1>8. CASE InRun
  BY <1>8, InRunFacts
<1>9. CASE CloseRun
  BY <1>3, <1>9, CloseFacts
<1>10. CASE AfterRun \/ InterruptLoop \/ EndLoop \/ Edit
  BY <1>10, StillFacts DEF Plain, AfterRun, InterruptLoop, Raised, EndLoop, Edit, cli, rstrace
<1>11. CASE Ends
  BY <1>3, <1>11, EndsFacts
<1>12. CASE Kill
  BY <1>12, StillFacts DEF Plain, Kill
<1>13. CASE UNCHANGED launchVars
  BY <1>13, StillFacts DEF launchVars, cli, rstrace
<1> QED
  BY <1>4, <1>5, <1>6, <1>7, <1>8, <1>9, <1>10, <1>11, <1>12, <1>13, ByStep DEF Emits

LEMMA AttributedStep ==
    ASSUME LaunchInv, [NextLaunch]_launchVars, ~Collect
    PROVE  AttributedOk'
<1>1. /\ RestOk /\ CountOk /\ RsOk /\ AttributedOk /\ PR!TypeOK
      /\ run \in 0 .. MaxRuns /\ MaxRuns \in Nat
      /\ launch \in LaunchKeys \union {NoLaunch} /\ completed \in 0 .. MaxRuns
  BY RunNumbers, Assumed DEF LaunchInv, LaunchTypeOK
<1> USE <1>1 DEF AttributedOk, Meta
<1>2. CASE Prepares
  <2>1. step' = "start" => launch' \in LaunchKeys
    BY <1>2, PreparesFacts, LaunchIdentity DEF Prepares
  <2> QED
    BY <1>2, <2>1, PreparesFacts, StillFacts DEF Plain, Prepares, Early, RestOk, RsOk
<1>3. CASE Emits
  BY <1>3, EmitsFacts, StillFacts DEF RestOk, Early
<1>4. CASE Stage
  BY <1>4, StageFacts, DrivesFacts DEF Drives, CountOk
<1>5. CASE StartRun
  BY <1>5, StartFacts, DrivesFacts DEF Drives
<1>6. CASE InRun
  BY <1>6, InRunFacts, DrivesFacts DEF Drives
<1>7. CASE CloseRun
  BY <1>7, CloseFacts, DrivesFacts DEF Drives
<1>8. CASE AfterRun \/ InterruptLoop \/ EndLoop \/ Edit
  BY <1>8, StillFacts, PlainFacts DEF Plain, AfterRun, InterruptLoop, Raised, EndLoop, Edit, cli
<1>9. CASE Ends
  BY <1>9, EndsFacts, StillFacts DEF Plain, Ends
<1>10. CASE Kill
  BY <1>10, StillFacts DEF Plain, Kill
<1>11. CASE UNCHANGED launchVars
  BY <1>11, StillFacts DEF launchVars, cli, rstrace
<1> QED
  BY <1>2, <1>3, <1>4, <1>5, <1>6, <1>7, <1>8, <1>9, <1>10, <1>11, ByStep DEF Emits

LEMMA NodesStep ==
    ASSUME LaunchInv, [NextLaunch]_launchVars, ~Collect
    PROVE  NodesOk'
<1>1. NodesOk /\ PR!TypeOK /\ NodeCount \in Nat \ {0} /\ DOMAIN log = 1 .. Len(log)
      /\ log \in Seq(PR!Records) /\ at \in 0 .. NodeCount
  BY RunSpaceLaunchAssumption
     DEF LaunchInv, RunOk, Pipeline, PR!TypeOK, RunSpaceLaunchAssumption
<1> DEFINE Kept == \A i \in DOMAIN log' : log'[i].kind = "ser" => log'[i].node >= 1
<1>2. ASSUME NEW rec, log' = Append(log, rec), rec.kind = "ser" => rec.node >= 1 PROVE Kept
  <2>1. /\ DOMAIN log' = 1 .. (Len(log) + 1) /\ Len(log) \in Nat
        /\ \A i \in 1 .. Len(log) : log'[i] = log[i]
        /\ log'[Len(log) + 1] = rec
    BY <1>1, <1>2, PR!Appended
  <2> QED
    BY <1>1, <1>2, <2>1 DEF NodesOk
<1>3. log' = log => Kept
  BY <1>1 DEF NodesOk
<1> HIDE DEF Kept
<1>4. CASE Plain \/ Emits \/ UNCHANGED launchVars
  BY <1>1, <1>4, StillFacts DEF NodesOk
<1>5. CASE Stage
  BY <1>1, <1>3, <1>5 DEF Stage, P!SetRunMetadata, P!driver, NodesOk, Kept
<1>6. CASE StartRun
  BY <1>1, <1>3, <1>6 DEF StartRun, P!Process, P!driver, NodesOk, Kept
<1>7. CASE CloseRun
  BY <1>1, <1>3, <1>7 DEF CloseRun, P!Close, NodesOk, Kept
<1>8. CASE InRun
  <2>1. CASE \/ P!ResolveFails \/ P!StartFails \/ P!InstantiateNodes \/ P!InstantiateFails
             \/ P!NodeReturns \/ P!NodeRaises \/ P!PrepareFails \/ P!Interrupt
             \/ P!ProcessorExits \/ P!ReportFails
             \/ P!ReportErrorFails \/ P!Publish \/ P!PublishFails \/ P!EndFails \/ P!CloseFails
    BY <1>1, <1>3, <2>1
       DEF P!ResolveFails, P!StartFails, P!InstantiateNodes, P!InstantiateFails, P!NodeReturns,
           P!NodeRaises, P!PrepareFails, P!Interrupt, P!ProcessorExits, P!ReportFails,
           P!ReportErrorFails,
           P!Publish, P!PublishFails, P!EndFails, P!CloseFails, P!Goto, P!Escape, P!driver,
           NodesOk, Kept
  <2>2. CASE P!PipelineStart
    <3>1. \E rec : log' = Append(log, rec) /\ rec.kind = "start"
      BY <2>2 DEF P!PipelineStart, P!WriteLifecycle, P!Record
    <3> QED
      BY <1>2, <2>2, <3>1 DEF P!PipelineStart, NodesOk, Kept
  <2>3. CASE P!Report \/ P!ReportError
    <3>1. \E rec : log' = Append(log, rec) /\ rec.node = at
      BY <2>3 DEF P!Report, P!ReportError, P!WriteSer, P!Record
    <3>2. at >= 1 /\ at' = at
      BY <1>1, <2>3 DEF P!Report, P!ReportError, P!Goto, NodesOk
    <3> QED
      BY <1>2, <3>1, <3>2 DEF NodesOk, Kept
  <2>4. CASE P!EndOk \/ P!EndError
    <3>1. \E rec : log' = Append(log, rec) /\ rec.kind = "end"
      BY <2>4 DEF P!EndOk, P!EndError, P!WriteLifecycle, P!Record
    <3> QED
      BY <1>2, <2>4, <3>1 DEF P!EndOk, P!EndError, P!Goto, NodesOk, Kept
  <2> QED
    BY <1>8, <2>1, <2>2, <2>3, <2>4 DEF InRun, P!Running
<1> QED
  BY <1>4, <1>5, <1>6, <1>7, <1>8, ByKind DEF Drives

LEMMA IdentityStep ==
    ASSUME LaunchInv, [NextLaunch]_launchVars, ~Collect
    PROVE  IdentityOk'
<1>1. IdentityOk /\ edition \in 0 .. (MaxEdits + 1)
  BY DEF LaunchInv, LaunchTypeOK
<1> USE <1>1 DEF IdentityOk, Begun
<1>2. CASE Identify /\ step' = "start"
  <2>1. KeyedId(conf, edition) = MaxInvocations + 2 + (IF HasSource(conf) THEN edition - 1 ELSE 0)
    BY DEF KeyedId
  <2>2. Identified(conf, launch, edition)'
    BY <1>2, <2>1, LaunchIdentity DEF Identified, LaunchId, KeyedId, HasSource, conf
  <2>3. runs = RunsAt(conf, expansion.read) /\ expansion.read \in 0 .. (MaxEdits + 1)
    BY <1>2 DEF Identify
  <2> QED
    BY <1>2, <2>2, <2>3, LaunchIdentity DEF conf, runs
<1>3. CASE ExpandRuns
  <2>1. step = "expand" /\ launch' = launch /\ launch = NoLaunch /\ UNCHANGED <<plan, inv, edition>>
    BY <1>3 DEF ExpandRuns, source
  <2>2. PICK result \in {IF edition = Gone /\ HasSource(conf) THEN Error("missing")
                         ELSE ExpandRunSpace(RunSpaceOf(conf))} :
          expansion' = [error |-> result.error, runs |-> result.runs, read |-> edition]
    BY <1>3 DEF ExpandRuns
  <2>3. result.runs = RunsAt(conf, edition)
    BY <2>2 DEF RunsAt, SpecAt, RunSpaceOf, Error
  <2>4. expansion'.runs = result.runs /\ expansion'.read = edition
    BY <2>2
  <2> QED
    BY <2>1, <2>3, <2>4 DEF conf, runs
<1>4. CASE Prepares /\ ~ExpandRuns /\ ~EmitStartFails /\ step' # "start"
  <2>1. UNCHANGED <<plan, inv, expansion, launch, edition>> /\ launch = NoLaunch
        /\ (step' = "identify" => step = "preflight")
    BY <1>4, PreparesFacts, PlainFacts
       DEF Prepares, Plain, Load, BuildComponents, Preflight, Identify, Leave, Early
  <2> QED
    BY <1>4, <2>1, PreparesFacts DEF conf, runs
<1>5. CASE EmitStartFails
  <2>1. step = "start" /\ step' = "exited" /\ UNCHANGED <<plan, inv, expansion, launch, edition>>
    BY <1>5 DEF EmitStartFails, Leave, source
  <2> QED
    BY <2>1 DEF conf, runs
<1>6. CASE Edit
  <2>1. step' = step /\ step \in {"expand", "preflight", "identify"}
        /\ UNCHANGED <<plan, inv, launch, expansion>> /\ launch = NoLaunch
    BY <1>6 DEF Edit, cli
  <2> QED
    BY <2>1 DEF conf, runs
<1>7. CASE Emits \/ Drives \/ AfterRun \/ InterruptLoop \/ EndLoop \/ Ends \/ Kill
           \/ UNCHANGED launchVars
  <2>1. UNCHANGED <<plan, inv, launch, expansion, edition>>
    BY <1>7, EmitsFacts, DrivesFacts, PlainFacts
       DEF Plain, AfterRun, InterruptLoop, EndLoop, Ends, EmitEndFails, Exit, Kill, launchVars, cli,
           source
  <2>2. CASE Emits \/ Drives \/ Ends
    <3>1. step' \in Begun /\ step \in Begun \union {"start"}
      BY <2>2, EmitsFacts, DrivesFacts, EndsFacts
    <3> QED
      BY <2>1, <3>1 DEF conf, runs
  <2>3. CASE AfterRun \/ InterruptLoop \/ EndLoop \/ Kill
    <3>1. step' \in Begun /\ step \in Begun
      BY <2>3 DEF AfterRun, InterruptLoop, Raised, EndLoop, Kill
    <3> QED
      BY <2>1, <3>1 DEF conf, runs
  <2>4. CASE UNCHANGED launchVars
    BY <2>1, <2>4 DEF conf, runs, launchVars, cli
  <2> QED
    BY <1>7, <2>2, <2>3, <2>4
<1>8. Prepares => ExpandRuns \/ EmitStartFails \/ (Identify /\ step' = "start")
                  \/ (Prepares /\ ~ExpandRuns /\ ~EmitStartFails /\ step' # "start")
  BY PreparesFacts
<1>9. Prepares \/ Emits \/ Drives \/ AfterRun \/ InterruptLoop \/ EndLoop \/ Ends \/ Kill \/ Edit
      \/ UNCHANGED launchVars
  BY ByStep DEF Emits, Drives
<1> QED
  BY <1>2, <1>3, <1>4, <1>5, <1>6, <1>7, <1>8, <1>9

LEMMA ExitsStep ==
    ASSUME LaunchInv, [NextLaunch]_launchVars, ~Collect
    PROVE  ExitsOk'
<1>1. UNCHANGED <<plan, exits>>
  BY ByKind, PlainFacts, EmitsFacts, DrivesFacts DEF launchVars, cli, history
<1> QED
  BY <1>1 DEF LaunchInv, ExitsOk

\* What is sure to be on disk has been written.
LEMMA DurableStep ==
    ASSUME LaunchInv, [NextLaunch]_launchVars, ~Collect
    PROVE  durable'.main \in 0 .. Len(log') /\ durable'.rs \in 0 .. Len(rslog') /\ Len(rslog') <= 2
<1>1. /\ PR!TypeOK /\ durable.main \in 0 .. Len(log) /\ durable.rs \in 0 .. Len(rslog)
      /\ Len(rslog) \in Nat /\ Len(log) \in Nat /\ Len(rslog) <= 2 /\ RsOk
  BY RunNumbers DEF LaunchInv, LaunchTypeOK, PR!TypeOK
<1>2. CASE Prepares
  BY <1>1, <1>2, PreparesFacts, StillFacts DEF Plain, Prepares
<1>3. CASE Ends
  BY <1>1, <1>3, EndsFacts, StillFacts DEF Plain, Ends
<1>4. CASE Emits
  <2>1. UNCHANGED <<durable, log>> /\ (step = "start" \/ step = "end")
    BY <1>4, EmitsFacts
  <2>2. \E rec : rslog' = Append(rslog, rec)
    BY <1>4 DEF Emits, EmitStart, EmitEnd
  <2>3. rslog = <<>> \/ rslog = <<StartRecord>>
    BY <1>1, <2>1 DEF RsOk, Early
  <2>4. Len(rslog') = Len(rslog) + 1 /\ Len(rslog) <= 1
    <3>1. PICK rec : rslog' = Append(rslog, rec)
      BY <2>2
    <3>2. CASE rslog = <<>>
      BY <3>1, <3>2
    <3>3. CASE rslog = <<StartRecord>>
      <4>1. rslog' = <<StartRecord, rec>>
        BY <3>1, <3>3, TwoRecords
      <4> QED
        BY <3>3, <4>1
    <3> QED
      BY <2>3, <3>2, <3>3
  <2> QED
    BY <1>1, <2>1, <2>4
<1>5. CASE Stage \/ StartRun \/ InRun
  <2>1. UNCHANGED <<durable, rslog>> /\ (log' = log \/ \E rec : log' = Append(log, rec))
    BY <1>1, <1>5, StageFacts, StartFacts, InRunFacts, DrivesFacts DEF Drives
  <2>2. Len(log') \in Nat /\ Len(log') >= Len(log)
    BY <1>1, <2>1 DEF PR!TypeOK
  <2> QED
    BY <1>1, <2>1, <2>2
<1>6. CASE CloseRun
  BY <1>1, <1>6, CloseFacts, DrivesFacts DEF Drives
<1>7. CASE AfterRun \/ InterruptLoop \/ EndLoop \/ Edit
  BY <1>1, <1>7, StillFacts, PlainFacts
     DEF Plain, AfterRun, InterruptLoop, Raised, EndLoop, Edit, rstrace
<1>8. CASE Kill
  BY <1>1, <1>8, StillFacts, PlainFacts DEF Plain, Kill
<1>9. CASE UNCHANGED launchVars
  BY <1>1, <1>9, StillFacts DEF launchVars, rstrace
<1> QED
  BY <1>2, <1>3, <1>4, <1>5, <1>6, <1>7, <1>8, <1>9, ByStep DEF Emits

LEMMA LaunchTypeStep ==
    ASSUME LaunchInv, [NextLaunch]_launchVars, ~Collect
    PROVE  LaunchTypeOK'
<1>1. /\ plan \in DOMAIN Plans /\ inv \in DOMAIN Plans[plan] /\ step \in Steps /\ code \in Codes
      /\ edition \in 0 .. (MaxEdits + 1) /\ edits \in 0 .. MaxEdits
      /\ launch \in LaunchKeys \union {NoLaunch}
      /\ completed \in 0 .. MaxRuns /\ rsopen \in BOOLEAN /\ PR!TypeOK /\ RsOk /\ CountOk
      /\ run \in 0 .. MaxRuns
  BY RunNumbers DEF LaunchInv, LaunchTypeOK
<1>2. P!TypeOK'
  <2>1. PR!TypeOK'
    BY RunStep DEF RunOk, Pipeline
  <2> QED
    BY <2>1 DEF P!TypeOK, PR!TypeOK, P!Records, PR!Records, P!Runs, PR!Runs, P!NoFile,
                PR!NoFile, P!Causes, PR!Causes
<1>3. plan' \in DOMAIN Plans /\ inv' \in DOMAIN Plans[plan']
  BY <1>1, ByKind, PlainFacts, EmitsFacts, DrivesFacts DEF launchVars, cli
<1>4. step' \in Steps
  BY <1>1, ByKind, EmitsFacts, DrivesFacts
     DEF Steps, Plain, Load, BuildComponents, ExpandRuns, Preflight, Identify, EmitStartFails,
         AfterRun, InterruptLoop, Raised, EndLoop, EmitEndFails, Exit, Kill, Edit, Leave,
         launchVars, cli
<1>5. code' \in Codes
  BY <1>1, ByKind, EmitsFacts, DrivesFacts
     DEF Codes, Plain, Load, BuildComponents, ExpandRuns, Preflight, Identify, EmitStartFails,
         AfterRun, InterruptLoop, Raised, EndLoop, EmitEndFails, Exit, Kill, Edit, Leave,
         launchVars, cli
<1>6. edition' \in 0 .. (MaxEdits + 1) /\ edits' \in 0 .. MaxEdits
  <2>1. CASE Edit
    BY <1>1, <2>1, Assumed DEF Edit, Gone
  <2> QED
    BY <1>1, <2>1, ByKind, PlainFacts, EmitsFacts, DrivesFacts DEF launchVars, source
<1>7. launch' \in LaunchKeys \union {NoLaunch}
  <2>1. CASE Prepares
    BY <1>1, <2>1, PreparesFacts, LaunchIdentity
  <2>2. UNCHANGED launch \/ Prepares
    BY ByKind, PlainFacts, EmitsFacts, DrivesFacts DEF launchVars, cli, Prepares
  <2> QED
    BY <1>1, <2>1, <2>2
<1>8. completed' \in 0 .. MaxRuns
  <2>1. CASE AfterRun
    BY <1>1, <2>1, Assumed DEF AfterRun, CountOk
  <2> QED
    BY <1>1, <2>1, ByKind, PlainFacts, EmitsFacts, DrivesFacts DEF launchVars, cli
<1>9. rsopen' \in BOOLEAN
  <2>1. CASE Emits \/ CloseRun
    BY <2>1 DEF Emits, EmitStart, EmitEnd, OpenRunSpaceFile, CloseRun
  <2> QED
    BY <1>1, <2>1, ByKind, PlainFacts, DrivesFacts DEF launchVars, rstrace
<1> QED
  BY <1>2, <1>3, <1>4, <1>5, <1>6, <1>7, <1>8, <1>9, DurableStep DEF LaunchTypeOK

-----------------------------------------------------------------------------
(* The first state of an invocation                                        *)

Fresh == /\ step \in {"load", "read"} /\ launch = NoLaunch /\ completed = 0 /\ code = "success"
         /\ rsopen = FALSE /\ rslog = <<>> /\ durable = [main |-> 0, rs |-> 0]
         /\ P!Init

\* All of LaunchInv that does not speak of the plan, the source and the history.
FreshInv ==
    /\ RunOk /\ RestOk /\ CountOk /\ RsOk /\ FinishOk /\ FlushedOk /\ AttributedOk /\ NodesOk
    /\ IdentityOk
    /\ step \in Steps /\ code \in Codes /\ launch \in LaunchKeys \union {NoLaunch}
    /\ completed \in 0 .. MaxRuns /\ rsopen \in BOOLEAN /\ Len(rslog) <= 2
    /\ durable.main \in 0 .. Len(log) /\ durable.rs \in 0 .. Len(rslog) /\ P!TypeOK

LEMMA FreshOk == Fresh => FreshInv
<1> SUFFICES ASSUME Fresh PROVE FreshInv
  OBVIOUS
<1>1. PR!Init
  BY DEF Fresh, P!Init, PR!Init, P!Runs, PR!Runs, P!NoFile, PR!NoFile
<1>2. PR!IInv
  BY <1>1, Assumed, PR!InitInv
<1>3. RunOk
  BY <1>2 DEF PR!IInv, RunOk, Pipeline
<1>4. P!TypeOK
  BY <1>3, SameTypes DEF RunOk, Pipeline
<1>5. run = 0 /\ log = <<>> /\ file = P!NoFile /\ pc = "idle"
  BY DEF Fresh, P!Init
<1> USE <1>5, Assumed DEF Fresh
<1>6. RestOk /\ RsOk /\ FinishOk /\ FlushedOk /\ NodesOk
  BY DEF RestOk, RsOk, FinishOk, FlushedOk, NodesOk, Early, Begun
<1>7. CountOk /\ AttributedOk /\ IdentityOk
  BY DEF CountOk, AttributedOk, IdentityOk
<1>8. /\ step \in Steps /\ code \in Codes /\ launch \in LaunchKeys \union {NoLaunch}
      /\ completed \in 0 .. MaxRuns /\ rsopen \in BOOLEAN /\ Len(rslog) <= 2
      /\ durable.main \in 0 .. Len(log) /\ durable.rs \in 0 .. Len(rslog)
  <2>1. Len(rslog) = 0 /\ Len(log) = 0 /\ durable.main = 0 /\ durable.rs = 0
    OBVIOUS
  <2>2. step \in Steps /\ code \in Codes
    BY DEF Steps, Codes
  <2>3. completed \in 0 .. MaxRuns
    OBVIOUS
  <2>4. rsopen \in BOOLEAN
    OBVIOUS
  <2> QED
    BY <2>1, <2>2, <2>3, <2>4
<1> QED
  BY <1>3, <1>4, <1>6, <1>7, <1>8 DEF FreshInv

LEMMA FreshNext == Fresh' => FreshInv'
  BY FreshOk, PTL

LEMMA InitInv == InitLaunch => LaunchInv
<1> SUFFICES ASSUME InitLaunch PROVE LaunchInv
  OBVIOUS
<1>1. FreshInv
  BY FreshOk DEF Fresh, InitLaunch, Started
<1>2. plan \in DOMAIN Plans /\ inv \in DOMAIN Plans[plan]
      /\ edition \in 0 .. (MaxEdits + 1) /\ edits \in 0 .. MaxEdits
  BY Assumed, RunSpaceLaunchAssumption DEF InitLaunch, RunSpaceLaunchAssumption
<1>3. ExitsOk
  BY DEF InitLaunch, ExitsOk
<1> QED
  BY <1>1, <1>2, <1>3 DEF FreshInv, LaunchInv, LaunchTypeOK

\* A sequence of whatever it holds, and one element more.
LEMMA SelfTyped ==
    ASSUME NEW s, s \in Seq({s[i] : i \in DOMAIN s}), NEW x, NEW t, t = Append(s, x)
    PROVE  /\ t \in Seq({t[i] : i \in DOMAIN t})
           /\ DOMAIN s = 1 .. Len(s) /\ Len(s) \in Nat
           /\ DOMAIN t = 1 .. (Len(s) + 1)
           /\ \A i \in 1 .. Len(s) : t[i] = s[i]
           /\ t[Len(s) + 1] = x
<1> DEFINE S == {s[i] : i \in DOMAIN s} T == S \union {x}
<1>1. s \in Seq(T)
  BY SeqMonotonic
<1> HIDE DEF S, T
<1>2. x \in T
  BY DEF T
<1>3. /\ t \in Seq(T) /\ Len(t) = Len(s) + 1 /\ DOMAIN t = 1 .. (Len(s) + 1)
      /\ DOMAIN s = 1 .. Len(s) /\ Len(s) \in Nat
      /\ \A i \in 1 .. Len(s) : t[i] = s[i]
      /\ t[Len(s) + 1] = x
  BY <1>1, <1>2
<1>4. t \in [1 .. Len(t) -> {t[i] : i \in DOMAIN t}]
  <2>1. t \in [1 .. Len(t) -> T]
    BY <1>3, LenProperties
  <2> QED
    BY <1>3, <2>1
<1>5. t \in Seq({t[i] : i \in DOMAIN t})
  <2> DEFINE V == {t[i] : i \in DOMAIN t}
  <2>1. t \in [1 .. Len(t) -> V] /\ Len(t) \in Nat
    BY <1>3, <1>4
  <2> HIDE DEF V
  <2>2. t \in UNION {[1 .. n -> V] : n \in Nat}
    BY <2>1
  <2>3. t \in Seq(V)
    BY <2>2, SeqDef, Zenon
  <2> QED
    BY <2>3 DEF V
<1> QED
  BY <1>3, <1>5

\* What an invocation leaves in the history when it is collected.
LEMMA CollectStep ==
    ASSUME LaunchInv, Collect
    PROVE  LaunchInv'
<1> DEFINE e == [code |-> code, launch |-> launch, runs |-> runs,
                 keyed |-> conf.keyed /\ ~conf.provided,
                 read |-> expansion.read, fingerprinted |-> edition, begun |-> run]
<1>1. Fresh'
  BY DEF Collect, Fresh, P!Init
<1>2. FreshInv'
  BY <1>1, FreshNext
<1>3. /\ plan' \in DOMAIN Plans /\ inv' \in DOMAIN Plans[plan']
      /\ edition' \in 0 .. (MaxEdits + 1) /\ edits' \in 0 .. MaxEdits
  BY RunSpaceLaunchAssumption
     DEF LaunchInv, LaunchTypeOK, Collect, source, RunSpaceLaunchAssumption
<1>4. exits' = Append(exits, e) /\ plan' = plan
  BY DEF Collect
<1>5. \E k \in DOMAIN Plans[plan] :
        LET c == Plans[plan][k] IN
        /\ e.keyed <=> c.keyed /\ ~c.provided
        /\ e.fingerprinted \in 0 .. (MaxEdits + 1)
        /\ e.launch # NoLaunch =>
             /\ Identified(c, e.launch, e.fingerprinted)
             /\ e.runs = RunsAt(c, e.read) /\ e.read \in 0 .. (MaxEdits + 1)
  <2>1. /\ e.keyed <=> conf.keyed /\ ~conf.provided
        /\ e.launch = launch /\ e.runs = runs /\ e.read = expansion.read /\ e.fingerprinted = edition
    OBVIOUS
  <2>2. inv \in DOMAIN Plans[plan] /\ conf = Plans[plan][inv] /\ edition \in 0 .. (MaxEdits + 1)
    BY DEF LaunchInv, LaunchTypeOK, conf
  <2>3. launch # NoLaunch => /\ Identified(conf, launch, edition)
                             /\ runs = RunsAt(conf, expansion.read)
                             /\ expansion.read \in 0 .. (MaxEdits + 1)
    BY DEF LaunchInv, IdentityOk
  <2> HIDE DEF e
  <2> QED
    BY <2>1, <2>2, <2>3
<1>6. exits \in Seq({exits[i] : i \in DOMAIN exits})
  BY DEF LaunchInv, ExitsOk
<1> HIDE DEF e
<1>7. ExitsOk'
  <2>1. /\ exits' \in Seq({exits'[i] : i \in DOMAIN exits'})
        /\ DOMAIN exits = 1 .. Len(exits) /\ Len(exits) \in Nat
        /\ DOMAIN exits' = 1 .. (Len(exits) + 1)
        /\ \A i \in 1 .. Len(exits) : exits'[i] = exits[i]
        /\ exits'[Len(exits) + 1] = e
    BY <1>4, <1>6, SelfTyped
  <2>2. ASSUME NEW i \in DOMAIN exits'
        PROVE  \E k \in DOMAIN Plans[plan] :
                 LET c == Plans[plan][k] d == exits'[i] IN
                 /\ d.keyed <=> c.keyed /\ ~c.provided
                 /\ d.fingerprinted \in 0 .. (MaxEdits + 1)
                 /\ d.launch # NoLaunch =>
                      /\ Identified(c, d.launch, d.fingerprinted)
                      /\ d.runs = RunsAt(c, d.read) /\ d.read \in 0 .. (MaxEdits + 1)
    <3>1. CASE i = Len(exits) + 1
      BY <1>5, <2>1, <3>1
    <3>2. CASE i \in DOMAIN exits
      BY <2>1, <3>2 DEF LaunchInv, ExitsOk
    <3> QED
      BY <2>1, <3>1, <3>2
  <2> QED
    BY <1>4, <2>1, <2>2 DEF ExitsOk
<1> QED
  BY <1>2, <1>3, <1>7 DEF FreshInv, LaunchInv, LaunchTypeOK

-----------------------------------------------------------------------------
(* The theorems *)

LEMMA NextInv == LaunchInv /\ [NextLaunch]_launchVars => LaunchInv'
<1> SUFFICES ASSUME LaunchInv, [NextLaunch]_launchVars PROVE LaunchInv'
  OBVIOUS
<1>1. CASE ~Collect
  BY <1>1, LaunchTypeStep, RunStep, RestStep, CountStep, RsStep, FinishStep, FlushedStep,
     AttributedStep,
     NodesStep, IdentityStep, ExitsStep DEF LaunchInv
<1> QED
  BY <1>1, CollectStep

\* What every reachable state of a launch has in common.
THEOREM Invariant == LaunchSpec => []LaunchInv
  BY InitInv, NextInv, PTL DEF LaunchSpec

\* The state of the command line keeps its types: attempts are positive, an identity is one of
\* those the plan and the edits allow, and no more is sure to be on disk than was written.
THEOREM LaunchTypeCorrect == LaunchSpec => []LaunchTypeOK
<1>1. LaunchInv => LaunchTypeOK
  BY DEF LaunchInv
<1> QED
  BY <1>1, Invariant, PTL

\* Every run of a launch carries the identity of that launch and its own index in the trace,
\* whatever runs and failures came before it (the loop of _run and set_run_metadata).
THEOREM Attribution == LaunchSpec => []RunsAttributed
<1>1. LaunchInv => RunsAttributed
  BY DEF LaunchInv, AttributedOk, RunsAttributed
<1> QED
  BY <1>1, Invariant, PTL

\* The run-space records when there is an end: two, and the end counts the completed runs.
LEMMA EndSeen ==
    ASSUME LaunchInv, NEW i \in DOMAIN rslog, rslog[i].kind = "launchEnd"
    PROVE  /\ step \in {"exit", "exited"} /\ Len(rslog) = 2 /\ rslog[i].completed = completed
           /\ Names(rslog[i].status)
<1>1. step \in Steps /\ RsOk /\ CountOk
  BY DEF LaunchInv, LaunchTypeOK
<1>2. StartRecord.kind # "launchEnd"
  BY DEF StartRecord, RsRecord
<1>3. \A status : EndRecord(status).completed = completed /\ EndRecord(status).status = status
  BY DEF EndRecord, RsRecord
<1>4. \A status : rslog = <<StartRecord, EndRecord(status)>> =>
        Len(rslog) = 2 /\ i = 2 /\ rslog[i] = EndRecord(status)
  BY <1>2
<1>5. rslog # <<>> /\ rslog # <<StartRecord>>
  BY <1>2
<1>6. step \in {"exit", "exited"}
  BY <1>1, <1>5 DEF RsOk, Steps, Early
<1>7. \E status : rslog = <<StartRecord, EndRecord(status)>> /\ Names(status)
  <2>1. CASE step = "exit"
    BY <1>1, <2>1 DEF RsOk, CountOk, Status, Names
  <2>2. CASE step = "exited"
    BY <1>1, <1>5, <2>2 DEF RsOk
  <2> QED
    BY <1>6, <2>1, <2>2
<1> QED
  BY <1>3, <1>4, <1>6, <1>7

\* The summary that run_space_end gives counts no run that did not return, the trace calls every
\* counted run ok and at most one more; the count is exact when it says "failed"; and it names no
\* failure only if every planned run returned or an exception that no handler took is leaving.
THEOREM HonestSummary == LaunchSpec => []SummaryHonest
<1>1. LaunchInv => SummaryHonest
  <2> SUFFICES ASSUME LaunchInv, NEW i \in DOMAIN rslog, rslog[i].kind = "launchEnd"
               PROVE  LET done == rslog[i].completed
                          status == rslog[i].status
                      IN  /\ \A r \in 1 .. run : r <= done => Succeeded(r)
                          /\ \A r \in 1 .. run : Succeeded(r) =>
                               r <= done \/ (r = done + 1 /\ status # "failed")
                          /\ 1 .. done \subseteq OkEnds /\ Cardinality(OkEnds) <= done + 1
                          /\ status = "-" => done = Len(runs) \/ code \in {"escaped", "killed"}
                          /\ code # "killed" => (status = "-" <=> code \in {"success", "escaped"})
    BY DEF SummaryHonest
  <2>1. run \in 0 .. MaxRuns /\ completed \in 0 .. MaxRuns /\ MaxRuns \in Nat /\ PR!TypeOK
    BY RunNumbers, Assumed
  <2>2. completed <= run /\ run <= completed + 1 /\ \A r \in 1 .. completed : Succeeded(r)
    BY DEF LaunchInv, CountOk
  <2>3. rslog[i].completed = completed /\ Names(rslog[i].status)
    BY EndSeen
  <2>4. /\ \A r \in 1 .. run : r <= completed => Succeeded(r)
        /\ \A r \in 1 .. run : Succeeded(r) =>
             r <= completed \/ (r = completed + 1 /\ rslog[i].status # "failed")
    BY <2>1, <2>2, <2>3 DEF Names, Exact
  <2>5. 1 .. completed \subseteq OkEnds
    BY <2>1, <2>2, Assumed
       DEF LaunchInv, RunOk, Pipeline, PR!OkMeansComplete, PR!End, OkEnds, Succeeded
  <2>6. OkEnds \subseteq 1 .. run
    BY <2>1, Assumed, PR!Fields
       DEF LaunchInv, RunOk, Pipeline, PR!FilesOk, OkEnds
  <2>7. Cardinality(OkEnds) <= run
    <3>1. IsFiniteSet(1 .. run) /\ Cardinality(1 .. run) = run
      BY <2>1, FS_Interval
    <3> QED
      BY <2>6, <3>1, FS_Subset
  <2>8. Cardinality(OkEnds) \in Nat
    <3>1. IsFiniteSet(1 .. run)
      BY <2>1, FS_Interval
    <3> QED
      BY <2>6, <3>1, FS_Subset, FS_CardinalityType
  <2> QED
    BY <2>1, <2>2, <2>3, <2>4, <2>5, <2>7, <2>8 DEF Names
<1> QED
  BY <1>1, Invariant, PTL

\* A launch that wrote its start writes its end, unless its driver raised or it was killed; and
\* on disk an end, or a record of a second run, has the start of its launch before it.
THEOREM PairedEdges == LaunchSpec => []EdgesPaired
<1>1. LaunchInv => EdgesPaired
  <2> SUFFICES ASSUME LaunchInv, step = "exited" PROVE EdgesPaired
    BY DEF EdgesPaired
  <2>1. StartRecord.kind = "launchStart" /\ \A status : EndRecord(status).kind = "launchEnd"
    BY DEF StartRecord, EndRecord, RsRecord
  <2>2. \/ rslog = <<>>
        \/ rslog = <<StartRecord>> /\ code \in {"killed", "crash"}
        \/ \E status : rslog = <<StartRecord, EndRecord(status)>>
    BY DEF LaunchInv, RsOk
  <2>3. code \notin {"killed", "crash"} /\ rslog # <<>> => Len(rslog) = 2 /\ rslog[2].kind = "launchEnd"
    BY <2>1, <2>2
  <2>4. Len(rslog) = 2 => rslog[1].kind = "launchStart"
    BY <2>1, <2>2
  <2>5. durable.main \in 0 .. Len(log) /\ durable.rs \in 0 .. Len(rslog) /\ Len(rslog) <= 2
        /\ run \in 0 .. MaxRuns /\ completed \in 0 .. MaxRuns /\ MaxRuns \in Nat /\ PR!TypeOK
        /\ Len(rslog) \in Nat
    BY RunNumbers, Assumed DEF LaunchInv, LaunchTypeOK
  <2>6. ASSUME NEW i \in 1 .. durable.main, log[i].run > 1 PROVE durable.rs >= 1
    <3>1. i \in DOMAIN log /\ log[i].run \in Nat /\ log[i].run <= run
      BY <2>5, Assumed, PR!Fields DEF PR!TypeOK, LaunchInv, RunOk, Pipeline, PR!FilesOk
    <3>2. completed >= 1
      BY <2>5, <2>6, <3>1 DEF LaunchInv, CountOk
    <3>3. Succeeded(1) /\ 1 \in 1 .. run
      BY <2>5, <2>6, <3>1, <3>2 DEF LaunchInv, CountOk
    <3> QED
      BY <3>3 DEF LaunchInv, FlushedOk, Begun
  <2>7. durable.rs = 2 => rslog[1].kind = "launchStart"
    <3>1. ASSUME durable.rs = 2 PROVE Len(rslog) = 2
      <4>1. durable.rs \in Nat /\ durable.rs <= Len(rslog) /\ Len(rslog) <= 2 /\ Len(rslog) \in Nat
        BY <2>5
      <4>2. \A a, n \in Nat : a = 2 /\ a <= n /\ n <= 2 => n = 2
        OBVIOUS
      <4> QED
        BY <3>1, <4>1, <4>2
    <3> QED
      BY <2>4, <3>1
  <2> QED
    BY <2>3, <2>6, <2>7 DEF EdgesPaired
<1> QED
  BY <1>1, Invariant, PTL

LEMMA MinWithOne == ASSUME NEW e \in Nat, e # 0 PROVE Min({e, 1}) = 1
<1>1. \E x \in {e, 1} : \A y \in {e, 1} : x <= y
  OBVIOUS
<1>2. Min({e, 1}) \in {e, 1} /\ \A y \in {e, 1} : Min({e, 1}) <= y
  BY <1>1, Zenon DEF Min
<1> QED
  BY <1>2

\* With an idempotency key the identity of a launch stands for its runs, unless the source was
\* edited between the expansion and the fingerprint (create_launch, collect_fingerprints).
THEOREM SameIdentity == LaunchSpec => []SameIdSameRuns
<1>1. LaunchInv => SameIdSameRuns
  <2> SUFFICES ASSUME LaunchInv, NEW i \in DOMAIN exits, NEW j \in DOMAIN exits,
                      exits[i].launch[1] = exits[j].launch[1], exits[i].launch # NoLaunch,
                      exits[i].keyed, exits[j].keyed,
                      \A k \in {i, j} : exits[k].read = exits[k].fingerprinted
               PROVE  exits[i].runs = exits[j].runs
    BY DEF SameIdSameRuns
  <2>1. plan \in DOMAIN Plans
    BY DEF LaunchInv, LaunchTypeOK
  <2> DEFINE Explains(k, e) ==
               LET c == Plans[plan][k] IN
               /\ e.keyed <=> c.keyed /\ ~c.provided
               /\ e.fingerprinted \in 0 .. (MaxEdits + 1)
               /\ e.launch # NoLaunch =>
                    /\ Identified(c, e.launch, e.fingerprinted)
                    /\ e.runs = RunsAt(c, e.read) /\ e.read \in 0 .. (MaxEdits + 1)
  <2>2. PICK m \in DOMAIN Plans[plan] : Explains(m, exits[i])
    BY DEF LaunchInv, ExitsOk
  <2>3. PICK n \in DOMAIN Plans[plan] : Explains(n, exits[j])
    BY DEF LaunchInv, ExitsOk
  <2> DEFINE c == Plans[plan][m] d == Plans[plan][n]
  <2>4. c.keyed /\ ~c.provided /\ d.keyed /\ ~d.provided
    BY <2>2, <2>3
  <2>5. /\ c.specs = d.specs
        /\ ~HasSource(c) => Len(c.specs) = 1
    BY <2>1, <2>4, RunSpaceLaunchAssumption DEF RunSpaceLaunchAssumption
  <2>6. HasSource(c) <=> HasSource(d)
    BY <2>5 DEF HasSource
  <2>7. /\ exits[i].launch[1] = KeyedId(c, exits[i].fingerprinted)
        /\ HasSource(c) => exits[i].fingerprinted # Gone
        /\ exits[i].fingerprinted \in 0 .. (MaxEdits + 1)
        /\ exits[i].runs = RunsAt(c, exits[i].fingerprinted)
    BY <2>2, <2>4 DEF Identified
  <2>8. exits[i].launch[1] # 0
    BY <2>7, Assumed DEF KeyedId, Gone
  <2>9. exits[j].launch # NoLaunch
    BY <2>8 DEF NoLaunch
  <2>10. /\ exits[j].launch[1] = KeyedId(d, exits[j].fingerprinted)
         /\ HasSource(d) => exits[j].fingerprinted # Gone
         /\ exits[j].fingerprinted \in 0 .. (MaxEdits + 1)
         /\ exits[j].runs = RunsAt(d, exits[j].fingerprinted)
    BY <2>3, <2>4, <2>9 DEF Identified
  <2> HIDE DEF c, d
  <2>11. CASE HasSource(c)
    <3>1. exits[i].fingerprinted = exits[j].fingerprinted
      <4>1. \A e \in 0 .. (MaxEdits + 1) :
              KeyedId(c, e) = MaxInvocations + 2 + (e - 1) /\ KeyedId(d, e) = MaxInvocations + 2 + (e - 1)
        BY <2>6, <2>11, Assumed DEF KeyedId
      <4>2. MaxInvocations \in Nat /\ \A e \in 0 .. (MaxEdits + 1) : e \in Int
        BY Assumed
      <4>3. /\ exits[i].launch[1] = MaxInvocations + 2 + (exits[i].fingerprinted - 1)
            /\ exits[j].launch[1] = MaxInvocations + 2 + (exits[j].fingerprinted - 1)
        BY <2>7, <2>10, <4>1
      <4>4. exits[i].fingerprinted \in Int /\ exits[j].fingerprinted \in Int
        BY <2>7, <2>10, <4>2
      <4>5. MaxInvocations + 2 + (exits[i].fingerprinted - 1)
              = MaxInvocations + 2 + (exits[j].fingerprinted - 1)
        BY <4>3
      <4> QED
        BY <4>2, <4>4, <4>5
    <3>2. \A e : RunsAt(c, e) = RunsAt(d, e)
      BY <2>5, <2>6 DEF RunsAt, SpecAt
    <3> QED
      BY <2>7, <2>10, <3>1, <3>2
  <2>12. CASE ~HasSource(c)
    <3>1. \A e \in Nat : RunsAt(c, e) = ExpandRunSpace(c.specs[1]).runs
                         /\ RunsAt(d, e) = ExpandRunSpace(c.specs[1]).runs
      <4> SUFFICES ASSUME NEW e \in Nat
                   PROVE  RunsAt(c, e) = ExpandRunSpace(c.specs[1]).runs
                          /\ RunsAt(d, e) = ExpandRunSpace(c.specs[1]).runs
        OBVIOUS
      <4>1. e # Gone => Min({e, Len(c.specs)}) = 1
        BY <2>5, <2>12, MinWithOne DEF Gone
      <4> QED
        BY <2>5, <2>6, <2>12, <4>1 DEF RunsAt, SpecAt
    <3>2. exits[i].fingerprinted \in Nat /\ exits[j].fingerprinted \in Nat
      BY <2>7, <2>10, Assumed
    <3> QED
      BY <2>7, <2>10, <3>1, <3>2
  <2> QED
    BY <2>11, <2>12
<1> QED
  BY <1>1, Invariant, PTL

-----------------------------------------------------------------------------
(* What an expansion gives: runs that all have the same keys, as many as   *)
(* were announced                                                          *)

LEMMA ListShape ==
    ASSUME NEW s, IsList(s)
    PROVE  Len(s) \in Nat /\ DOMAIN s = 1 .. Len(s)
BY DEF IsList

LEMMA ListOf ==
    ASSUME NEW n \in Nat, NEW s, s = [i \in 1 .. n |-> s[i]]
    PROVE  IsList(s) /\ Len(s) = n
<1> s \in [1 .. n -> Range(s)]
  BY DEF Range
<1> QED
  BY DEF IsList

LEMMA OneLonger ==
    ASSUME NEW s, NEW e, IsList(s)
    PROVE  /\ IsList(Append(s, e)) /\ Len(Append(s, e)) = Len(s) + 1
           /\ Append(s, e)[Len(s) + 1] = e /\ \A i \in DOMAIN s : Append(s, e)[i] = s[i]
<1> DEFINE S == Range(s) \union {e}  t == Append(s, e)
<1>1. s \in Seq(S) /\ e \in S
  BY DEF IsList, Range
<1>2. /\ t \in Seq(S) /\ Len(t) = Len(s) + 1 /\ t[Len(s) + 1] = e
      /\ \A i \in 1 .. Len(s) : t[i] = s[i]
  <2> HIDE DEF S
  <2> QED
    BY <1>1
<1>3. Len(t) \in Nat /\ t = [i \in 1 .. Len(t) |-> t[i]]
  <2> HIDE DEF S, t
  <2> QED
    BY <1>2
<1>4. DOMAIN s = 1 .. Len(s)
  BY ListShape
<1> HIDE DEF t
<1>5. IsList(t)
  BY <1>3, ListOf
<1> QED
  BY <1>2, <1>4, <1>5 DEF t

\* Runs with the keys D.
Uniform(rs, D) == IsList(rs) /\ \A i \in DOMAIN rs : DOMAIN rs[i] = D

\* Runs that differ in the value of one of the keys D.
Apart(rs, D) ==
    \A i, j \in DOMAIN rs : (\A k \in D : rs[i][k] = rs[j][k]) => i = j

\* Runs whose values for the keys D are those of a run of from.
Within(rs, from, D) ==
    \A i \in DOMAIN rs : \E j \in DOMAIN from : \A k \in D : rs[i][k] = from[j][k]

LEMMA WithinThrough ==
    ASSUME NEW rs, NEW mid, NEW from, NEW D, NEW E \in SUBSET D,
           Within(rs, mid, D), Within(mid, from, E)
    PROVE  Within(rs, from, E)
<1> SUFFICES ASSUME NEW i \in DOMAIN rs
             PROVE  \E j \in DOMAIN from : \A k \in E : rs[i][k] = from[j][k]
  BY DEF Within
<1>1. PICK m \in DOMAIN mid : \A k \in D : rs[i][k] = mid[m][k]
  BY DEF Within
<1>2. PICK j \in DOMAIN from : \A k \in E : mid[m][k] = from[j][k]
  BY DEF Within
<1> QED
  BY <1>1, <1>2

LEMMA Joined ==
    ASSUME NEW f, NEW g
    PROVE  /\ DOMAIN Over(f, g) = DOMAIN f \union DOMAIN g
           /\ \A k \in DOMAIN f : Over(f, g)[k] = f[k]
           /\ \A k \in DOMAIN g \ DOMAIN f : Over(f, g)[k] = g[k]
BY DEF Over

LEMMA NoRuns == \A D : Uniform(<<>>, D) /\ Apart(<<>>, D)
BY DEF Uniform, Apart, IsList, Range

LEMMA OneRun ==
    Uniform(<<NoEntries>>, {}) /\ Len(<<NoEntries>>) = 1 /\ Apart(<<NoEntries>>, {})
<1>1. IsList(<<NoEntries>>) /\ Len(<<NoEntries>>) = 1
  <2>1. <<NoEntries>> = [i \in 1 .. 1 |-> <<NoEntries>>[i]]
    OBVIOUS
  <2> QED
    BY <2>1, ListOf
<1>2. DOMAIN NoEntries = {}
  BY DEF NoEntries
<1> QED
  BY <1>1, <1>2 DEF Uniform, Apart

LEMMA Crossed ==
    ASSUME NEW a, NEW b, NEW D, NEW E, Uniform(a, D), Uniform(b, E), D \intersect E = {}
    PROVE  /\ Uniform(Cross(a, b), D \union E) /\ Len(Cross(a, b)) = Len(a) * Len(b)
           /\ Within(Cross(a, b), a, D) /\ Within(Cross(a, b), b, E)
           /\ Apart(a, D) /\ Apart(b, E) => Apart(Cross(a, b), D \union E)
<1> DEFINE n == Len(a) * Len(b)
           x(i) == ((i - 1) % Len(b)) + 1
           y(i) == ((i - 1) \div Len(b)) + 1
           s == [i \in 1 .. n |-> Over(b[x(i)], a[y(i)])]
<1>1. Cross(a, b) = s
  BY DEF Cross
<1>2. Len(a) \in Nat /\ Len(b) \in Nat /\ DOMAIN a = 1 .. Len(a) /\ DOMAIN b = 1 .. Len(b)
  BY ListShape DEF Uniform
<1>3. n \in Nat
  BY <1>2
<1>4. IsList(s) /\ Len(s) = n
  <2>1. s = [i \in 1 .. n |-> s[i]]
    OBVIOUS
  <2> HIDE DEF s, n
  <2> QED
    BY <1>3, <2>1, ListOf
<1>5. ASSUME NEW i \in 1 .. n
      PROVE  /\ x(i) \in DOMAIN b /\ y(i) \in DOMAIN a /\ DOMAIN s[i] = D \union E
             /\ \A k \in D : s[i][k] = a[y(i)][k]
             /\ \A k \in E : s[i][k] = b[x(i)][k]
  <2>1. x(i) \in DOMAIN b /\ y(i) \in DOMAIN a
    BY <1>2, Positions
  <2>2. s[i] = Over(b[x(i)], a[y(i)])
    OBVIOUS
  <2> HIDE DEF s, x, y, n
  <2> DEFINE f == b[x(i)]  g == a[y(i)]
  <2>3. DOMAIN f = E /\ DOMAIN g = D /\ s[i] = Over(f, g)
    BY <2>1, <2>2 DEF Uniform
  <2> HIDE DEF f, g
  <2>4. /\ DOMAIN s[i] = D \union E
        /\ \A k \in D : s[i][k] = g[k]
        /\ \A k \in E : s[i][k] = f[k]
    <3>0. /\ DOMAIN Over(f, g) = DOMAIN f \union DOMAIN g
          /\ \A k \in DOMAIN f : Over(f, g)[k] = f[k]
          /\ \A k \in DOMAIN g \ DOMAIN f : Over(f, g)[k] = g[k]
      BY Joined, Zenon
    <3>1. /\ DOMAIN Over(f, g) = E \union D
          /\ \A k \in E : Over(f, g)[k] = f[k]
          /\ \A k \in D \ E : Over(f, g)[k] = g[k]
      BY <2>3, <3>0, Zenon
    <3>2. E \union D = D \union E /\ D \ E = D
      OBVIOUS
    <3> QED
      BY <2>3, <3>1, <3>2
  <2> QED
    BY <2>1, <2>4 DEF f, g
<1>6. DOMAIN s = 1 .. n
  OBVIOUS
<1>7. ASSUME Apart(a, D), Apart(b, E) PROVE Apart(s, D \union E)
  <2> SUFFICES ASSUME NEW i \in 1 .. n, NEW j \in 1 .. n,
                      \A k \in D \union E : s[i][k] = s[j][k]
               PROVE  i = j
    BY <1>6 DEF Apart
  <2>1. i \in Int /\ j \in Int
    BY <1>3
  <2>2. Len(b) \in Nat \ {0}
    BY <1>2, <1>5
  <2> HIDE DEF s, n
  <2>3. \A k \in D : a[y(i)][k] = a[y(j)][k]
    BY <1>5
  <2>4. \A k \in E : b[x(i)][k] = b[x(j)][k]
    BY <1>5
  <2>5. x(i) = x(j) /\ y(i) = y(j)
    <3> HIDE DEF x, y
    <3> QED
      BY <1>5, <1>7, <2>3, <2>4 DEF Apart
  <2>6. (i - 1) % Len(b) = (j - 1) % Len(b) /\ (i - 1) \div Len(b) = (j - 1) \div Len(b)
    <3>1. \A m \in Int : m % Len(b) \in Int /\ m \div Len(b) \in Int
      BY <2>2
    <3>2. i - 1 \in Int /\ j - 1 \in Int
      BY <2>1
    <3> DEFINE p == (i - 1) % Len(b)  q == (j - 1) % Len(b)
               t == (i - 1) \div Len(b)  u == (j - 1) \div Len(b)
    <3>3. p \in Int /\ q \in Int /\ t \in Int /\ u \in Int /\ p + 1 = q + 1 /\ t + 1 = u + 1
      BY <2>5, <3>1, <3>2
    <3> HIDE DEF p, q, t, u
    <3>4. p = q /\ t = u
      BY <3>3
    <3> QED
      BY <3>4 DEF p, q, t, u
  <2> QED
    BY <2>1, <2>2, <2>6, PositionsDiffer
<1> HIDE DEF s, n, x, y
<1>8. Within(s, a, D) /\ Within(s, b, E)
  BY <1>5, <1>6 DEF Within
<1>9. Uniform(s, D \union E)
  BY <1>4, <1>5, <1>6 DEF Uniform
<1> QED
  BY <1>1, <1>4, <1>7, <1>8, <1>9 DEF n

LEMMA Paired ==
    ASSUME NEW a, NEW b, NEW D, NEW E, Uniform(a, D), Uniform(b, E), Len(a) = Len(b),
           D \intersect E = {}
    PROVE  /\ Uniform(Pairwise(a, b), D \union E) /\ Len(Pairwise(a, b)) = Len(a)
           /\ Within(Pairwise(a, b), a, D) /\ Within(Pairwise(a, b), b, E)
           /\ Apart(a, D) => Apart(Pairwise(a, b), D \union E)
<1> DEFINE n == Len(a)
           s == [i \in 1 .. n |-> Over(b[i], a[i])]
<1>1. n \in Nat /\ DOMAIN a = 1 .. n /\ DOMAIN b = 1 .. n
  BY ListShape DEF Uniform
<1>2. Pairwise(a, b) = s
  BY <1>1 DEF Pairwise
<1>3. IsList(s) /\ Len(s) = n
  <2>1. s = [i \in 1 .. n |-> s[i]]
    OBVIOUS
  <2> HIDE DEF s, n
  <2> QED
    BY <1>1, <2>1, ListOf
<1>4. ASSUME NEW i \in 1 .. n
      PROVE  /\ DOMAIN s[i] = D \union E
             /\ \A k \in D : s[i][k] = a[i][k]
             /\ \A k \in E : s[i][k] = b[i][k]
  <2>1. s[i] = Over(b[i], a[i])
    OBVIOUS
  <2> DEFINE f == b[i]  g == a[i]
  <2>2. DOMAIN f = E /\ DOMAIN g = D /\ s[i] = Over(f, g)
    BY <1>1, <2>1 DEF Uniform
  <2> HIDE DEF f, g, s
  <2>3. /\ DOMAIN s[i] = D \union E
        /\ \A k \in D : s[i][k] = g[k]
        /\ \A k \in E : s[i][k] = f[k]
    <3>0. /\ DOMAIN Over(f, g) = DOMAIN f \union DOMAIN g
          /\ \A k \in DOMAIN f : Over(f, g)[k] = f[k]
          /\ \A k \in DOMAIN g \ DOMAIN f : Over(f, g)[k] = g[k]
      BY Joined, Zenon
    <3>1. /\ DOMAIN Over(f, g) = E \union D
          /\ \A k \in E : Over(f, g)[k] = f[k]
          /\ \A k \in D \ E : Over(f, g)[k] = g[k]
      BY <2>2, <3>0, Zenon
    <3>2. E \union D = D \union E /\ D \ E = D
      OBVIOUS
    <3> QED
      BY <2>2, <3>1, <3>2
  <2> QED
    BY <2>3 DEF f, g
<1>5. DOMAIN s = 1 .. n
  OBVIOUS
<1> HIDE DEF s, n
<1>6. Within(s, a, D) /\ Within(s, b, E)
  BY <1>1, <1>4, <1>5 DEF Within
<1>7. Apart(a, D) => Apart(s, D \union E)
  BY <1>1, <1>4, <1>5 DEF Apart
<1>8. Uniform(s, D \union E)
  BY <1>3, <1>4, <1>5 DEF Uniform
<1> QED
  BY <1>2, <1>3, <1>6, <1>7, <1>8 DEF n

\* The three folds over sequences have a value for each length.
CrossedTo(f, parts, N) ==
    f = [n \in 0 .. N |-> IF n = 0 THEN <<NoEntries>> ELSE Cross(f[n - 1], parts[n])]
PairedTo(f, parts, N) ==
    f = [n \in 1 .. N |-> IF n = 1 THEN parts[1] ELSE Pairwise(f[n - 1], parts[n])]
CountedTo(f, parts, N) ==
    f = [n \in 0 .. N |-> IF n = 0 THEN 1 ELSE f[n - 1] * Len(parts[n])]
CollectedTo(f, rows, k, N) ==
    f = [n \in 0 .. N |->
            IF n = 0 THEN <<>>
            ELSE IF k \in DOMAIN rows[n] THEN Append(f[n - 1], rows[n][k]) ELSE f[n - 1]]

LEMMA CrossesExist ==
    ASSUME NEW parts, NEW N \in Nat
    PROVE  \E f : CrossedTo(f, parts, N)
<1> DEFINE G == {n \in Nat : \E f : CrossedTo(f, parts, n)}
<1>1. 0 \in G
  <2> DEFINE f == [n \in 0 .. 0 |-> <<NoEntries>>]
  <2>1. CrossedTo(f, parts, 0)
    BY DEF CrossedTo
  <2> QED
    BY <2>1
<1>2. ASSUME NEW n \in 0 .. N - 1, n \in G PROVE n + 1 \in G
  <2>1. PICK f : CrossedTo(f, parts, n)
    BY <1>2
  <2> DEFINE g == [m \in 0 .. n + 1 |-> IF m = n + 1 THEN Cross(f[n], parts[m]) ELSE f[m]]
  <2>2. \A m \in 0 .. n + 1 : g[m] = IF m = 0 THEN <<NoEntries>> ELSE Cross(g[m - 1], parts[m])
    BY <2>1 DEF CrossedTo
  <2>3. g = [m \in 0 .. n + 1 |-> g[m]]
    OBVIOUS
  <2>4. CrossedTo(g, parts, n + 1)
    <3> HIDE DEF g
    <3> QED
      BY <2>2, <2>3 DEF CrossedTo
  <2> QED
    BY <2>4
<1>3. N \in G
  <2>1. 0 \in 0 .. N
    OBVIOUS
  <2> HIDE DEF G
  <2> QED
    BY <1>1, <1>2, <2>1, UpTo
<1> QED
  BY <1>3

LEMMA CountsExist ==
    ASSUME NEW parts, NEW N \in Nat
    PROVE  \E f : CountedTo(f, parts, N)
<1> DEFINE G == {n \in Nat : \E f : CountedTo(f, parts, n)}
<1>1. 0 \in G
  <2> DEFINE f == [n \in 0 .. 0 |-> 1]
  <2>1. CountedTo(f, parts, 0)
    BY DEF CountedTo
  <2> QED
    BY <2>1
<1>2. ASSUME NEW n \in 0 .. N - 1, n \in G PROVE n + 1 \in G
  <2>1. PICK f : CountedTo(f, parts, n)
    BY <1>2
  <2> DEFINE g == [m \in 0 .. n + 1 |-> IF m = n + 1 THEN f[n] * Len(parts[m]) ELSE f[m]]
  <2>2. \A m \in 0 .. n + 1 : g[m] = IF m = 0 THEN 1 ELSE g[m - 1] * Len(parts[m])
    BY <2>1 DEF CountedTo
  <2>3. g = [m \in 0 .. n + 1 |-> g[m]]
    OBVIOUS
  <2>4. CountedTo(g, parts, n + 1)
    <3> HIDE DEF g
    <3> QED
      BY <2>2, <2>3 DEF CountedTo
  <2> QED
    BY <2>4
<1>3. N \in G
  <2>1. 0 \in 0 .. N
    OBVIOUS
  <2> HIDE DEF G
  <2> QED
    BY <1>1, <1>2, <2>1, UpTo
<1> QED
  BY <1>3

LEMMA PairsExist ==
    ASSUME NEW parts, NEW N \in Nat \ {0}
    PROVE  \E f : PairedTo(f, parts, N)
<1> DEFINE G == {n \in Nat : \E f : PairedTo(f, parts, n)}
<1>1. 1 \in G
  <2> DEFINE f == [n \in 1 .. 1 |-> parts[1]]
  <2>1. PairedTo(f, parts, 1)
    BY DEF PairedTo
  <2> QED
    BY <2>1
<1>2. ASSUME NEW n \in 1 .. N - 1, n \in G PROVE n + 1 \in G
  <2>1. PICK f : PairedTo(f, parts, n)
    BY <1>2
  <2> DEFINE g == [m \in 1 .. n + 1 |-> IF m = n + 1 THEN Pairwise(f[n], parts[m]) ELSE f[m]]
  <2>2. \A m \in 1 .. n + 1 : g[m] = IF m = 1 THEN parts[1] ELSE Pairwise(g[m - 1], parts[m])
    BY <2>1 DEF PairedTo
  <2>3. g = [m \in 1 .. n + 1 |-> g[m]]
    OBVIOUS
  <2>4. PairedTo(g, parts, n + 1)
    <3> HIDE DEF g
    <3> QED
      BY <2>2, <2>3 DEF PairedTo
  <2> QED
    BY <2>4
<1>3. N \in G
  <2>1. 1 \in 0 .. N
    OBVIOUS
  <2> HIDE DEF G
  <2> QED
    BY <1>1, <1>2, <2>1, UpTo
<1> QED
  BY <1>3

LEMMA ColumnsExist ==
    ASSUME NEW rows, NEW k, NEW N \in Nat
    PROVE  \E f : CollectedTo(f, rows, k, N)
<1> DEFINE G == {n \in Nat : \E f : CollectedTo(f, rows, k, n)}
           one(s, row) == IF k \in DOMAIN row THEN Append(s, row[k]) ELSE s
<1>1. 0 \in G
  <2> DEFINE f == [n \in 0 .. 0 |-> <<>>]
  <2>1. CollectedTo(f, rows, k, 0)
    BY DEF CollectedTo
  <2> QED
    BY <2>1
<1>2. ASSUME NEW n \in 0 .. N - 1, n \in G PROVE n + 1 \in G
  <2>1. PICK f : CollectedTo(f, rows, k, n)
    BY <1>2
  <2> DEFINE g == [m \in 0 .. n + 1 |-> IF m = n + 1 THEN one(f[n], rows[m]) ELSE f[m]]
  <2>2. \A m \in 0 .. n + 1 : g[m] = IF m = 0 THEN <<>> ELSE one(g[m - 1], rows[m])
    <3>1. \A m \in 0 .. n : f[m] = IF m = 0 THEN <<>> ELSE one(f[m - 1], rows[m])
      BY <2>1 DEF CollectedTo
    <3> HIDE DEF one
    <3>2. g[n + 1] = one(f[n], rows[n + 1]) /\ \A m \in 0 .. n : g[m] = f[m]
      OBVIOUS
    <3> HIDE DEF g
    <3>3. \A m \in 0 .. n + 1 : m = n + 1 \/ (m \in 0 .. n /\ (m # 0 => m - 1 \in 0 .. n))
      OBVIOUS
    <3>4. (n + 1) - 1 = n /\ n \in 0 .. n /\ n + 1 # 0
      OBVIOUS
    <3> QED
      BY <3>1, <3>2, <3>3, <3>4
  <2>3. g = [m \in 0 .. n + 1 |-> g[m]]
    OBVIOUS
  <2>4. CollectedTo(g, rows, k, n + 1)
    <3> HIDE DEF g
    <3> QED
      BY <2>2, <2>3 DEF CollectedTo
  <2> QED
    BY <2>4
<1>3. N \in G
  <2>1. 0 \in 0 .. N
    OBVIOUS
  <2> HIDE DEF G
  <2> QED
    BY <1>1, <1>2, <2>1, UpTo
<1> QED
  BY <1>3

\* Keys of the first n parts.
Taken(K, n) == UNION {K[i] : i \in 1 .. n}

LEMMA TakenMore ==
    ASSUME NEW K, NEW n \in Nat
    PROVE  /\ Taken(K, 0) = {} /\ Taken(K, n + 1) = Taken(K, n) \union K[n + 1]
           /\ \A i \in 1 .. n : K[i] \in SUBSET Taken(K, n)
BY DEF Taken

LEMMA TakenDisjoint ==
    ASSUME NEW K, NEW N \in Nat, \A i, j \in 1 .. N : i # j => K[i] \intersect K[j] = {},
           NEW n \in 0 .. N - 1
    PROVE  Taken(K, n) \intersect K[n + 1] = {}
BY DEF Taken

\* The product of parts that have no key in common.
LEMMA AllCrossed ==
    ASSUME NEW parts, IsList(parts), NEW K, \A i \in DOMAIN parts : Uniform(parts[i], K[i]),
           \A i, j \in 1 .. Len(parts) : i # j => K[i] \intersect K[j] = {}
    PROVE  /\ Uniform(CrossAll(parts), Taken(K, Len(parts)))
           /\ \A i \in DOMAIN parts : Within(CrossAll(parts), parts[i], K[i])
           /\ (\A i \in DOMAIN parts : Apart(parts[i], K[i])) =>
                Apart(CrossAll(parts), Taken(K, Len(parts)))
           /\ \A c : CountedTo(c, parts, Len(parts)) => Len(CrossAll(parts)) = c[Len(parts)]
<1> DEFINE N == Len(parts)
           f == CHOOSE g : CrossedTo(g, parts, N)
           D(n) == Taken(K, n)
<1>1. N \in Nat /\ DOMAIN parts = 1 .. N
  BY ListShape
<1>2. CrossedTo(f, parts, N)
  BY <1>1, CrossesExist, Zenon
<1>3. CrossAll(parts) = f[N]
  BY Zenon DEF CrossAll, CrossedTo
<1> HIDE DEF f
<1>4. f[0] = <<NoEntries>> /\ \A n \in 0 .. N - 1 : f[n + 1] = Cross(f[n], parts[n + 1])
  BY <1>1, <1>2 DEF CrossedTo
<1>5. \A n \in 0 .. N - 1 : Uniform(parts[n + 1], K[n + 1]) /\ D(n) \intersect K[n + 1] = {}
  BY <1>1, TakenDisjoint
<1> HIDE DEF D, N
\* One more part.
<1>6. ASSUME NEW n \in 0 .. N - 1, Uniform(f[n], D(n))
      PROVE  /\ Uniform(f[n + 1], D(n + 1)) /\ Len(f[n + 1]) = Len(f[n]) * Len(parts[n + 1])
             /\ Within(f[n + 1], f[n], D(n)) /\ Within(f[n + 1], parts[n + 1], K[n + 1])
             /\ Apart(f[n], D(n)) /\ Apart(parts[n + 1], K[n + 1]) => Apart(f[n + 1], D(n + 1))
  <2> DEFINE a == f[n]  b == parts[n + 1]  E == D(n)  F == K[n + 1]
  <2>0. n \in Nat
    BY <1>1
  <2>1. f[n + 1] = Cross(a, b) /\ D(n + 1) = E \union F
    <3>1. D(n + 1) = D(n) \union K[n + 1]
      BY <2>0, TakenMore DEF D
    <3> QED
      BY <1>4, <3>1
  <2>2. Uniform(a, E) /\ Uniform(b, F) /\ E \intersect F = {}
    BY <1>5, <1>6
  <2> HIDE DEF a, b, E, F
  <2>3. /\ Uniform(Cross(a, b), E \union F) /\ Len(Cross(a, b)) = Len(a) * Len(b)
        /\ Within(Cross(a, b), a, E) /\ Within(Cross(a, b), b, F)
        /\ Apart(a, E) /\ Apart(b, F) => Apart(Cross(a, b), E \union F)
    BY <2>2, Crossed
  <2> QED
    BY <2>1, <2>3 DEF a, b, E, F
<1>7. \A n \in 0 .. N : Uniform(f[n], D(n))
  <2> DEFINE G == {n \in Nat : Uniform(f[n], D(n))}
  <2>1. 0 \in G
    BY <1>1, <1>4, OneRun, TakenMore DEF D
  <2>2. ASSUME NEW n \in 0 .. N - 1, n \in G PROVE n + 1 \in G
    <3>1. n + 1 \in Nat
      BY <1>1
    <3> QED
      BY <1>6, <2>2, <3>1
  <2> HIDE DEF G
  <2>3. \A n \in 0 .. N : n \in G
    BY <1>1, <2>1, <2>2, StepByStep
  <2> QED
    BY <2>3 DEF G
<1>8. ASSUME NEW i \in 1 .. N PROVE Within(f[N], parts[i], K[i])
  <2> DEFINE G == {n \in Nat : Within(f[n], parts[i], K[i])}
  <2>1. i \in G
    <3>1. i - 1 \in 0 .. N - 1 /\ (i - 1) + 1 = i /\ i - 1 \in 0 .. N
      BY <1>1
    <3>2. Within(f[(i - 1) + 1], parts[(i - 1) + 1], K[(i - 1) + 1])
      BY <1>6, <1>7, <3>1
    <3> QED
      BY <3>1, <3>2
  <2>2. ASSUME NEW n \in i .. N - 1, n \in G PROVE n + 1 \in G
    <3>1. n \in 0 .. N - 1 /\ n \in 0 .. N /\ i \in 1 .. n /\ n \in Nat
      BY <1>1
    <3>2. Within(f[n + 1], f[n], D(n)) /\ K[i] \in SUBSET D(n)
      BY <1>6, <1>7, <3>1, TakenMore DEF D
    <3>3. Within(f[n], parts[i], K[i])
      BY <2>2
    <3>4. Within(f[n + 1], parts[i], K[i])
      BY <3>2, <3>3, WithinThrough
    <3> QED
      BY <3>1, <3>4
  <2>3. i \in 0 .. N
    BY <1>1
  <2> HIDE DEF G
  <2>4. N \in G
    BY <1>1, <2>1, <2>2, <2>3, UpTo
  <2> QED
    BY <2>4 DEF G
<1>9. ASSUME \A i \in DOMAIN parts : Apart(parts[i], K[i]) PROVE Apart(f[N], D(N))
  <2> DEFINE G == {n \in Nat : Apart(f[n], D(n))}
  <2>1. 0 \in G
    BY <1>4, OneRun, TakenMore DEF D
  <2>2. ASSUME NEW n \in 0 .. N - 1, n \in G PROVE n + 1 \in G
    <3>1. Uniform(f[n], D(n)) /\ Apart(parts[n + 1], K[n + 1]) /\ n + 1 \in Nat
      BY <1>1, <1>7, <1>9
    <3>2. Apart(f[n + 1], D(n + 1))
      BY <1>6, <2>2, <3>1
    <3> QED
      BY <3>1, <3>2
  <2> HIDE DEF G
  <2>3. \A n \in 0 .. N : n \in G
    BY <1>1, <2>1, <2>2, StepByStep
  <2> QED
    BY <1>1, <2>3 DEF G
<1>10. ASSUME NEW c, CountedTo(c, parts, N) PROVE Len(f[N]) = c[N]
  <2> DEFINE G == {n \in Nat : Len(f[n]) = c[n]}
  <2>0. c[0] = 1 /\ \A n \in 0 .. N - 1 : c[n + 1] = c[n] * Len(parts[n + 1])
    BY <1>1, <1>10 DEF CountedTo
  <2>1. 0 \in G
    BY <1>4, <2>0, OneRun
  <2>2. ASSUME NEW n \in 0 .. N - 1, n \in G PROVE n + 1 \in G
    <3>1. n \in 0 .. N /\ n + 1 \in Nat
      BY <1>1
    <3>2. Len(f[n + 1]) = Len(f[n]) * Len(parts[n + 1])
      BY <1>6, <1>7, <3>1
    <3> QED
      BY <2>0, <2>2, <3>1, <3>2
  <2> HIDE DEF G
  <2>3. \A n \in 0 .. N : n \in G
    BY <1>1, <2>1, <2>2, StepByStep
  <2> QED
    BY <1>1, <2>3 DEF G
<1>11. Uniform(f[N], D(N))
  BY <1>1, <1>7
<1> QED
  BY <1>1, <1>3, <1>8, <1>9, <1>10, <1>11 DEF D, N

\* Parts that are as long as each other, position by position.
LEMMA AllPaired ==
    ASSUME NEW parts, IsList(parts), parts # <<>>,
           NEW K, \A i \in DOMAIN parts : Uniform(parts[i], K[i]),
           \A i, j \in 1 .. Len(parts) : i # j => K[i] \intersect K[j] = {},
           \A i \in DOMAIN parts : Len(parts[i]) = Len(parts[1])
    PROVE  /\ Uniform(PairAll(parts), Taken(K, Len(parts)))
           /\ Len(PairAll(parts)) = Len(parts[1])
           /\ \A i \in DOMAIN parts : Within(PairAll(parts), parts[i], K[i])
           /\ (\A i \in DOMAIN parts : Apart(parts[i], K[i])) =>
                Apart(PairAll(parts), Taken(K, Len(parts)))
<1> DEFINE N == Len(parts)
           f == CHOOSE g : PairedTo(g, parts, N)
           D(n) == Taken(K, n)
<1>1. N \in Nat \ {0} /\ DOMAIN parts = 1 .. N /\ 1 \in 0 .. N /\ 1 \in 1 .. N
  BY DEF IsList
<1>2. PairedTo(f, parts, N)
  BY <1>1, PairsExist, Zenon
<1>3. PairAll(parts) = f[N]
  BY Zenon DEF PairAll, PairedTo
<1> HIDE DEF f
<1>4. f[1] = parts[1] /\ \A n \in 1 .. N - 1 : f[n + 1] = Pairwise(f[n], parts[n + 1])
  BY <1>1, <1>2 DEF PairedTo
<1>5. \A n \in 1 .. N - 1 :
         /\ Uniform(parts[n + 1], K[n + 1]) /\ D(n) \intersect K[n + 1] = {}
         /\ Len(parts[n + 1]) = Len(parts[1])
  BY <1>1, TakenDisjoint
<1>6. D(1) = K[1]
  <2>1. {K[i] : i \in 1 .. 1} = {K[1]}
    OBVIOUS
  <2> QED
    BY <2>1 DEF Taken
<1> HIDE DEF D, N
<1>7. ASSUME NEW n \in 1 .. N - 1, Uniform(f[n], D(n)), Len(f[n]) = Len(parts[1])
      PROVE  /\ Uniform(f[n + 1], D(n + 1)) /\ Len(f[n + 1]) = Len(parts[1])
             /\ Within(f[n + 1], f[n], D(n)) /\ Within(f[n + 1], parts[n + 1], K[n + 1])
             /\ Apart(f[n], D(n)) => Apart(f[n + 1], D(n + 1))
  <2> DEFINE a == f[n]  b == parts[n + 1]  E == D(n)  F == K[n + 1]
  <2>0. n \in Nat
    BY <1>1
  <2>1. f[n + 1] = Pairwise(a, b) /\ D(n + 1) = E \union F
    <3>1. D(n + 1) = D(n) \union K[n + 1]
      BY <2>0, TakenMore DEF D
    <3> QED
      BY <1>4, <3>1
  <2>2. Uniform(a, E) /\ Uniform(b, F) /\ E \intersect F = {} /\ Len(a) = Len(b)
    BY <1>5, <1>7
  <2> HIDE DEF a, b, E, F
  <2>3. /\ Uniform(Pairwise(a, b), E \union F) /\ Len(Pairwise(a, b)) = Len(a)
        /\ Within(Pairwise(a, b), a, E) /\ Within(Pairwise(a, b), b, F)
        /\ Apart(a, E) => Apart(Pairwise(a, b), E \union F)
    BY <2>2, Paired
  <2> QED
    BY <1>7, <2>1, <2>3 DEF a, b, E, F
<1>8. \A n \in 1 .. N : Uniform(f[n], D(n)) /\ Len(f[n]) = Len(parts[1])
  <2> DEFINE G == {n \in Nat : Uniform(f[n], D(n)) /\ Len(f[n]) = Len(parts[1])}
  <2>1. 1 \in G
    BY <1>1, <1>4, <1>6
  <2>2. ASSUME NEW n \in 1 .. N - 1, n \in G PROVE n + 1 \in G
    BY <1>7, <2>2
  <2> HIDE DEF G
  <2>3. \A n \in 1 .. N : n \in G
    BY <1>1, <2>1, <2>2, UpTo
  <2> QED
    BY <2>3 DEF G
<1>9. ASSUME NEW i \in 1 .. N PROVE Within(f[N], parts[i], K[i])
  <2> DEFINE G == {n \in Nat : Within(f[n], parts[i], K[i])}
  <2>1. i \in G
    <3>1. CASE i = 1
      BY <1>4, <3>1 DEF Within
    <3>2. CASE i # 1
      <4>1. i - 1 \in 1 .. N - 1 /\ (i - 1) + 1 = i /\ i - 1 \in 1 .. N
        BY <1>1, <3>2
      <4>2. Within(f[(i - 1) + 1], parts[(i - 1) + 1], K[(i - 1) + 1])
        BY <1>7, <1>8, <4>1
      <4> QED
        BY <4>1, <4>2
    <3> QED
      BY <3>1, <3>2
  <2>2. ASSUME NEW n \in i .. N - 1, n \in G PROVE n + 1 \in G
    <3>1. n \in 1 .. N - 1 /\ n \in 1 .. N /\ i \in 1 .. n /\ n \in Nat
      BY <1>1
    <3>2. Within(f[n + 1], f[n], D(n)) /\ K[i] \in SUBSET D(n)
      BY <1>7, <1>8, <3>1, TakenMore DEF D
    <3>3. Within(f[n], parts[i], K[i])
      BY <2>2
    <3>4. Within(f[n + 1], parts[i], K[i])
      BY <3>2, <3>3, WithinThrough
    <3> QED
      BY <3>1, <3>4
  <2>3. i \in 0 .. N
    BY <1>1
  <2> HIDE DEF G
  <2>4. N \in G
    BY <1>1, <2>1, <2>2, <2>3, UpTo
  <2> QED
    BY <2>4 DEF G
<1>10. ASSUME \A i \in DOMAIN parts : Apart(parts[i], K[i]) PROVE Apart(f[N], D(N))
  <2> DEFINE G == {n \in Nat : Apart(f[n], D(n))}
  <2>1. 1 \in G
    BY <1>1, <1>4, <1>6, <1>10
  <2>2. ASSUME NEW n \in 1 .. N - 1, n \in G PROVE n + 1 \in G
    <3>1. Uniform(f[n], D(n)) /\ Len(f[n]) = Len(parts[1]) /\ n + 1 \in Nat
      BY <1>1, <1>8
    <3>2. Apart(f[n + 1], D(n + 1))
      BY <1>7, <2>2, <3>1
    <3> QED
      BY <3>1, <3>2
  <2> HIDE DEF G
  <2>3. N \in G
    BY <1>1, <2>1, <2>2, UpTo
  <2> QED
    BY <1>1, <2>3 DEF G
<1>11. Uniform(f[N], D(N)) /\ Len(f[N]) = Len(parts[1])
  BY <1>1, <1>8
<1> QED
  BY <1>1, <1>3, <1>9, <1>10, <1>11 DEF D, N

LEMMA Results ==
    /\ \A rs : Ok(rs).runs = rs /\ Ok(rs).error = "none"
    /\ \A why : Error(why).runs = <<>> /\ Error(why).error = why
BY DEF Ok, Error

-----------------------------------------------------------------------------
(* What the parts of a configuration expand to                             *)

\* Runs that are drawn from the lists of entries.
Faithful(rs, entries, mode) ==
    /\ Uniform(rs, DOMAIN entries)
    /\ \A i \in DOMAIN rs : Picks(rs[i], entries, mode)
    /\ Differ(entries, mode) => Apart(rs, DOMAIN entries)

\* Lists whose positions are tied.
LEMMA RowsOk ==
    ASSUME NEW entries, AreLists(entries), DOMAIN entries # {},
           Expand(entries, "by_position").error = "none"
    PROVE  /\ Faithful(Expand(entries, "by_position").runs, entries, "by_position")
           /\ Len(Expand(entries, "by_position").runs) = CountEntries(entries, "by_position")
<1> DEFINE k == CHOOSE k \in DOMAIN entries : TRUE
           n == Len(entries[k])
           rows == [i \in 1 .. n |-> [l \in DOMAIN entries |-> entries[l][i]]]
<1>1. k \in DOMAIN entries
  OBVIOUS
<1>2. n \in Nat /\ DOMAIN entries[k] = 1 .. n
  BY <1>1, ListShape DEF AreLists
<1>3. /\ \A l \in DOMAIN entries : Len(entries[l]) = n
      /\ Expand(entries, "by_position").runs = rows
  <2>1. \/ Expand(entries, "by_position") = Error("lengths")
        \/ /\ \A l \in DOMAIN entries : Len(entries[l]) = Len(entries[k])
           /\ Expand(entries, "by_position") =
                Ok([i \in DOMAIN entries[k] |-> [l \in DOMAIN entries |-> entries[l][i]]])
    BY Zenon DEF Expand
  <2>2. Error("lengths").error # "none"
    BY Results
  <2>3. Ok(rows).runs = rows
    BY Results
  <2> HIDE DEF k
  <2> QED
    BY <1>2, <2>1, <2>2, <2>3
<1>4. CountEntries(entries, "by_position") = n
  BY DEF CountEntries
<1>5. \A l \in DOMAIN entries : DOMAIN entries[l] = 1 .. n
  BY <1>3, ListShape DEF AreLists
<1>6. ASSUME NEW i \in 1 .. n PROVE Picks(rows[i], entries, "by_position")
  <2>1. i \in DOMAIN entries[k] /\ \A l \in DOMAIN entries : rows[i][l] = entries[l][i]
    BY <1>2
  <2> HIDE DEF rows
  <2> QED
    BY <2>1 DEF Picks
<1>7. Differ(entries, "by_position") => Apart(rows, DOMAIN entries)
  <2> SUFFICES ASSUME Differ(entries, "by_position"), NEW i \in 1 .. n, NEW j \in 1 .. n,
                      \A l \in DOMAIN entries : rows[i][l] = rows[j][l]
               PROVE  i = j
    BY DEF Apart
  <2>1. \A l \in DOMAIN entries : entries[l][i] = entries[l][j]
    OBVIOUS
  <2> HIDE DEF rows, k
  <2> QED
    BY <1>1, <1>2, <2>1 DEF Differ
<1>8. Uniform(rows, DOMAIN entries) /\ Len(rows) = n /\ DOMAIN rows = 1 .. n
  <2>1. rows = [i \in 1 .. n |-> rows[i]] /\ \A i \in DOMAIN rows : DOMAIN rows[i] = DOMAIN entries
    OBVIOUS
  <2>2. DOMAIN rows = 1 .. n
    OBVIOUS
  <2> HIDE DEF rows, n
  <2> QED
    BY <1>2, <2>1, <2>2, ListOf DEF Uniform
<1> HIDE DEF rows, n
<1> QED
  BY <1>3, <1>4, <1>6, <1>7, <1>8 DEF Faithful

\* One list.
LEMMA SingleOk ==
    ASSUME NEW entries, NEW l \in DOMAIN entries, IsList(entries[l])
    PROVE  /\ Uniform(Single(entries, l), {l}) /\ Len(Single(entries, l)) = Len(entries[l])
           /\ DOMAIN Single(entries, l) = DOMAIN entries[l]
           /\ \A i \in DOMAIN entries[l] : Single(entries, l)[i][l] = entries[l][i]
           /\ IsInjective(entries[l]) => Apart(Single(entries, l), {l})
<1> DEFINE n == Len(entries[l])
           s == [i \in DOMAIN entries[l] |-> [m \in {l} |-> entries[l][i]]]
<1>1. n \in Nat /\ DOMAIN entries[l] = 1 .. n
  BY ListShape
<1>2. s = [i \in 1 .. n |-> s[i]] /\ \A i \in DOMAIN s : DOMAIN s[i] = {l}
  BY <1>1
<1>3. DOMAIN s = DOMAIN entries[l] /\ \A i \in DOMAIN entries[l] : s[i][l] = entries[l][i]
  OBVIOUS
<1>4. Single(entries, l) = s
  BY DEF Single
<1> HIDE DEF s
<1>5. Uniform(s, {l}) /\ Len(s) = n
  BY <1>1, <1>2, ListOf DEF Uniform
<1>6. IsInjective(entries[l]) => Apart(s, {l})
  BY <1>3 DEF IsInjective, Apart
<1> QED
  BY <1>3, <1>4, <1>5, <1>6

\* Lists that are combined.
LEMMA ProductOk ==
    ASSUME NEW entries, AreLists(entries), AreKeys(DOMAIN entries), DOMAIN entries # {}
    PROVE  /\ Faithful(Expand(entries, "combinatorial").runs, entries, "combinatorial")
           /\ Len(Expand(entries, "combinatorial").runs) = CountEntries(entries, "combinatorial")
<1> DEFINE names == Sorted(DOMAIN entries)
           n == Cardinality(DOMAIN entries)
           parts == [j \in 1 .. n |-> Single(entries, names[j])]
           K == [j \in 1 .. n |-> {names[j]}]
           lens == [k \in DOMAIN entries |-> Len(entries[k])]
<1>1. /\ n \in Nat /\ names \in [1 .. n -> DOMAIN entries]
      /\ \A i, j \in 1 .. n : names[i] = names[j] => i = j
      /\ \A k \in DOMAIN entries : \E j \in 1 .. n : names[j] = k
  BY SortedIs DEF AreKeys
<1>2. Expand(entries, "combinatorial").runs = CrossAll(parts)
  <2> DEFINE p == [j \in DOMAIN names |-> Single(entries, names[j])]
  <2>1. Expand(entries, "combinatorial") = Ok(CrossAll(p))
    <3> USE DEF Expand
    <3> QED
      BY Zenon
  <2>2. Ok(CrossAll(p)).runs = CrossAll(p)
    BY Results
  <2>3. p = parts
    BY <1>1
  <2> HIDE DEF p, parts
  <2> QED
    BY <2>1, <2>2, <2>3
<1> HIDE DEF names, n
<1>3. IsList(parts) /\ Len(parts) = n /\ DOMAIN parts = 1 .. n
  <2>1. parts = [j \in 1 .. n |-> parts[j]] /\ DOMAIN parts = 1 .. n
    OBVIOUS
  <2> HIDE DEF parts
  <2> QED
    BY <1>1, <2>1, ListOf
<1>4. ASSUME NEW j \in 1 .. n
      PROVE  /\ names[j] \in DOMAIN entries /\ IsList(entries[names[j]])
             /\ Uniform(parts[j], K[j]) /\ Len(parts[j]) = Len(entries[names[j]])
             /\ DOMAIN parts[j] = DOMAIN entries[names[j]]
             /\ \A i \in DOMAIN parts[j] : parts[j][i][names[j]] = entries[names[j]][i]
             /\ IsInjective(entries[names[j]]) => Apart(parts[j], K[j])
  <2> DEFINE l == names[j]
  <2>1. l \in DOMAIN entries /\ IsList(entries[l])
    BY <1>1 DEF AreLists
  <2>2. parts[j] = Single(entries, l) /\ K[j] = {l}
    OBVIOUS
  <2> HIDE DEF l, parts, K
  <2>3. /\ Uniform(Single(entries, l), {l}) /\ Len(Single(entries, l)) = Len(entries[l])
        /\ DOMAIN Single(entries, l) = DOMAIN entries[l]
        /\ \A i \in DOMAIN entries[l] : Single(entries, l)[i][l] = entries[l][i]
        /\ IsInjective(entries[l]) => Apart(Single(entries, l), {l})
    BY <2>1, SingleOk
  <2> QED
    BY <2>1, <2>2, <2>3 DEF l
<1>5. \A i, j \in 1 .. Len(parts) : i # j => K[i] \intersect K[j] = {}
  BY <1>1, <1>3
<1>6. Taken(K, n) = DOMAIN entries
  <2>1. \A j \in 1 .. n : K[j] = {names[j]}
    OBVIOUS
  <2> HIDE DEF K
  <2>2. \A k : k \in Taken(K, n) <=> \E j \in 1 .. n : k = names[j]
    BY <2>1 DEF Taken
  <2>3. ASSUME NEW j \in 1 .. n PROVE names[j] \in DOMAIN entries
    BY <1>1
  <2>4. \A k : k \in Taken(K, n) <=> k \in DOMAIN entries
    <3> SUFFICES ASSUME NEW k PROVE k \in Taken(K, n) <=> k \in DOMAIN entries
      OBVIOUS
    <3>1. ASSUME k \in Taken(K, n) PROVE k \in DOMAIN entries
      BY <2>2, <2>3, <3>1
    <3>2. ASSUME k \in DOMAIN entries PROVE k \in Taken(K, n)
      BY <1>1, <2>2, <3>2
    <3> QED
      BY <3>1, <3>2
  <2> QED
    BY <2>4
<1> DEFINE rs == CrossAll(parts)
<1>7. /\ Uniform(rs, DOMAIN entries)
      /\ \A i \in DOMAIN parts : Within(rs, parts[i], K[i])
      /\ (\A i \in DOMAIN parts : Apart(parts[i], K[i])) => Apart(rs, DOMAIN entries)
      /\ \A c : CountedTo(c, parts, n) => Len(rs) = c[n]
  <2> HIDE DEF parts, K
  <2>1. /\ Uniform(CrossAll(parts), Taken(K, Len(parts)))
        /\ \A i \in DOMAIN parts : Within(CrossAll(parts), parts[i], K[i])
        /\ (\A i \in DOMAIN parts : Apart(parts[i], K[i])) =>
             Apart(CrossAll(parts), Taken(K, Len(parts)))
        /\ \A c : CountedTo(c, parts, Len(parts)) => Len(CrossAll(parts)) = c[Len(parts)]
    BY <1>3, <1>4, <1>5, AllCrossed
  <2> QED
    BY <1>3, <1>6, <2>1
<1> HIDE DEF rs
<1>8. ASSUME NEW i \in DOMAIN rs PROVE Picks(rs[i], entries, "combinatorial")
  <2> SUFFICES ASSUME NEW k \in DOMAIN entries
               PROVE  \E m \in DOMAIN entries[k] : rs[i][k] = entries[k][m]
    BY DEF Picks
  <2>1. PICK j \in 1 .. n : names[j] = k
    BY <1>1
  <2>2. Within(rs, parts[j], {k})
    BY <1>3, <1>7, <2>1
  <2> HIDE DEF parts, K
  <2>3. PICK m \in DOMAIN parts[j] : rs[i][k] = parts[j][m][k]
    BY <2>2 DEF Within
  <2> QED
    BY <1>4, <2>1, <2>3
<1>9. ASSUME Differ(entries, "combinatorial") PROVE Apart(rs, DOMAIN entries)
  <2>1. \A k \in DOMAIN entries : IsInjective(entries[k])
    BY <1>9 DEF Differ
  <2> HIDE DEF parts, K
  <2>2. \A j \in DOMAIN parts : Apart(parts[j], K[j])
    BY <1>3, <1>4, <2>1
  <2> QED
    BY <1>7, <2>2
<1>10. Len(rs) = CountEntries(entries, "combinatorial")
  <2> DEFINE c == CHOOSE g : CountedTo(g, parts, n)
  <2>1. CountedTo(c, parts, n)
    BY <1>1, CountsExist, Zenon
  <2> HIDE DEF c, parts, K
  <2>2. c[0] = 1 /\ \A m \in 0 .. n - 1 : c[m + 1] = c[m] * Len(parts[m + 1])
    BY <1>1, <2>1 DEF CountedTo
  <2>3. \A k \in DOMAIN entries : lens[k] = Len(entries[k]) /\ lens[k] \in Nat
    BY ListShape DEF AreLists
  <2> HIDE DEF lens
  <2>4. \A m \in 0 .. n - 1 : c[m + 1] = c[m] * lens[names[m + 1]]
    <3> SUFFICES ASSUME NEW m \in 0 .. n - 1 PROVE c[m + 1] = c[m] * lens[names[m + 1]]
      OBVIOUS
    <3>1. m + 1 \in 1 .. n
      BY <1>1
    <3>2. Len(parts[m + 1]) = Len(entries[names[m + 1]]) /\ names[m + 1] \in DOMAIN entries
      BY <1>4, <3>1
    <3> QED
      BY <2>2, <2>3, <3>2
  <2>5. c[n] = ProductOver(lens, DOMAIN entries)
    <3>1. Enumerates(names, n, DOMAIN entries) /\ Multiplies(c, lens, names, n)
      BY <1>1, <2>2, <2>4 DEF Enumerates, Multiplies
    <3>2. n \in Nat /\ \A x \in DOMAIN entries : lens[x] \in Nat
      BY <1>1, <2>3
    <3> QED
      BY <3>1, <3>2, ProductAlong
  <2> QED
    BY <1>7, <2>1, <2>5 DEF CountEntries, lens
<1> QED
  BY <1>2, <1>7, <1>8, <1>9, <1>10 DEF Faithful, rs

\* The lists of a configuration, or of a source, as runs.
LEMMA ExpandedOk ==
    ASSUME NEW entries, AreLists(entries), AreKeys(DOMAIN entries), DOMAIN entries # {},
           NEW mode, Expand(entries, mode).error = "none"
    PROVE  /\ Faithful(Expand(entries, mode).runs, entries, mode)
           /\ Len(Expand(entries, mode).runs) = CountEntries(entries, mode)
<1>1. mode \in {"by_position", "combinatorial"}
  <2>1. mode \notin {"by_position", "combinatorial"} => Expand(entries, mode) = Error("mode")
    BY DEF Expand
  <2>2. Error("mode").error # "none"
    BY Results
  <2> QED
    BY <2>1, <2>2
<1> QED
  BY <1>1, RowsOk, ProductOk

\* Where there is no list.
LEMMA NothingOk ==
    ASSUME NEW entries, DOMAIN entries = {}, NEW mode
    PROVE  Faithful(<<NoEntries>>, entries, mode) /\ Expand(entries, mode) = Ok(<<>>)
<1>1. Expand(entries, mode) = Ok(<<>>)
  BY Zenon DEF Expand
<1>2. \A r : Picks(r, entries, mode)
  BY DEF Picks
<1> QED
  BY <1>1, <1>2, OneRun DEF Faithful


\* A column read from rows is a list, with a value of each row if each has one.
LEMMA ColumnList ==
    ASSUME NEW rows, IsList(rows), NEW k
    PROVE  /\ IsList(Column(rows, k))
           /\ (\A i \in DOMAIN rows : k \in DOMAIN rows[i]) =>
                /\ DOMAIN Column(rows, k) = DOMAIN rows
                /\ \A i \in DOMAIN rows : Column(rows, k)[i] = rows[i][k]
<1> DEFINE N == Len(rows)
           f == CHOOSE g : CollectedTo(g, rows, k, N)
<1>1. N \in Nat /\ DOMAIN rows = 1 .. N
  BY ListShape
<1>2. CollectedTo(f, rows, k, N)
  BY <1>1, ColumnsExist, Zenon
<1>3. Column(rows, k) = f[N]
  BY Zenon DEF Column, CollectedTo
<1> HIDE DEF f
<1>4. f[0] = <<>> /\ IsList(f[0])
  BY <1>1, <1>2, NoRuns DEF CollectedTo, Uniform
<1>5. ASSUME NEW n \in 0 .. N - 1
      PROVE  f[n + 1] = IF k \in DOMAIN rows[n + 1] THEN Append(f[n], rows[n + 1][k]) ELSE f[n]
  <2>1. n + 1 \in 0 .. N /\ n + 1 # 0 /\ (n + 1) - 1 = n
    BY <1>1
  <2> HIDE DEF N
  <2> QED
    BY <1>2, <2>1 DEF CollectedTo
<1>6. IsList(f[N])
  <2> DEFINE G == {n \in Nat : IsList(f[n])}
  <2>1. 0 \in G
    BY <1>4
  <2>2. ASSUME NEW n \in 0 .. N - 1, n \in G PROVE n + 1 \in G
    <3>1. IsList(f[n + 1])
      BY <1>5, <2>2, OneLonger
    <3> QED
      BY <3>1
  <2> HIDE DEF G, N
  <2>3. \A n \in 0 .. N : n \in G
    BY <1>1, <2>1, <2>2, StepByStep
  <2> QED
    BY <1>1, <2>3 DEF G
<1>7. ASSUME \A i \in DOMAIN rows : k \in DOMAIN rows[i]
      PROVE  DOMAIN f[N] = DOMAIN rows /\ \A i \in DOMAIN rows : f[N][i] = rows[i][k]
  <2> DEFINE G == {n \in Nat : /\ IsList(f[n]) /\ Len(f[n]) = n
                               /\ \A i \in 1 .. n : f[n][i] = rows[i][k]}
  <2>1. 0 \in G
    BY <1>4
  <2>2. ASSUME NEW n \in 0 .. N - 1, n \in G PROVE n + 1 \in G
    <3>0. n + 1 \in DOMAIN rows
      BY <1>1
    <3>1. f[n + 1] = Append(f[n], rows[n + 1][k])
      BY <1>5, <1>7, <3>0
    <3>2. IsList(f[n]) /\ Len(f[n]) = n /\ DOMAIN f[n] = 1 .. n
      BY <2>2, ListShape
    <3>3. /\ IsList(f[n + 1]) /\ Len(f[n + 1]) = n + 1
          /\ f[n + 1][n + 1] = rows[n + 1][k] /\ \A i \in 1 .. n : f[n + 1][i] = f[n][i]
      BY <3>1, <3>2, OneLonger
    <3>4. ASSUME NEW i \in 1 .. n + 1 PROVE f[n + 1][i] = rows[i][k]
      <4>1. i \in 1 .. n \/ i = n + 1
        BY <1>1
      <4>2. \A j \in 1 .. n : f[n][j] = rows[j][k]
        BY <2>2
      <4> HIDE DEF G, N
      <4> QED
        BY <3>3, <4>1, <4>2
    <3> QED
      BY <3>3, <3>4
  <2>3. N \in G
    <3> HIDE DEF G, N
    <3>1. \A n \in 0 .. N : n \in G
      BY <1>1, <2>1, <2>2, StepByStep
    <3> QED
      BY <1>1, <3>1
  <2>4. IsList(f[N]) /\ Len(f[N]) = N /\ \A i \in 1 .. N : f[N][i] = rows[i][k]
    BY <2>3
  <2> QED
    BY <1>1, <2>4, ListShape
<1> QED
  BY <1>3, <1>6, <1>7

\* The columns of a source are lists; those of rows that are complete hold what the rows hold.
LEMMA ColumnsOk ==
    ASSUME NEW src, IsSource(src), src.format # "malformed"
    PROVE  /\ AreLists(Columns(src))
           /\ InRows(src) => \A l \in DOMAIN Columns(src) :
                /\ DOMAIN Columns(src)[l] = DOMAIN src.rows
                /\ \A i \in DOMAIN src.rows : Columns(src)[l][i] =
                     IF l \in DOMAIN src.rows[i] THEN src.rows[i][l] ELSE None
<1>1. CASE src.format = "csv"
  <2> DEFINE cells(k) == [i \in DOMAIN src.rows |->
                            IF k \in DOMAIN src.rows[i] THEN src.rows[i][k] ELSE None]
  <2>1. Columns(src) = [k \in src.header |-> cells(k)]
    BY <1>1 DEF Columns
  <2>2. ASSUME NEW k PROVE IsList(cells(k))
    <3> DEFINE s == cells(k)
    <3>1. Len(src.rows) \in Nat /\ DOMAIN src.rows = 1 .. Len(src.rows)
      BY <1>1, ListShape DEF IsSource
    <3>2. s = [i \in 1 .. Len(src.rows) |-> s[i]]
      BY <3>1
    <3> HIDE DEF s
    <3>3. IsList(s)
      BY <3>1, <3>2, ListOf
    <3> QED
      BY <3>3 DEF s
  <2>3. \A k : DOMAIN cells(k) = DOMAIN src.rows /\ \A i \in DOMAIN src.rows :
          cells(k)[i] = IF k \in DOMAIN src.rows[i] THEN src.rows[i][k] ELSE None
    OBVIOUS
  <2> HIDE DEF cells
  <2>4. DOMAIN Columns(src) = src.header /\ \A l \in src.header : Columns(src)[l] = cells(l)
    BY <2>1
  <2> QED
    BY <2>2, <2>3, <2>4 DEF AreLists
<1>2. CASE src.format = "rows"
  <2>1. Columns(src) = [k \in Header(src.rows) |-> Column(src.rows, k)]
    BY <1>2 DEF Columns
  <2>2. IsList(src.rows)
    BY <1>2 DEF IsSource
  <2>3. /\ DOMAIN Columns(src) = Header(src.rows)
        /\ \A l \in Header(src.rows) : Columns(src)[l] = Column(src.rows, l)
    BY <2>1
  <2>4. AreLists(Columns(src))
    BY <2>2, <2>3, ColumnList DEF AreLists
  <2>5. ASSUME InRows(src), NEW l \in Header(src.rows)
        PROVE  /\ DOMAIN Columns(src)[l] = DOMAIN src.rows
               /\ \A i \in DOMAIN src.rows :
                    /\ Columns(src)[l][i] = src.rows[i][l]
                    /\ l \in DOMAIN src.rows[i]
    <3>1. \A i \in DOMAIN src.rows : l \in DOMAIN src.rows[i]
      BY <1>2, <2>5 DEF InRows
    <3>2. /\ DOMAIN Column(src.rows, l) = DOMAIN src.rows
          /\ \A i \in DOMAIN src.rows : Column(src.rows, l)[i] = src.rows[i][l]
      BY <2>2, <3>1, ColumnList
    <3> QED
      BY <2>3, <3>1, <3>2
  <2> QED
    BY <2>3, <2>4, <2>5
<1>3. CASE src.format \notin {"csv", "rows"}
  BY <1>3 DEF Columns, IsSource, InRows
<1> QED
  BY <1>1, <1>2, <1>3

\* What is selected and renamed is a column of the source under its new name.
LEMMA SourceOk ==
    ASSUME NEW src, IsSource(src), Source(src).error = "none"
    PROVE  /\ src.format # "malformed"
           /\ AreLists(Source(src).columns)
           /\ \A t \in DOMAIN Source(src).columns : \E l \in DOMAIN Columns(src) :
                Target(src, l) = t /\ Source(src).columns[t] = Columns(src)[l]
<1> DEFINE all  == Columns(src)
           kept == IF src.select = {} THEN DOMAIN all ELSE src.select
           to   == {Target(src, k) : k \in kept}
           cols == [t \in to |-> all[CHOOSE k \in kept : Target(src, k) = t]]
<1>1. src.format # "malformed" /\ kept \subseteq DOMAIN all /\ Source(src).columns = cols
  <2> HIDE DEF all, cols
  <2>1. \/ Source(src) = [error |-> "malformed", columns |-> NoEntries]
        \/ Source(src) = [error |-> "select", columns |-> NoEntries]
        \/ Source(src) = [error |-> "rename", columns |-> NoEntries]
        \/ /\ src.format # "malformed" /\ kept \subseteq DOMAIN all
           /\ Source(src) = [error |-> "none", columns |-> cols]
    BY Zenon DEF Source, all, cols
  <2> QED
    BY <2>1
<1>2. AreLists(all)
  BY <1>1, ColumnsOk
<1>3. ASSUME NEW t \in to
      PROVE  \E l \in DOMAIN all : Target(src, l) = t /\ cols[t] = all[l]
  <2> DEFINE k == CHOOSE k \in kept : Target(src, k) = t
  <2>1. k \in kept /\ Target(src, k) = t
    <3>1. \E q \in kept : Target(src, q) = t
      OBVIOUS
    <3> HIDE DEF kept
    <3> QED
      BY <3>1, Zenon
  <2>2. cols[t] = all[k]
    OBVIOUS
  <2> HIDE DEF k, cols
  <2> QED
    BY <1>1, <2>1, <2>2
<1>4. DOMAIN cols = to
  OBVIOUS
<1> HIDE DEF cols, all, to
<1>5. AreLists(cols)
  BY <1>2, <1>3, <1>4, Zenon DEF AreLists
<1> QED
  BY <1>1, <1>3, <1>4, <1>5 DEF all

\* Rows that are read by position stay together.
LEMMA RowsTogether ==
    ASSUME NEW src, IsSource(src), Source(src).error = "none", InRows(src), NEW r,
           Picks(r, Source(src).columns, "by_position")
    PROVE  FromOneRow(r, src)
<1> DEFINE cols == Source(src).columns
           k0 == CHOOSE k \in DOMAIN cols : TRUE
<1>1. /\ \A t \in DOMAIN cols : \E l \in DOMAIN Columns(src) :
           Target(src, l) = t /\ cols[t] = Columns(src)[l]
      /\ \A l \in DOMAIN Columns(src) :
           /\ DOMAIN Columns(src)[l] = DOMAIN src.rows
           /\ \A i \in DOMAIN src.rows : Columns(src)[l][i] =
                IF l \in DOMAIN src.rows[i] THEN src.rows[i][l] ELSE None
  BY SourceOk, ColumnsOk
<1>2. \E i \in DOMAIN src.rows : \A t \in DOMAIN cols : r[t] = cols[t][i]
  <2>1. CASE DOMAIN cols = {}
    <3>1. Len(src.rows) \in Nat /\ DOMAIN src.rows = 1 .. Len(src.rows)
      BY ListShape DEF IsSource, InRows
    <3>2. src.rows # <<>>
      BY DEF InRows
    <3>3. Len(src.rows) # 0
      BY <3>2 DEF IsSource, InRows, IsList
    <3>4. 1 \in DOMAIN src.rows
      BY <3>1, <3>3
    <3> QED
      BY <2>1, <3>4
  <2>2. CASE DOMAIN cols # {}
    <3>1. PICK i \in DOMAIN cols[k0] : \A t \in DOMAIN cols : r[t] = cols[t][i]
      BY <2>2 DEF Picks
    <3>2. k0 \in DOMAIN cols
      BY <2>2
    <3> HIDE DEF k0, cols
    <3>3. DOMAIN cols[k0] = DOMAIN src.rows
      BY <1>1, <3>2
    <3> QED
      BY <3>1, <3>3
  <2> QED
    BY <2>1, <2>2
<1> HIDE DEF cols
<1>3. PICK i \in DOMAIN src.rows : \A t \in DOMAIN cols : r[t] = cols[t][i]
  BY <1>2
<1>4. ASSUME NEW t \in DOMAIN cols
      PROVE  \E l \in DOMAIN Columns(src) :
                /\ Target(src, l) = t
                /\ r[t] = IF l \in DOMAIN src.rows[i] THEN src.rows[i][l] ELSE None
  <2>1. PICK l \in DOMAIN Columns(src) : Target(src, l) = t /\ cols[t] = Columns(src)[l]
    BY <1>1
  <2>2. cols[t][i] = IF l \in DOMAIN src.rows[i] THEN src.rows[i][l] ELSE None
    BY <1>1, <2>1
  <2> QED
    BY <1>3, <2>1, <2>2
<1> QED
  BY <1>4 DEF FromOneRow, cols

\* Numbers that are not told apart by a set of them are the same.
LEMMA AtMostOne ==
    ASSUME NEW S, IsFiniteSet(S), ~(Cardinality(S) > 1), NEW x \in S, NEW y \in S
    PROVE  x = y
<1>1. SUFFICES ASSUME x # y PROVE FALSE
  OBVIOUS
<1>2. IsFiniteSet(S \ {x}) /\ Cardinality(S \ {x}) = Cardinality(S) - 1 /\ Cardinality(S) \in Nat
  BY FS_RemoveElement, FS_CardinalityType
<1>3. S \ {x} # {}
  BY <1>1
<1>4. Cardinality(S \ {x}) # 0 /\ Cardinality(S \ {x}) \in Nat
  BY <1>2, <1>3, FS_EmptySet, FS_CardinalityType
<1> QED
  BY <1>2, <1>4

\* Runs whose values are those of runs that are drawn are drawn as well.
LEMMA PickedThrough ==
    ASSUME NEW rs, NEW from, NEW D, Within(rs, from, D),
           NEW entries, DOMAIN entries \in SUBSET D, NEW mode,
           \A j \in DOMAIN from : Picks(from[j], entries, mode)
    PROVE  \A i \in DOMAIN rs : Picks(rs[i], entries, mode)
<1> SUFFICES ASSUME NEW i \in DOMAIN rs PROVE Picks(rs[i], entries, mode)
  OBVIOUS
<1>1. PICK j \in DOMAIN from : \A k \in D : rs[i][k] = from[j][k]
  BY DEF Within
<1>2. Picks(from[j], entries, mode) /\ \A k \in DOMAIN entries : rs[i][k] = from[j][k]
  BY <1>1
<1>3. DOMAIN entries # {} => (CHOOSE k \in DOMAIN entries : TRUE) \in DOMAIN entries
  OBVIOUS
<1> QED
  BY <1>2, <1>3 DEF Picks

\* What a block must give.
BlockGood(block, rs) ==
    /\ Uniform(rs, Keys(block)) /\ Len(rs) = CountBlock(block)
    /\ \A i \in DOMAIN rs : /\ Picks(rs[i], block.context, block.mode)
                            /\ Picks(rs[i], SourceOf(block).columns, SourceMode(block))
    /\ /\ Differ(block.context, block.mode)
       /\ Differ(SourceOf(block).columns, SourceMode(block))
       => Apart(rs, Keys(block))

\* A block without an error, way by way.
LEMMA BlockIs ==
    ASSUME NEW block, Block(block).error = "none"
    PROVE  LET columns == SourceOf(block).columns
               given == Expand(block.context, block.mode)
               read == Expand(columns, SourceMode(block))
               OrOne(entries, rs) == IF DOMAIN entries = {} THEN <<NoEntries>> ELSE rs
               parts == {part \in {<<block.context, given>>, <<columns, read>>} :
                            DOMAIN part[1] # {}}
           IN  /\ SourceOf(block).error = "none"
               /\ DOMAIN block.context \intersect DOMAIN columns = {}
               /\ given.error = "none" /\ read.error = "none"
               /\ \/ /\ block.mode = "combinatorial"
                     /\ Block(block).runs =
                          Cross(OrOne(block.context, given.runs), OrOne(columns, read.runs))
                  \/ /\ block.mode = "by_position"
                     /\ ~(Cardinality({Len(part[2].runs) : part \in parts}) > 1)
                     /\ \/ DOMAIN columns = {} /\ Block(block).runs = given.runs
                        \/ /\ DOMAIN columns # {} /\ DOMAIN block.context = {}
                           /\ Block(block).runs = read.runs
                        \/ /\ DOMAIN columns # {} /\ DOMAIN block.context # {}
                           /\ Block(block).runs = Pairwise(given.runs, read.runs)
<1> DEFINE columns == SourceOf(block).columns
           given == Expand(block.context, block.mode)
           read == Expand(columns, SourceMode(block))
           OrOne(entries, rs) == IF DOMAIN entries = {} THEN <<NoEntries>> ELSE rs
           parts == {part \in {<<block.context, given>>, <<columns, read>>} : DOMAIN part[1] # {}}
           sizes == {Len(part[2].runs) : part \in parts}
           crossed == Cross(OrOne(block.context, given.runs), OrOne(columns, read.runs))
           paired == Pairwise(given.runs, read.runs)
           e == SourceOf(block).error
           Meet == DOMAIN block.context \intersect DOMAIN columns # {}
<1>1. \/ e # "none" /\ Block(block) = Error(e)
      \/ Block(block) = Error("twice") \/ Block(block) = Error("mode")
      \/ Block(block) = Error("sizes")
      \/ given.error # "none" /\ Block(block) = given
      \/ read.error # "none" /\ Block(block) = read
      \/ /\ e = "none" /\ ~Meet /\ given.error = "none" /\ read.error = "none"
         /\ \/ block.mode = "combinatorial" /\ Block(block) = Ok(crossed)
            \/ /\ block.mode \in {"by_position", "combinatorial"}
               /\ block.mode # "combinatorial" /\ ~(Cardinality(sizes) > 1)
               /\ \/ DOMAIN columns = {} /\ Block(block) = given
                  \/ DOMAIN columns # {} /\ DOMAIN block.context = {} /\ Block(block) = read
                  \/ /\ DOMAIN columns # {} /\ DOMAIN block.context # {}
                     /\ Block(block) = Ok(paired)
  BY Zenon DEF Block
<1>2. /\ SourceOf(block).error = "none" /\ ~Meet /\ given.error = "none" /\ read.error = "none"
      /\ \/ block.mode = "combinatorial" /\ Block(block).runs = crossed
         \/ /\ block.mode = "by_position" /\ ~(Cardinality(sizes) > 1)
            /\ \/ DOMAIN columns = {} /\ Block(block).runs = given.runs
               \/ DOMAIN columns # {} /\ DOMAIN block.context = {} /\ Block(block).runs = read.runs
               \/ /\ DOMAIN columns # {} /\ DOMAIN block.context # {}
                  /\ Block(block).runs = paired
  <2>1. /\ Error("twice").error # "none" /\ Error("mode").error # "none"
        /\ Error("sizes").error # "none" /\ \A why : Error(why).error = why
        /\ \A rs : Ok(rs).runs = rs
    BY Results
  <2> HIDE DEF columns, given, read, sizes, crossed, paired, Meet
  <2> QED
    BY <1>1, <2>1 DEF e
<1> QED
  BY <1>2, Zenon

\* The number of runs that a block by position announces, when its parts agree on it.
LEMMA CountPositions ==
    ASSUME NEW block, block.mode # "combinatorial", NEW n \in Nat,
           DOMAIN block.context # {} => CountEntries(block.context, block.mode) = n,
           DOMAIN SourceOf(block).columns # {} =>
             CountEntries(SourceOf(block).columns, SourceMode(block)) = n,
           DOMAIN block.context = {} /\ DOMAIN SourceOf(block).columns = {} => n = 0
    PROVE  CountBlock(block) = n
<1> DEFINE one == <<block.context, block.mode>>
           two == <<SourceOf(block).columns, SourceMode(block)>>
           parts == {p \in {one, two} : DOMAIN p[1] # {}}
           counts == {CountEntries(part[1], part[2]) : part \in parts}
<1>1. CountBlock(block) = IF counts = {} THEN 0 ELSE Max(counts)
  BY Zenon DEF CountBlock
<1>2. /\ one[1] = block.context /\ one[2] = block.mode
      /\ two[1] = SourceOf(block).columns /\ two[2] = SourceMode(block)
  OBVIOUS
<1> HIDE DEF one, two
<1>3. \A c \in counts : c = n
  BY <1>2
<1>4. counts = {} => n = 0
  <2>1. counts = {} => parts = {}
    OBVIOUS
  <2>2. parts = {} => DOMAIN one[1] = {} /\ DOMAIN two[1] = {}
    OBVIOUS
  <2> HIDE DEF parts, counts
  <2> QED
    BY <1>2, <2>1, <2>2
<1> HIDE DEF counts
<1>5. counts # {} => Max(counts) = n
  <2> SUFFICES ASSUME counts # {} PROVE Max(counts) = n
    OBVIOUS
  <2>1. counts = {n}
    BY <1>3
  <2>2. \A x \in counts : \A y \in counts : x >= y
    BY <1>3
  <2>3. Max(counts) \in counts
    BY <2>1, <2>2, Zenon DEF Max
  <2> QED
    BY <1>3, <2>3
<1> QED
  BY <1>1, <1>4, <1>5

\* Runs that join the runs of both parts of a block.
LEMMA JoinedGood ==
    ASSUME NEW block, NEW a, NEW b, NEW rs,
           Faithful(a, block.context, block.mode),
           Faithful(b, SourceOf(block).columns, SourceMode(block)),
           Uniform(rs, Keys(block)), Len(rs) = CountBlock(block),
           Within(rs, a, DOMAIN block.context),
           Within(rs, b, DOMAIN SourceOf(block).columns),
           /\ Apart(a, DOMAIN block.context) /\ Apart(b, DOMAIN SourceOf(block).columns)
           => Apart(rs, Keys(block))
    PROVE  BlockGood(block, rs)
<1>1. \A i \in DOMAIN rs : Picks(rs[i], block.context, block.mode)
  <2>1. \A j \in DOMAIN a : Picks(a[j], block.context, block.mode)
    BY DEF Faithful
  <2>2. DOMAIN block.context \in SUBSET DOMAIN block.context
    OBVIOUS
  <2> QED
    BY <2>1, <2>2, PickedThrough
<1>2. \A i \in DOMAIN rs : Picks(rs[i], SourceOf(block).columns, SourceMode(block))
  <2>1. \A j \in DOMAIN b : Picks(b[j], SourceOf(block).columns, SourceMode(block))
    BY DEF Faithful
  <2>2. DOMAIN SourceOf(block).columns \in SUBSET DOMAIN SourceOf(block).columns
    OBVIOUS
  <2> QED
    BY <2>1, <2>2, PickedThrough
<1>3. /\ Differ(block.context, block.mode) => Apart(a, DOMAIN block.context)
      /\ Differ(SourceOf(block).columns, SourceMode(block)) =>
           Apart(b, DOMAIN SourceOf(block).columns)
  BY DEF Faithful
<1> QED
  BY <1>1, <1>2, <1>3 DEF BlockGood

LEMMA BlockOk ==
    ASSUME NEW block, AreLists(block.context), AreKeys(DOMAIN block.context),
           block.source # NoSource =>
             IsSource(block.source) /\ AreKeys(DOMAIN SourceOf(block).columns),
           Block(block).error = "none"
    PROVE  /\ BlockGood(block, Block(block).runs)
           /\ block.source # NoSource => Source(block.source).error = "none"
<1> DEFINE context == block.context
           columns == SourceOf(block).columns
           mode == block.mode
           smode == SourceMode(block)
           given == Expand(context, mode)
           read == Expand(columns, smode)
           OrOne(entries, rs) == IF DOMAIN entries = {} THEN <<NoEntries>> ELSE rs
           parts == {part \in {<<context, given>>, <<columns, read>>} : DOMAIN part[1] # {}}
           sizes == {Len(part[2].runs) : part \in parts}
           a == OrOne(context, given.runs)
           b == OrOne(columns, read.runs)
           rs == Block(block).runs
<1>1. /\ SourceOf(block).error = "none" /\ DOMAIN context \intersect DOMAIN columns = {}
      /\ given.error = "none" /\ read.error = "none"
      /\ \/ mode = "combinatorial" /\ rs = Cross(a, b)
         \/ /\ mode = "by_position" /\ ~(Cardinality(sizes) > 1)
            /\ \/ DOMAIN columns = {} /\ rs = given.runs
               \/ DOMAIN columns # {} /\ DOMAIN context = {} /\ rs = read.runs
               \/ DOMAIN columns # {} /\ DOMAIN context # {} /\ rs = Pairwise(given.runs, read.runs)
  BY BlockIs, Zenon
<1>2. AreLists(columns) /\ AreKeys(DOMAIN columns)
  <2>1. CASE block.source = NoSource
    <3>1. columns = NoEntries
      BY <2>1 DEF SourceOf
    <3>2. DOMAIN columns = {}
      BY <3>1 DEF NoEntries
    <3> QED
      BY <3>2, FS_EmptySet DEF AreLists, AreKeys
  <2>2. CASE block.source # NoSource
    <3>1. SourceOf(block) = Source(block.source)
      BY <2>2 DEF SourceOf
    <3> QED
      BY <1>1, <2>2, <3>1, SourceOk
  <2> QED
    BY <2>1, <2>2
<1>3. /\ DOMAIN context # {} => /\ Faithful(given.runs, context, mode)
                                /\ Len(given.runs) = CountEntries(context, mode)
      /\ DOMAIN context = {} => given = Ok(<<>>) /\ Faithful(<<NoEntries>>, context, mode)
  BY <1>1, ExpandedOk, NothingOk
<1>4. /\ DOMAIN columns # {} => /\ Faithful(read.runs, columns, smode)
                                /\ Len(read.runs) = CountEntries(columns, smode)
      /\ DOMAIN columns = {} => Faithful(<<NoEntries>>, columns, smode)
  <2> HIDE DEF columns, smode
  <2> QED
    BY <1>1, <1>2, ExpandedOk, NothingOk
<1>5. Keys(block) = DOMAIN context \union DOMAIN columns
  BY DEF Keys
<1>6. block.source # NoSource => Source(block.source).error = "none"
  BY <1>1 DEF SourceOf
<1> HIDE DEF given, read
<1>7. ASSUME mode = "combinatorial", rs = Cross(a, b) PROVE BlockGood(block, rs)
  <2>1. Faithful(a, context, mode) /\ Faithful(b, columns, smode)
    BY <1>3, <1>4
  <2>2. /\ Len(a) = IF DOMAIN context = {} THEN 1 ELSE CountEntries(context, mode)
        /\ Len(b) = IF DOMAIN columns = {} THEN 1 ELSE CountEntries(columns, smode)
    BY <1>3, <1>4, OneRun
  <2>3. Len(a) * Len(b) = CountBlock(block)
    <3> HIDE DEF a, b
    <3> QED
      BY <1>7, <2>2, Zenon DEF CountBlock
  <2> HIDE DEF a, b, context, columns, mode, smode, rs
  <2>4. Uniform(a, DOMAIN context) /\ Uniform(b, DOMAIN columns)
    BY <2>1 DEF Faithful
  <2>5. /\ Uniform(rs, Keys(block)) /\ Len(rs) = Len(a) * Len(b)
        /\ Within(rs, a, DOMAIN context) /\ Within(rs, b, DOMAIN columns)
        /\ Apart(a, DOMAIN context) /\ Apart(b, DOMAIN columns) => Apart(rs, Keys(block))
    <3> DEFINE D == DOMAIN context  E == DOMAIN columns
    <3>1. D \intersect E = {} /\ Uniform(a, D) /\ Uniform(b, E) /\ Keys(block) = D \union E
      BY <1>1, <1>5, <2>4
    <3> HIDE DEF D, E
    <3>2. /\ Uniform(Cross(a, b), D \union E) /\ Len(Cross(a, b)) = Len(a) * Len(b)
          /\ Within(Cross(a, b), a, D) /\ Within(Cross(a, b), b, E)
          /\ Apart(a, D) /\ Apart(b, E) => Apart(Cross(a, b), D \union E)
      BY <3>1, Crossed
    <3> QED
      BY <1>7, <3>1, <3>2 DEF D, E
  <2> QED
    BY <2>1, <2>3, <2>5, JoinedGood DEF context, columns, mode, smode
<1>8. ASSUME mode = "by_position", DOMAIN columns = {}, rs = given.runs PROVE BlockGood(block, rs)
  <2>0. \A r : Picks(r, columns, smode)
    BY <1>8 DEF Picks
  <2>1. CASE DOMAIN context = {}
    <3>1. rs = <<>>
      BY <1>3, <1>8, <2>1, Results
    <3>2. CountBlock(block) = 0
      BY <1>8, <2>1, CountPositions
    <3> HIDE DEF rs
    <3> QED
      BY <3>1, <3>2, NoRuns DEF BlockGood
  <2>2. CASE DOMAIN context # {}
    <3>1. Faithful(rs, context, mode) /\ Len(rs) = CountEntries(context, mode)
      BY <1>3, <1>8, <2>2
    <3>2. Keys(block) = DOMAIN context
      BY <1>5, <1>8
    <3> HIDE DEF rs
    <3>3. Len(rs) \in Nat
      BY <3>1, ListShape DEF Faithful, Uniform
    <3>4. CountBlock(block) = Len(rs)
      BY <1>8, <2>2, <3>1, <3>3, CountPositions
    <3> QED
      BY <2>0, <3>1, <3>2, <3>4 DEF BlockGood, Faithful
  <2> QED
    BY <2>1, <2>2
<1>9. ASSUME mode = "by_position", DOMAIN columns # {}, DOMAIN context = {}, rs = read.runs
      PROVE  BlockGood(block, rs)
  <2>0. \A r : Picks(r, context, mode)
    BY <1>9 DEF Picks
  <2>1. Faithful(rs, columns, smode) /\ Len(rs) = CountEntries(columns, smode)
    BY <1>4, <1>9
  <2>2. Keys(block) = DOMAIN columns
    BY <1>5, <1>9
  <2> HIDE DEF rs
  <2>3. Len(rs) \in Nat
    BY <2>1, ListShape DEF Faithful, Uniform
  <2>4. CountBlock(block) = Len(rs)
    BY <1>9, <2>1, <2>3, CountPositions
  <2> QED
    BY <2>0, <2>1, <2>2, <2>4 DEF BlockGood, Faithful
<1>10. ASSUME mode = "by_position", DOMAIN columns # {}, DOMAIN context # {},
              ~(Cardinality(sizes) > 1), rs = Pairwise(given.runs, read.runs)
       PROVE  BlockGood(block, rs)
  <2>1. Len(given.runs) = Len(read.runs)
    <3> DEFINE one == <<context, given>>  two == <<columns, read>>
    <3>1. one[2] = given /\ two[2] = read /\ parts = {one, two}
      BY <1>10
    <3> HIDE DEF one, two, parts
    <3>2. sizes = {Len(given.runs)} \union {Len(read.runs)}
      BY <3>1
    <3> HIDE DEF sizes
    <3>3. IsFiniteSet(sizes) /\ Len(given.runs) \in sizes /\ Len(read.runs) \in sizes
      BY <3>2, FS_Singleton, FS_AddElement
    <3> QED
      BY <1>10, <3>3, AtMostOne
  <2>2. /\ Faithful(given.runs, context, mode) /\ Faithful(read.runs, columns, smode)
        /\ Len(given.runs) = CountEntries(context, mode)
        /\ Len(read.runs) = CountEntries(columns, smode)
    BY <1>3, <1>4, <1>10
  <2>3. Uniform(given.runs, DOMAIN context) /\ Uniform(read.runs, DOMAIN columns)
    BY <2>2 DEF Faithful
  <2>4. CountBlock(block) = Len(given.runs)
    <3>1. Len(given.runs) \in Nat
      BY <2>3, ListShape DEF Uniform
    <3> QED
      BY <1>10, <2>1, <2>2, <3>1, CountPositions
  <2> HIDE DEF context, columns, mode, smode, rs
  <2>5. /\ Uniform(rs, Keys(block)) /\ Len(rs) = Len(given.runs)
        /\ Within(rs, given.runs, DOMAIN context) /\ Within(rs, read.runs, DOMAIN columns)
        /\ Apart(given.runs, DOMAIN context) => Apart(rs, Keys(block))
    <3> DEFINE D == DOMAIN context  E == DOMAIN columns  f == given.runs  g == read.runs
    <3>1. /\ D \intersect E = {} /\ Uniform(f, D) /\ Uniform(g, E) /\ Len(f) = Len(g)
          /\ Keys(block) = D \union E
      BY <1>1, <1>5, <2>1, <2>3
    <3> HIDE DEF D, E, f, g
    <3>2. /\ Uniform(Pairwise(f, g), D \union E) /\ Len(Pairwise(f, g)) = Len(f)
          /\ Within(Pairwise(f, g), f, D) /\ Within(Pairwise(f, g), g, E)
          /\ Apart(f, D) => Apart(Pairwise(f, g), D \union E)
      BY <3>1, Paired
    <3> QED
      BY <1>10, <3>1, <3>2 DEF D, E, f, g
  <2> QED
    BY <2>2, <2>4, <2>5, JoinedGood DEF context, columns, mode, smode
<1> QED
  BY <1>1, <1>6, <1>7, <1>8, <1>9, <1>10

LEMMA CountedSteps ==
    ASSUME NEW f, NEW parts, NEW N \in Nat, CountedTo(f, parts, N),
           NEW lens, NEW id, \A m \in 1 .. N : id[m] = m /\ lens[m] = Len(parts[m])
    PROVE  Multiplies(f, lens, id, N)
<1>1. f[0] = 1 /\ \A m \in 0 .. N - 1 : f[m + 1] = f[m] * Len(parts[m + 1])
  BY DEF CountedTo
<1>2. \A m \in 0 .. N - 1 : m + 1 \in 1 .. N
  OBVIOUS
<1> QED
  BY <1>1, <1>2 DEF Multiplies

\* Blocks that have no key in common, combined.
LEMMA CombinedOk ==
    ASSUME NEW spec, IsList(spec.blocks), spec.max_runs \in Int,
           NEW parts, parts = [i \in DOMAIN spec.blocks |-> Block(spec.blocks[i]).runs],
           \A i \in DOMAIN spec.blocks : BlockGood(spec.blocks[i], parts[i]),
           \A i, j \in DOMAIN spec.blocks :
             i # j => Keys(spec.blocks[i]) \intersect Keys(spec.blocks[j]) = {},
           Combine(spec, parts).error = "none"
    PROVE  LET rs == Combine(spec, parts).runs IN
           /\ Uniform(rs, KeysOf(spec)) /\ Len(rs) = Count(spec)
           /\ rs # <<>> /\ spec.blocks # <<>> => Len(rs) <= spec.max_runs
           /\ \A b \in DOMAIN spec.blocks : Within(rs, parts[b], Keys(spec.blocks[b]))
           /\ AllDiffer(spec) => Apart(rs, KeysOf(spec))
<1> DEFINE rs == Combine(spec, parts).runs
           N == Len(spec.blocks)
           K == [i \in 1 .. N |-> Keys(spec.blocks[i])]
           sizes == {Len(parts[i]) : i \in DOMAIN parts}
           total == Announced(spec, parts)
<1>1. N \in Nat /\ DOMAIN spec.blocks = 1 .. N /\ (spec.blocks = <<>> <=> N = 0)
  <2>1. N \in Nat /\ DOMAIN spec.blocks = 1 .. N
    BY ListShape
  <2>2. spec.blocks = <<>> <=> N = 0
    BY DEF IsList
  <2> QED
    BY <2>1, <2>2
<1>2. IsList(parts) /\ Len(parts) = N /\ DOMAIN parts = 1 .. N
  <2>1. parts = [i \in 1 .. N |-> parts[i]] /\ DOMAIN parts = 1 .. N
    BY <1>1
  <2> HIDE DEF N
  <2> QED
    BY <1>1, <2>1, ListOf
<1>3. parts = <<>> <=> N = 0
  <2>1. parts = <<>> <=> Len(parts) = 0
    BY <1>2 DEF IsList
  <2> QED
    BY <1>2, <2>1
<1>4. \A i \in 1 .. N : /\ Uniform(parts[i], K[i]) /\ Len(parts[i]) = CountBlock(spec.blocks[i])
                        /\ AllDiffer(spec) => Apart(parts[i], K[i])
                        /\ K[i] = Keys(spec.blocks[i])
  BY <1>1 DEF BlockGood, AllDiffer
<1>5. \A i, j \in 1 .. N : i # j => K[i] \intersect K[j] = {}
  BY <1>1
<1>6. KeysOf(spec) = Taken(K, N)
  BY <1>1 DEF KeysOf, Taken
<1>7. \A i \in 1 .. N : CountBlock(spec.blocks[i]) \in Nat
  <2> SUFFICES ASSUME NEW i \in 1 .. N PROVE CountBlock(spec.blocks[i]) \in Nat
    OBVIOUS
  <2>1. Uniform(parts[i], K[i]) /\ Len(parts[i]) = CountBlock(spec.blocks[i])
    BY <1>4
  <2>2. Len(parts[i]) \in Nat
    BY <2>1, ListShape DEF Uniform
  <2> QED
    BY <2>1, <2>2
<1>8. \/ parts = <<>> /\ rs = <<NoEntries>>
      \/ parts # <<>> /\ spec.combine = "combinatorial" /\ 0 \in sizes /\ rs = <<>>
      \/ parts # <<>> /\ ~(total > spec.max_runs) /\ spec.combine = "combinatorial" /\ rs = CrossAll(parts)
      \/ /\ parts # <<>> /\ ~(total > spec.max_runs) /\ spec.combine = "by_position"
         /\ ~(Cardinality(sizes) > 1) /\ rs = PairAll(parts)
  <2> DEFINE c == Combine(spec, parts)
  <2>1. \/ parts = <<>> /\ c = Ok(<<NoEntries>>)
        \/ c = Error("combine") \/ c = Error("combineSizes") \/ c = Error("maxRuns")
        \/ parts # <<>> /\ spec.combine = "combinatorial" /\ 0 \in sizes /\ c = Ok(<<>>)
        \/ parts # <<>> /\ ~(total > spec.max_runs) /\ spec.combine = "combinatorial"
           /\ c = Ok(CrossAll(parts))
        \/ /\ parts # <<>> /\ ~(total > spec.max_runs)
           /\ spec.combine \in {"by_position", "combinatorial"} /\ spec.combine # "combinatorial"
           /\ ~(spec.combine = "by_position" /\ Cardinality(sizes) > 1)
           /\ c = Ok(PairAll(parts))
    <3> HIDE DEF total
    <3> QED
      BY Zenon DEF Combine, total
  <2>2. /\ Error("combine").error # "none" /\ Error("combineSizes").error # "none"
        /\ Error("maxRuns").error # "none" /\ \A q : Ok(q).runs = q
    BY Results
  <2> HIDE DEF c, sizes, total
  <2> QED
    BY <2>1, <2>2 DEF c
<1> HIDE DEF rs, K
<1>9. Apart(<<NoEntries>>, KeysOf(spec)) /\ Apart(<<>>, KeysOf(spec))
  BY DEF Apart
<1>10. CASE parts = <<>> /\ rs = <<NoEntries>>
  <2>1. N = 0 /\ KeysOf(spec) = {} /\ spec.blocks = <<>>
    BY <1>1, <1>3, <1>10 DEF KeysOf
  <2>2. Count(spec) = 1
    BY <2>1 DEF Count
  <2> HIDE DEF N
  <2> QED
    BY <1>1, <1>9, <1>10, <2>1, <2>2, OneRun DEF rs
<1>11. ASSUME spec.combine = "combinatorial", N # 0
       PROVE  /\ Count(spec) = ProductOver([i \in 1 .. N |-> CountBlock(spec.blocks[i])], 1 .. N)
              /\ IsFiniteSet(1 .. N)
              /\ \A x \in 1 .. N : [i \in 1 .. N |-> CountBlock(spec.blocks[i])][x] \in Nat
  <2> HIDE DEF N
  <2>1. Count(spec) = ProductOver([i \in DOMAIN spec.blocks |-> CountBlock(spec.blocks[i])],
                                  DOMAIN spec.blocks)
    BY <1>1, <1>11 DEF Count
  <2>2. [i \in DOMAIN spec.blocks |-> CountBlock(spec.blocks[i])] =
          [i \in 1 .. N |-> CountBlock(spec.blocks[i])]
    BY <1>1
  <2>3. \A x \in 1 .. N : [i \in 1 .. N |-> CountBlock(spec.blocks[i])][x] \in Nat
    BY <1>7
  <2>4. IsFiniteSet(1 .. N)
    <3>1. 1 \in Int /\ N \in Int
      BY <1>1
    <3> HIDE DEF N
    <3> QED
      BY <3>1, FS_Interval
  <2> QED
    BY <1>1, <2>1, <2>2, <2>3, <2>4
<1> DEFINE lens == [i \in 1 .. N |-> CountBlock(spec.blocks[i])]
<1>12. CASE parts # <<>> /\ spec.combine = "combinatorial" /\ 0 \in sizes /\ rs = <<>>
  <2>1. PICK i \in 1 .. N : Len(parts[i]) = 0
    BY <1>2, <1>12
  <2>2. lens[i] = 0
    BY <1>4, <2>1
  <2> HIDE DEF N, lens, sizes
  <2>3. ProductOver(lens, 1 .. N) = lens[i] * ProductOver(lens, (1 .. N) \ {i})
    BY <1>3, <1>11, <1>12, ProductSplit DEF lens
  <2>4. ProductOver(lens, (1 .. N) \ {i}) \in Nat
    <3>1. IsFiniteSet((1 .. N) \ {i}) /\ \A x \in (1 .. N) \ {i} : lens[x] \in Nat
      BY <1>3, <1>11, <1>12, FS_Subset DEF lens
    <3> QED
      BY <3>1, ProductType
  <2>5. Count(spec) = 0
    BY <1>3, <1>11, <1>12, <2>2, <2>3, <2>4 DEF lens
  <2>6. Uniform(<<>>, KeysOf(spec)) /\ Len(<<>>) = 0 /\ \A from, D : Within(<<>>, from, D)
    BY NoRuns DEF Within
  <2> QED
    BY <1>9, <1>12, <2>5, <2>6 DEF rs
<1>13. CASE /\ parts # <<>> /\ ~(total > spec.max_runs) /\ spec.combine = "combinatorial"
            /\ rs = CrossAll(parts)
  <2> DEFINE f == CHOOSE g : CountedTo(g, parts, N)
             id == [i \in 1 .. N |-> i]
  <2>1. CountedTo(f, parts, N)
    BY <1>1, CountsExist, Zenon
  <2>2. total = f[N]
    <3>1. spec.combine = "combinatorial" /\ Len(parts) = N
      BY <1>2, <1>13
    <3> HIDE DEF N
    <3> QED
      BY <3>1, Zenon DEF Announced, CountedTo
  <2> HIDE DEF f, total, sizes
  <2>3. /\ Uniform(rs, Taken(K, N)) /\ \A i \in 1 .. N : Within(rs, parts[i], K[i])
        /\ (\A i \in 1 .. N : Apart(parts[i], K[i])) => Apart(rs, Taken(K, N))
        /\ Len(rs) = f[N]
    <3>1. /\ \A i \in DOMAIN parts : Uniform(parts[i], K[i])
          /\ \A i, j \in 1 .. Len(parts) : i # j => K[i] \intersect K[j] = {}
      BY <1>2, <1>4, <1>5
    <3> HIDE DEF N
    <3>2. /\ Uniform(CrossAll(parts), Taken(K, Len(parts)))
          /\ \A i \in DOMAIN parts : Within(CrossAll(parts), parts[i], K[i])
          /\ (\A i \in DOMAIN parts : Apart(parts[i], K[i])) =>
               Apart(CrossAll(parts), Taken(K, Len(parts)))
          /\ \A c : CountedTo(c, parts, Len(parts)) => Len(CrossAll(parts)) = c[Len(parts)]
      BY <1>2, <3>1, AllCrossed
    <3> QED
      BY <1>2, <1>13, <2>1, <3>2
  <2>4. f[N] = ProductOver(lens, 1 .. N)
    <3>1. Enumerates(id, N, 1 .. N)
      BY DEF Enumerates
    <3>2. \A m \in 1 .. N : id[m] = m /\ lens[m] = Len(parts[m])
      BY <1>4
    <3> HIDE DEF id, lens, N
    <3>5. Multiplies(f, lens, id, N)
      BY <1>1, <2>1, <3>2, CountedSteps
    <3>6. \A x \in 1 .. N : lens[x] \in Nat
      BY <1>3, <1>11, <1>13 DEF lens
    <3> QED
      BY <1>1, <3>1, <3>5, <3>6, ProductAlong
  <2> HIDE DEF N, lens
  <2>5. Len(rs) \in Nat
    BY <2>3, ListShape DEF Uniform
  <2>6. Len(rs) <= spec.max_runs /\ Len(rs) = Count(spec)
    BY <1>3, <1>11, <1>13, <2>2, <2>3, <2>4, <2>5 DEF lens
  <2>7. \A b \in DOMAIN spec.blocks : Within(rs, parts[b], Keys(spec.blocks[b]))
    BY <1>1, <1>4, <2>3
  <2> QED
    BY <1>4, <1>6, <2>3, <2>6, <2>7 DEF rs
<1>14. CASE /\ parts # <<>> /\ ~(total > spec.max_runs) /\ spec.combine = "by_position"
            /\ ~(Cardinality(sizes) > 1) /\ rs = PairAll(parts)
  <2>1. total = Len(parts[1])
    BY <1>14 DEF Announced
  <2>2. IsFiniteSet(sizes)
    <3> DEFINE f == [i \in DOMAIN parts |-> Len(parts[i])]
    <3>1. f \in Surjection(DOMAIN parts, sizes)
      BY DEF Surjection
    <3>2. IsFiniteSet(DOMAIN parts)
      BY <1>1, <1>2, FS_Interval
    <3> HIDE DEF sizes, f
    <3> QED
      BY <3>1, <3>2, FS_Surjection
  <2>3. 1 \in DOMAIN parts /\ 1 \in 1 .. N
    BY <1>1, <1>2, <1>3, <1>14
  <2>4. \A i \in DOMAIN parts : Len(parts[i]) \in sizes
    OBVIOUS
  <2> HIDE DEF sizes, total
  <2>5. \A i \in DOMAIN parts : Len(parts[i]) = Len(parts[1])
    <3> SUFFICES ASSUME NEW i \in DOMAIN parts PROVE Len(parts[i]) = Len(parts[1])
      OBVIOUS
    <3> DEFINE x == Len(parts[i])  y == Len(parts[1])
    <3>1. x \in sizes /\ y \in sizes /\ ~(Cardinality(sizes) > 1)
      BY <1>14, <2>3, <2>4
    <3> HIDE DEF x, y
    <3>2. x = y
      BY <2>2, <3>1, AtMostOne
    <3> QED
      BY <3>2 DEF x, y
  <2>6. /\ Uniform(rs, Taken(K, N)) /\ Len(rs) = Len(parts[1])
        /\ \A i \in 1 .. N : Within(rs, parts[i], K[i])
        /\ (\A i \in 1 .. N : Apart(parts[i], K[i])) => Apart(rs, Taken(K, N))
    <3>1. /\ \A i \in DOMAIN parts : Uniform(parts[i], K[i])
          /\ \A i, j \in 1 .. Len(parts) : i # j => K[i] \intersect K[j] = {}
      BY <1>2, <1>4, <1>5
    <3> HIDE DEF N
    <3>2. /\ Uniform(PairAll(parts), Taken(K, Len(parts)))
          /\ Len(PairAll(parts)) = Len(parts[1])
          /\ \A i \in DOMAIN parts : Within(PairAll(parts), parts[i], K[i])
          /\ (\A i \in DOMAIN parts : Apart(parts[i], K[i])) =>
               Apart(PairAll(parts), Taken(K, Len(parts)))
      BY <1>2, <1>14, <2>5, <3>1, AllPaired
    <3> QED
      BY <1>2, <1>14, <3>2
  <2> HIDE DEF N
  <2>7. Len(rs) \in Nat
    BY <2>6, ListShape DEF Uniform
  <2>8. Len(rs) <= spec.max_runs
    BY <1>14, <2>1, <2>6, <2>7
  <2>9. Len(rs) = Count(spec)
    <3>1. N # 0 /\ Len(parts[1]) = CountBlock(spec.blocks[1])
      BY <1>3, <1>4, <1>14, <2>3
    <3>2. Count(spec) = CountBlock(spec.blocks[1])
      BY <1>1, <1>14, <3>1 DEF Count
    <3> QED
      BY <2>6, <3>1, <3>2
  <2>10. \A b \in DOMAIN spec.blocks : Within(rs, parts[b], Keys(spec.blocks[b]))
    BY <1>1, <1>4, <2>6
  <2> QED
    BY <1>4, <1>6, <2>6, <2>8, <2>9, <2>10 DEF rs
<1> QED
  BY <1>8, <1>10, <1>12, <1>13, <1>14

\* An error leaves no runs.
LEMMA CombineFails ==
    ASSUME NEW spec, NEW parts, Combine(spec, parts).error # "none"
    PROVE  Combine(spec, parts).runs = <<>>
<1>1. (\E why : Combine(spec, parts) = Error(why)) \/ \E rs : Combine(spec, parts) = Ok(rs)
  BY Zenon DEF Combine
<1> QED
  BY <1>1, Results

\* What an error in a block, or none, decides.
LEMMA ErrorsDecide ==
    ASSUME NEW spec, IsRunSpace(spec)
    PROVE  LET parts == [i \in DOMAIN spec.blocks |-> Block(spec.blocks[i]).runs] IN
           \/ ExpandRunSpace(spec).error # "none" /\ ExpandRunSpace(spec).runs = <<>>
           \/ /\ ExpandRunSpace(spec) = Combine(spec, parts)
              /\ \A i \in DOMAIN spec.blocks : Block(spec.blocks[i]).error = "none"
              /\ \A i, j \in DOMAIN spec.blocks :
                   i # j => Keys(spec.blocks[i]) \intersect Keys(spec.blocks[j]) = {}
<1> DEFINE x == ExpandRunSpace(spec)
           parts == [i \in DOMAIN spec.blocks |-> Block(spec.blocks[i]).runs]
           wrong == {i \in DOMAIN spec.blocks : BlockError(spec.blocks, i) # "none"}
<1>1. Len(spec.blocks) \in Nat /\ DOMAIN spec.blocks = 1 .. Len(spec.blocks)
  BY ListShape DEF IsRunSpace
<1>2. \/ wrong # {} /\ x = Error(BlockError(spec.blocks, Min(wrong)))
      \/ wrong = {} /\ x = Combine(spec, parts)
  BY Zenon DEF ExpandRunSpace
<1>3. CASE wrong # {}
  <2>1. wrong \in SUBSET Nat
    BY <1>1
  <2>2. Min(wrong) \in wrong
    <3> HIDE DEF wrong
    <3>1. \E n \in wrong : \A m \in wrong : n <= m
      BY <1>3, <2>1, Least
    <3> QED
      BY <3>1, Zenon DEF Min
  <2>3. BlockError(spec.blocks, Min(wrong)) # "none"
    BY <2>2
  <2> HIDE DEF wrong, x
  <2>4. x.error # "none" /\ x.runs = <<>>
    BY <1>2, <1>3, <2>3, Results
  <2> QED
    BY <2>4 DEF x
<1>4. CASE wrong = {}
  <2>1. ASSUME NEW i \in DOMAIN spec.blocks
        PROVE  /\ Block(spec.blocks[i]).error = "none"
               /\ \A j \in 1 .. (i - 1) : Keys(spec.blocks[j]) \intersect Keys(spec.blocks[i]) = {}
    <3>1. BlockError(spec.blocks, i) = "none"
      BY <1>4
    <3>2. BlockError(spec.blocks, i) =
            IF Block(spec.blocks[i]).error # "none" THEN Block(spec.blocks[i]).error
            ELSE IF \E j \in 1 .. (i - 1) : Keys(spec.blocks[j]) \intersect Keys(spec.blocks[i]) # {}
            THEN "acrossBlocks" ELSE "none"
      BY DEF BlockError
    <3> QED
      BY <3>1, <3>2
  <2>2. ASSUME NEW i \in DOMAIN spec.blocks, NEW j \in DOMAIN spec.blocks, i # j
        PROVE  Keys(spec.blocks[i]) \intersect Keys(spec.blocks[j]) = {}
    <3>1. i \in 1 .. (j - 1) \/ j \in 1 .. (i - 1)
      BY <1>1, <2>2
    <3> QED
      BY <2>1, <3>1
  <2> QED
    BY <1>2, <1>4, <2>1, <2>2
<1> QED
  BY <1>3, <1>4

\* What is expanded without an error is what the configuration asks for: as many runs as the
\* lists announce, within the limit, each drawn from the lists as the modes tie them, no two of
\* them alike unless a list repeats itself, rows kept together (expand_run_space).
THEOREM ExpansionIsExact ==
    ASSUME NEW spec, IsRunSpace(spec)
    PROVE  /\ Uniform(ExpandRunSpace(spec).runs, KeysOf(spec))
           /\ ExpandRunSpace(spec).error = "none" => IsExpansion(ExpandRunSpace(spec).runs, spec)
<1> DEFINE rs == ExpandRunSpace(spec).runs
           parts == [i \in DOMAIN spec.blocks |-> Block(spec.blocks[i]).runs]
           Sound == /\ ExpandRunSpace(spec) = Combine(spec, parts)
                    /\ \A i \in DOMAIN spec.blocks : Block(spec.blocks[i]).error = "none"
                    /\ \A i, j \in DOMAIN spec.blocks :
                         i # j => Keys(spec.blocks[i]) \intersect Keys(spec.blocks[j]) = {}
<1>1. (ExpandRunSpace(spec).error # "none" /\ rs = <<>>) \/ Sound
  BY ErrorsDecide, Zenon
<1>2. CASE rs = <<>> /\ ExpandRunSpace(spec).error # "none"
  BY <1>2, NoRuns
<1>3. CASE Sound
  <2>1. ASSUME NEW i \in DOMAIN spec.blocks
        PROVE  /\ BlockGood(spec.blocks[i], parts[i])
               /\ spec.blocks[i].source # NoSource =>
                    IsSource(spec.blocks[i].source) /\ Source(spec.blocks[i].source).error = "none"
    <3> DEFINE block == spec.blocks[i]
    <3>1. /\ AreLists(block.context) /\ AreKeys(DOMAIN block.context)
          /\ block.source # NoSource =>
               IsSource(block.source) /\ AreKeys(DOMAIN SourceOf(block).columns)
      BY DEF IsRunSpace
    <3>2. Block(block).error = "none" /\ parts[i] = Block(block).runs
      BY <1>3
    <3> HIDE DEF block, parts
    <3>3. BlockGood(block, Block(block).runs)
          /\ (block.source # NoSource => Source(block.source).error = "none")
      BY <3>1, <3>2, BlockOk
    <3> QED
      BY <3>1, <3>2, <3>3 DEF block
  <2>2. CASE ExpandRunSpace(spec).error = "none"
    <3>1. IsList(spec.blocks) /\ spec.max_runs \in Int /\ Combine(spec, parts).error = "none"
      BY <1>3, <2>2 DEF IsRunSpace
    <3>2. rs = Combine(spec, parts).runs
      BY <1>3
    <3>3. parts = [i \in DOMAIN spec.blocks |-> Block(spec.blocks[i]).runs]
      OBVIOUS
    <3>4. \A i, j \in DOMAIN spec.blocks :
            i # j => Keys(spec.blocks[i]) \intersect Keys(spec.blocks[j]) = {}
      BY <1>3
    <3> HIDE DEF parts, rs
    <3>5. /\ Uniform(rs, KeysOf(spec)) /\ Len(rs) = Count(spec)
          /\ rs # <<>> /\ spec.blocks # <<>> => Len(rs) <= spec.max_runs
          /\ \A b \in DOMAIN spec.blocks : Within(rs, parts[b], Keys(spec.blocks[b]))
          /\ AllDiffer(spec) => Apart(rs, KeysOf(spec))
      BY <2>1, <3>1, <3>2, <3>3, <3>4, CombinedOk
    <3>6. ASSUME NEW b \in DOMAIN spec.blocks
          PROVE  \A i \in DOMAIN rs :
                   /\ Picks(rs[i], spec.blocks[b].context, spec.blocks[b].mode)
                   /\ Picks(rs[i], SourceOf(spec.blocks[b]).columns, SourceMode(spec.blocks[b]))
      <4> DEFINE block == spec.blocks[b]  D == Keys(block)
      <4>1. Within(rs, parts[b], D) /\ BlockGood(block, parts[b])
        BY <2>1, <3>5
      <4>2. /\ DOMAIN block.context \in SUBSET D
            /\ DOMAIN SourceOf(block).columns \in SUBSET D
        BY DEF Keys
      <4> HIDE DEF block, D
      <4>3. \A i \in DOMAIN parts[b] : /\ Picks(parts[b][i], block.context, block.mode)
                                       /\ Picks(parts[b][i], SourceOf(block).columns, SourceMode(block))
        BY <4>1 DEF BlockGood
      <4>4. \A i \in DOMAIN rs : Picks(rs[i], block.context, block.mode)
        BY <4>1, <4>2, <4>3, PickedThrough
      <4>5. \A i \in DOMAIN rs : Picks(rs[i], SourceOf(block).columns, SourceMode(block))
        BY <4>1, <4>2, <4>3, PickedThrough
      <4> QED
        BY <4>4, <4>5 DEF block
    <3>7. \A i \in DOMAIN rs : Drawn(rs[i], spec)
      BY <3>5, <3>6 DEF Drawn, Uniform
    <3>8. AllDiffer(spec) => \A i, j \in DOMAIN rs : rs[i] = rs[j] => i = j
      BY <3>5 DEF Apart
    <3>9. ASSUME NEW b \in DOMAIN spec.blocks, InRows(spec.blocks[b].source), NEW i \in DOMAIN rs
          PROVE  FromOneRow(rs[i], spec.blocks[b].source)
      <4> DEFINE block == spec.blocks[b]  src == block.source
      <4>1. block.source # NoSource /\ src.mode = "by_position"
        BY <3>9 DEF InRows, NoSource
      <4>2. IsSource(src) /\ Source(src).error = "none"
        BY <2>1, <4>1
      <4>3. Picks(rs[i], Source(src).columns, "by_position")
        <5>1. Picks(rs[i], SourceOf(block).columns, SourceMode(block))
          BY <3>6
        <5> HIDE DEF block
        <5>2. SourceOf(block) = Source(src) /\ SourceMode(block) = "by_position"
          BY <4>1 DEF SourceOf, SourceMode
        <5> QED
          BY <5>1, <5>2
      <4>4. InRows(src)
        BY <3>9
      <4> HIDE DEF src, block
      <4>5. FromOneRow(rs[i], src)
        BY <4>2, <4>3, <4>4, RowsTogether
      <4> QED
        BY <4>5 DEF src, block
    <3> QED
      BY <3>5, <3>7, <3>8, <3>9 DEF IsExpansion, rs
  <2>3. CASE ExpandRunSpace(spec).error # "none"
    <3>1. rs = <<>>
      BY <1>1, <2>3, CombineFails
    <3> HIDE DEF rs
    <3>2. Uniform(rs, KeysOf(spec))
      BY <3>1, NoRuns
    <3> QED
      BY <2>3, <3>2 DEF rs
  <2> QED
    BY <2>2, <2>3
<1> QED
  BY <1>1, <1>2, <1>3

\* Which configuration a launch expands.
LEMMA SpecIs ==
    ASSUME LaunchTypeOK
    PROVE  \E v \in DOMAIN conf.specs : RunSpaceOf(conf) = conf.specs[v] /\ IsRunSpace(conf.specs[v])
<1>1. /\ IsList(conf.specs) /\ conf.specs # <<>>
      /\ \A v \in DOMAIN conf.specs : IsRunSpace(conf.specs[v])
  BY RunSpaceLaunchAssumption DEF RunSpaceLaunchAssumption, LaunchTypeOK, conf
<1>2. Len(conf.specs) \in Nat \ {0} /\ DOMAIN conf.specs = 1 .. Len(conf.specs)
  <2>1. Len(conf.specs) # 0
    BY <1>1 DEF IsList
  <2> QED
    BY <1>1, <2>1, ListShape
<1>3. edition \in Nat
  BY Assumed DEF LaunchTypeOK
<1>4. CASE edition = Gone
  <2>1. RunSpaceOf(conf) = conf.specs[1] /\ 1 \in DOMAIN conf.specs
    BY <1>2, <1>4 DEF RunSpaceOf
  <2> QED
    BY <1>1, <2>1
<1>5. CASE edition # Gone
  <2> DEFINE n == Len(conf.specs)
             m == Min({edition, n})
  <2>1. m \in {edition, n} /\ m <= n
    <3>1. \E q \in {edition, n} : \A y \in {edition, n} : q <= y
      BY <1>2, <1>3
    <3>2. m \in {edition, n} /\ \A y \in {edition, n} : m <= y
      <4> HIDE DEF n
      <4> QED
        BY <3>1, Zenon DEF Min
    <3> QED
      BY <3>2
  <2> HIDE DEF m
  <2>2. m \in DOMAIN conf.specs
    BY <1>2, <1>3, <1>5, <2>1 DEF Gone
  <2>3. RunSpaceOf(conf) = conf.specs[m]
    BY <1>5 DEF RunSpaceOf, m
  <2> QED
    BY <1>1, <2>2, <2>3
<1> QED
  BY <1>4, <1>5

\* The runs of a launch have the same keys, and the first of them was looked at.
Covered ==
    /\ \E D : Uniform(runs, D)
    /\ step \in {"identify", "start", "loop", "staged", "running", "end"} =>
         conf.required \subseteq Probed
    /\ step = "preflight" =>
         /\ expansion.read = Gone => ~HasSource(conf)
         /\ ExpandRunSpace(SpecAt(conf, expansion.read)).error = "none"

LEMMA CoveredStays ==
    ASSUME Covered, UNCHANGED <<plan, inv, expansion>>,
           step' \in {"identify", "start", "loop", "staged", "running", "end"} =>
             step \in {"identify", "start", "loop", "staged", "running", "end"},
           step' = "preflight" => step = "preflight"
    PROVE  Covered'
BY DEF Covered, runs, conf, Probed, HasSource, SpecAt

LEMMA CoveredStep == LaunchInv /\ Covered /\ [NextLaunch]_launchVars => Covered'
<1> SUFFICES ASSUME LaunchInv, Covered, [NextLaunch]_launchVars PROVE Covered'
  OBVIOUS
<1> DEFINE Late == {"identify", "start", "loop", "staged", "running", "end"}
<1>1. CASE UNCHANGED launchVars
  BY <1>1, CoveredStays DEF launchVars, cli
<1>2. CASE ExpandRuns
  <2>1. PICK result : /\ result = IF edition = Gone /\ HasSource(conf) THEN Error("missing")
                                  ELSE ExpandRunSpace(RunSpaceOf(conf))
                      /\ expansion' = [error |-> result.error, runs |-> result.runs, read |-> edition]
                      /\ step' = "preflight" => result.error = "none"
    BY <1>2, Zenon DEF ExpandRuns, Leave
  <2>2. runs' = result.runs /\ expansion'.read = edition /\ conf' = conf
    BY <1>2, <2>1 DEF runs, ExpandRuns, conf
  <2>3. \E D : Uniform(result.runs, D)
    <3>1. CASE result = Error("missing")
      BY <3>1, Results, NoRuns
    <3>2. CASE result = ExpandRunSpace(RunSpaceOf(conf))
      BY <3>2, SpecIs, ExpansionIsExact DEF LaunchInv
    <3> QED
      BY <2>1, <3>1, <3>2
  <2>4. step' \notin Late
    BY <1>2 DEF ExpandRuns, Leave
  <2>5. ASSUME step' = "preflight"
        PROVE  /\ edition = Gone => ~HasSource(conf)
               /\ ExpandRunSpace(SpecAt(conf, edition)).error = "none"
    <3>1. Error("missing").error # "none"
      BY Results
    <3>2. SpecAt(conf, edition) = RunSpaceOf(conf)
      BY DEF SpecAt, RunSpaceOf
    <3> HIDE DEF conf
    <3> QED
      BY <2>1, <2>5, <3>1, <3>2
  <2>6. (expansion.read)' = edition /\ HasSource(conf)' = HasSource(conf)
        /\ SpecAt(conf, expansion.read)' = SpecAt(conf, edition)
    BY <2>2 DEF SpecAt, HasSource
  <2> QED
    BY <2>2, <2>3, <2>4, <2>5, <2>6 DEF Covered
<1>3. CASE Preflight
  <2>1. UNCHANGED <<plan, inv, expansion>>
    BY <1>3 DEF Preflight
  <2>2. (step' \in Late => conf.required \subseteq Probed) /\ step' # "preflight"
    BY <1>3 DEF Preflight, Leave
  <2> QED
    BY <2>1, <2>2 DEF Covered, runs, conf, Probed
<1>4. CASE Collect
  <2>1. step' \in {"load", "read"} /\ expansion' = [error |-> "none", runs |-> <<>>, read |-> 0]
    BY <1>4 DEF Collect
  <2>2. runs' = <<>>
    BY <2>1 DEF runs
  <2> QED
    BY <2>1, <2>2, NoRuns DEF Covered
<1>5. CASE Load \/ BuildComponents
  <2>1. UNCHANGED <<plan, inv, expansion>> /\ step' \notin Late /\ step' # "preflight"
    BY <1>5 DEF Load, BuildComponents, Leave
  <2> QED
    BY <2>1, CoveredStays
<1>6. CASE Edit \/ InRun \/ CloseRun
  <2>1. UNCHANGED <<plan, inv, expansion, step>>
    BY <1>6 DEF Edit, InRun, CloseRun, cli
  <2> QED
    BY <2>1, CoveredStays
<1>7. CASE \/ Identify \/ EmitStart \/ EmitStartFails \/ Stage \/ StartRun \/ AfterRun
             \/ InterruptLoop \/ EndLoop
           \/ EmitEnd \/ EmitEndFails \/ Exit \/ Kill
  <2>1. UNCHANGED <<plan, inv, expansion>>
    BY <1>7 DEF Identify, EmitStart, EmitStartFails, Stage, StartRun, AfterRun,
             InterruptLoop, Raised, EndLoop, EmitEnd,
                EmitEndFails, Exit, Kill
  <2>2. /\ step \in Late \union {"exit"} /\ (step = "exit" => step' = "exited")
        /\ step' # "preflight"
    BY <1>7 DEF Identify, EmitStart, EmitStartFails, Stage, StartRun, AfterRun,
             InterruptLoop, Raised, EndLoop, EmitEnd,
                EmitEndFails, Exit, Kill, Leave
  <2> QED
    BY <2>1, <2>2, CoveredStays
<1> QED
  BY <1>1, <1>2, <1>3, <1>4, <1>5, <1>6, <1>7 DEF NextLaunch

LEMMA CoveredInit == InitLaunch => Covered
<1> SUFFICES ASSUME InitLaunch PROVE Covered
  OBVIOUS
<1>1. step = "load" /\ expansion = [error |-> "none", runs |-> <<>>, read |-> 0]
  BY DEF InitLaunch, Started
<1> QED
  BY <1>1, NoRuns DEF Covered, runs

\* The preflight check of the command line looks at the first run only, and that is enough: in
\* a run space of any size, no run of a launch that passed it lacks a required context key (_run,
\* expand_run_space).
THEOREM FirstRunSuffices == LaunchSpec => []PreflightCoversAll
<1>1. Covered => PreflightCoversAll
  <2> SUFFICES ASSUME Covered,
                      step \in {"identify", "start", "loop", "staged", "running", "end"},
                      NEW i \in DOMAIN runs
               PROVE  conf.required \subseteq conf.context \union DOMAIN runs[i]
    BY DEF PreflightCoversAll
  <2>1. PICK D : Uniform(runs, D)
    BY DEF Covered
  <2>2. Len(runs) \in Nat /\ DOMAIN runs = 1 .. Len(runs)
    BY <2>1, ListShape DEF Uniform
  <2>3. runs # <<>> /\ 1 \in DOMAIN runs
    BY <2>2
  <2>4. DOMAIN runs[i] = D /\ DOMAIN runs[1] = D
    BY <2>1, <2>3 DEF Uniform
  <2> QED
    BY <2>3, <2>4 DEF Covered, Probed
<1> QED
  BY <1>1, Invariant, CoveredInit, CoveredStep, PTL DEF LaunchSpec

\* At the preflight of any launch, the runs are those that the configuration asks for, unless
\* its source has changed since (expand_run_space, _load_and_process_source).
THEOREM ExpansionsAreExact == LaunchSpec => []ExpansionExact
<1>1. LaunchInv /\ Covered => ExpansionExact
  <2> SUFFICES ASSUME LaunchInv, Covered, step = "preflight", expansion.read = edition
               PROVE  IsExpansion(runs, RunSpaceOf(conf))
    BY DEF ExpansionExact
  <2>1. RunSpaceOf(conf) = SpecAt(conf, edition)
    BY DEF SpecAt, RunSpaceOf
  <2>2. runs = RunsAt(conf, edition)
    BY DEF LaunchInv, IdentityOk
  <2>3. (edition = Gone => ~HasSource(conf)) /\ ExpandRunSpace(SpecAt(conf, edition)).error = "none"
    BY DEF Covered
  <2>4. runs = ExpandRunSpace(RunSpaceOf(conf)).runs
    BY <2>1, <2>2, <2>3 DEF RunsAt
  <2>5. IsRunSpace(RunSpaceOf(conf))
    BY SpecIs DEF LaunchInv
  <2> HIDE DEF runs, conf
  <2> QED
    BY <2>1, <2>3, <2>4, <2>5, ExpansionIsExact
<1> QED
  BY <1>1, Invariant, CoveredInit, CoveredStep, PTL DEF LaunchSpec

-----------------------------------------------------------------------------
(* The trace of the launches *)

AP == INSTANCE TraceAggregatorProofs WITH
        RunIds   <- Invocations \X (1 .. MaxRuns),
        NodeIds  <- 1 .. NodeCount,
        Expected <- 1 .. NodeCount

\* What is on disk is of the invocations that have ended.
DiskOk ==
    \A rec \in disk :
        /\ AP!RecordOk(rec)
        /\ rec.kind \in {"start", "end", "ser"} =>
             rec.run[1] \in 1 .. inv /\ (step # "read" => rec.run[1] < inv)

\* The start and the end of run n of invocation i are among the records D.
Closed(i, n, D) ==
    /\ \E rec \in D : rec.kind = "start" /\ rec.run = <<i, n>>
    /\ \E rec \in D : rec.kind = "end" /\ rec.run = <<i, n>>
\* What the records D tell of invocation i, which ended as e says.
Told(i, e, D) ==
    /\ e.begun \in 0 .. MaxRuns
    /\ e.code = "success" /\ e.launch # NoLaunch =>
         /\ e.begun = Len(e.runs)
         /\ \E rec \in D : rec.kind = "launchStart" /\ rec.launch = e.launch
         /\ \E rec \in D : rec.kind = "launchEnd" /\ rec.launch = e.launch
         /\ \A n \in 1 .. e.begun : Closed(i, n, D)
\* The start of a run that was begun in the invocation that ended as e says.
Owned(rec, e) == rec.launch = e.launch /\ rec.run[2] <= e.begun
KeptOk ==
    /\ Len(exits) = IF step = "read" THEN inv ELSE inv - 1
    /\ \A i \in DOMAIN exits : Told(i, exits[i], disk)
    /\ \A rec \in disk : rec.kind = "start" =>
         rec.run[1] \in DOMAIN exits /\ Owned(rec, exits[rec.run[1]])

\* A run starts before it ends, as long as the clock does not go back.
Steady == \A i \in DOMAIN Plans[plan] : ~Plans[plan][i].stepped
InTimeOrder(s, e) ==
    s.kind = "start" /\ e.kind = "end" /\ s.run = e.run => s.time <= e.time
OrderOk == Steady => \A s, e \in disk : InTimeOrder(s, e)

\* Nothing is read before the last invocation has ended.
ReadOk == /\ seen \subseteq disk /\ repeats \in 0 .. conf.rereads
          /\ step # "read" => repeats = 0

TraceInv == LaunchInv /\ AP!AggInv /\ DiskOk /\ KeptOk /\ OrderOk /\ ReadOk

-----------------------------------------------------------------------------
(* The aggregator inside of a trace *)

LEMMA SameRecords ==
    /\ A!InitAggregator => AP!InitAggregator
    /\ \A rec : A!Ingest(rec) => AP!Ingest(rec)
  BY DEF A!InitAggregator, A!NewRun, A!NewNode, A!NewLaunch, A!NoTime, A!Ingest,
         A!IngestPipelineStart, A!IngestPipelineEnd, A!IngestSer, A!IngestLaunchStart,
         A!IngestLaunchEnd, A!Earliest, A!Latest,
         AP!InitAggregator, AP!NewRun, AP!NewNode, AP!NewLaunch, AP!NoTime, AP!Ingest,
         AP!IngestPipelineStart, AP!IngestPipelineEnd, AP!IngestSer, AP!IngestLaunchStart,
         AP!IngestLaunchEnd, AP!Earliest, AP!Latest

LEMMA SameVerdicts ==
    /\ \A r : A!FinalizeRun(r) => AP!FinalizeRun(r)
    /\ \A k : A!FinalizeLaunch(k) => AP!FinalizeLaunch(k)
    /\ A!FinalizeAll => AP!FinalizeAll
    /\ \A r : A!TimeProblem(A!Synthesized(r)) <=> AP!TimeProblem(AP!Synthesized(r))
  BY DEF A!FinalizeRun, A!FinalizeLaunch, A!FinalizeAll, A!Synthesized, A!Known, A!NoTime,
         A!Earliest, A!Latest, A!TimeProblem,
         AP!FinalizeRun, AP!FinalizeLaunch, AP!FinalizeAll, AP!Synthesized, AP!Known, AP!NoTime,
         AP!Earliest, AP!Latest, AP!TimeProblem

LEMMA SameProperties ==
    /\ AP!TypeOK => A!TypeOK
    /\ AP!VerdictsFollowRecords => A!VerdictsFollowRecords
    /\ AP!EarlyVerdictsNeverAccuse => A!EarlyVerdictsNeverAccuse
<1>1. AP!TypeOK => A!TypeOK
  BY DEF A!TypeOK, AP!TypeOK
<1>2. AP!VerdictsFollowRecords => A!VerdictsFollowRecords
  <2>0. \A S : A!Cardinality(S) = AP!Cardinality(S)
    BY Zenon DEF A!Cardinality, AP!Cardinality
  <2>1. \A r : A!Synthesized(r) = AP!Synthesized(r) /\ A!Known(r) = AP!Known(r)
    BY DEF A!Synthesized, A!Known, A!NoTime, A!Earliest, A!Latest,
           AP!Synthesized, AP!Known, AP!NoTime, AP!Earliest, AP!Latest
  <2>2. \A r : A!RunVerdict(r) = AP!RunVerdict(r)
    <3> SUFFICES ASSUME NEW r PROVE A!RunVerdict(r) = AP!RunVerdict(r)
      OBVIOUS
    <3>1. A!Terminal = AP!Terminal
      BY DEF A!Terminal, AP!Terminal
    <3>2. \A x : A!StatusOf(x) = AP!StatusOf(x) /\ (A!TimeProblem(x) <=> AP!TimeProblem(x))
      BY DEF A!StatusOf, A!TimeProblem, A!NoTime, AP!StatusOf, AP!TimeProblem, AP!NoTime
    <3> QED
      BY <2>1, <3>1, <3>2 DEF A!RunVerdict, AP!RunVerdict
  <2>3. \A k : A!LaunchVerdict(k) = AP!LaunchVerdict(k)
    <3> SUFFICES ASSUME NEW k PROVE A!LaunchVerdict(k) = AP!LaunchVerdict(k)
      OBVIOUS
    <3>1. {A!RunVerdict(aruns[r]).status : r \in alaunches[k].pipelines}
            = {AP!RunVerdict(aruns[r]).status : r \in alaunches[k].pipelines}
      BY <2>2
    <3> QED
      BY <2>0, <3>1 DEF A!LaunchVerdict, AP!LaunchVerdict
  <2>4. \A r : /\ \A kind : A!SeenOf(r, kind) = AP!SeenOf(r, kind)
              /\ A!SeenNodes(r) = AP!SeenNodes(r) /\ (A!HasEdges(r) <=> AP!HasEdges(r))
    BY DEF A!SeenOf, A!SeenNodes, A!HasEdges, AP!SeenOf, AP!SeenNodes, AP!HasEdges
  <2>5. \A k : A!Attached(k) = AP!Attached(k)
    BY <2>4 DEF A!Attached, AP!Attached
  <2>6. \A r : AP!RunVerdictExact(r) => A!RunVerdictExact(r)
    BY <2>2, <2>4 DEF A!RunVerdictExact, AP!RunVerdictExact
  <2>7. \A k : AP!LaunchVerdictExact(k) => A!LaunchVerdictExact(k)
    <3> SUFFICES ASSUME NEW k, AP!LaunchVerdictExact(k) PROVE A!LaunchVerdictExact(k)
      OBVIOUS
    <3>1. (\A r \in A!Attached(k) : A!HasEdges(r)) <=> (\A r \in AP!Attached(k) : AP!HasEdges(r))
      BY <2>4, <2>5
    <3> QED
      BY <2>0, <2>3, <2>5, <3>1 DEF A!LaunchVerdictExact, AP!LaunchVerdictExact
  <2> QED
    BY <2>6, <2>7 DEF A!VerdictsFollowRecords, AP!VerdictsFollowRecords
<1>3. AP!EarlyVerdictsNeverAccuse => A!EarlyVerdictsNeverAccuse
  BY DEF A!EarlyVerdictsNeverAccuse, A!AskedOnce, A!Starts, A!Ends, A!Work, A!SeenOf,
         A!Synthesized, A!Known, A!NoTime, A!Earliest, A!Latest, A!TimeProblem,
         AP!EarlyVerdictsNeverAccuse, AP!AskedOnce, AP!Starts, AP!Ends, AP!Work, AP!SeenOf,
         AP!Synthesized, AP!Known, AP!NoTime, AP!Earliest, AP!Latest, AP!TimeProblem
<1> QED
  BY <1>1, <1>2, <1>3


-----------------------------------------------------------------------------
(* What an invocation leaves on disk *)

LEMMA NoSuchLaunch == NoLaunch \notin LaunchKeys
  BY DEF NoLaunch, LaunchKeys, LaunchIds

LEMMA CurrentInvocation ==
    LaunchInv => inv \in Invocations /\ inv \in Nat \ {0} /\ conf.rereads \in Nat
<1> SUFFICES ASSUME LaunchInv PROVE inv \in Invocations /\ inv \in Nat \ {0} /\ conf.rereads \in Nat
  OBVIOUS
<1>1. plan \in DOMAIN Plans /\ inv \in DOMAIN Plans[plan]
  BY DEF LaunchInv, LaunchTypeOK
<1>2. /\ inv \in 1 .. Len(Plans[plan]) /\ Len(Plans[plan]) \in 1 .. MaxInvocations
      /\ MaxInvocations \in Nat /\ Plans[plan][inv].rereads \in Nat
  BY <1>1, RunSpaceLaunchAssumption DEF RunSpaceLaunchAssumption
<1> QED
  BY <1>2 DEF Invocations, conf

LEMMA Rereads == LaunchInv => conf.rereads \in Nat
  BY CurrentInvocation

LEMMA NextInvocation == LaunchInv' => (conf.rereads \in Nat)'
  BY Rereads, PTL

\* The records that were written, as the launch and its runs know them.
LEMMA WrittenRecords ==
    ASSUME LaunchInv, NEW i \in DOMAIN log
    PROVE  /\ log[i].kind \in {"start", "end", "ser"} /\ log[i].run \in 1 .. MaxRuns
           /\ log[i].kind = "ser" => log[i].node \in 1 .. NodeCount
                                     /\ log[i].status \in {"succeeded", "error"}
           /\ metaOf[log[i].run].launch = launch
           /\ step = "exited" => launch \in LaunchKeys
<1>1. PR!TypeOK /\ PR!FilesOk /\ PR!RecordsOk /\ NodesOk /\ AttributedOk /\ RsOk
  BY DEF LaunchInv, RunOk, Pipeline
<1>2. log[i] \in PR!Records /\ PR!Runs = 1 .. MaxRuns
  BY <1>1, Assumed DEF PR!TypeOK
<1>3. log[i].run \in 1 .. MaxRuns /\ log[i].run <= run /\ run \in 0 .. MaxRuns /\ MaxRuns \in Nat
  BY <1>1, <1>2, RunNumbers, Assumed DEF PR!Records, PR!FilesOk
<1>4. metaOf[log[i].run] = Meta(log[i].run)
  BY <1>1, <1>3 DEF AttributedOk
<1>5. run # 0
  BY <1>3
<1>6. step = "exited" => rslog # <<>>
  BY <1>1, <1>5 DEF RsOk
<1>7. NodeCount \in Nat
  BY RunSpaceLaunchAssumption DEF RunSpaceLaunchAssumption
<1> QED
  BY <1>1, <1>2, <1>3, <1>4, <1>6, <1>7 DEF PR!Records, PR!RecordsOk, NodesOk, AttributedOk, Meta

LEMMA RunRecordOk ==
    ASSUME LaunchInv, step = "exited", NEW i \in 1 .. durable.main
    PROVE  /\ i \in DOMAIN log /\ i \in Nat \ {0}
           /\ AP!RecordOk(RunRecord(i)) /\ RunRecord(i).run = <<inv, log[i].run>>
           /\ RunRecord(i).kind = log[i].kind
           /\ ~conf.stepped => RunRecord(i).time = i + 1
<1>1. i \in DOMAIN log /\ i \in Nat \ {0}
  <2>1. durable.main \in 0 .. Len(log) /\ PR!TypeOK
    BY DEF LaunchInv, LaunchTypeOK, RunOk, Pipeline
  <2>2. Len(log) \in Nat /\ DOMAIN log = 1 .. Len(log)
    BY <2>1 DEF PR!TypeOK
  <2> QED
    BY <2>1, <2>2
<1>2. inv \in Invocations /\ inv \in Nat
  BY CurrentInvocation
<1> DEFINE rec == RunRecord(i)
<1>3. /\ rec.kind = log[i].kind /\ rec.run = <<inv, log[i].run>> /\ rec.node = log[i].node
      /\ rec.status = log[i].status
      /\ rec.time = IF conf.stepped /\ i > 2 THEN i - 2 ELSE i + 1
      /\ rec.kind = "start" => rec.launch = metaOf[log[i].run].launch
  BY DEF RunRecord
<1> HIDE DEF rec
<1>4. /\ rec.kind \in {"start", "end", "ser"} /\ log[i].run \in 1 .. MaxRuns
      /\ rec.run \in Invocations \X (1 .. MaxRuns)
      /\ rec.kind = "ser" => rec.node \in 1 .. NodeCount /\ rec.status \in {"succeeded", "error"}
      /\ rec.kind = "start" => rec.launch \in LaunchKeys
  BY <1>1, <1>2, <1>3, WrittenRecords
<1>5. rec.time \in Nat \ {0}
  BY <1>1, <1>3
<1>6. AP!RecordOk(rec)
  BY <1>4, <1>5, NoSuchLaunch
     DEF AP!RecordOk, AP!Kinds, AP!RunKinds, AP!Stati, AP!Terminal
<1> QED
  BY <1>1, <1>3, <1>6 DEF rec

LEMMA LaunchRecordOk ==
    ASSUME LaunchInv, step = "exited", NEW i \in 1 .. durable.rs
    PROVE  /\ AP!RecordOk(LaunchRecord(i))
           /\ LaunchRecord(i).kind \in {"launchStart", "launchEnd"}
<1>1. durable.rs \in 0 .. Len(rslog) /\ RsOk /\ AttributedOk
  BY DEF LaunchInv, LaunchTypeOK
<1>2. rslog # <<>>
  BY <1>1
<1>3. launch \in LaunchKeys
  BY <1>1, <1>2 DEF AttributedOk
<1>4. rslog[i].launch = launch /\ rslog[i].kind \in {"launchStart", "launchEnd"}
  <2>1. StartRecord.launch = launch /\ StartRecord.kind = "launchStart"
    BY DEF StartRecord, RsRecord
  <2>2. \A status : EndRecord(status).launch = launch /\ EndRecord(status).kind = "launchEnd"
    BY DEF EndRecord, RsRecord
  <2>3. \/ rslog = <<StartRecord>>
        \/ \E status : rslog = <<StartRecord, EndRecord(status)>>
    BY <1>1, <1>2 DEF RsOk
  <2> HIDE DEF StartRecord, EndRecord
  <2>4. CASE rslog = <<StartRecord>>
    <3>1. Len(rslog) = 1 /\ rslog[1] = StartRecord
      BY <2>4
    <3> QED
      BY <1>1, <2>1, <3>1
  <2>5. CASE \E status : rslog = <<StartRecord, EndRecord(status)>>
    <3>1. PICK status : rslog = <<StartRecord, EndRecord(status)>>
      BY <2>5
    <3>2. Len(rslog) = 2 /\ rslog[1] = StartRecord /\ rslog[2] = EndRecord(status)
      BY <3>1
    <3> QED
      BY <1>1, <2>1, <2>2, <3>2
  <2> QED
    BY <2>3, <2>4, <2>5
<1>5. /\ LaunchRecord(i).kind = rslog[i].kind /\ LaunchRecord(i).launch = rslog[i].launch
  BY DEF LaunchRecord
<1> QED
  BY <1>3, <1>4, <1>5 DEF AP!RecordOk, AP!Kinds, AP!RunKinds

\* In the trace of a run its start comes first.
LEMMA StartsFirst ==
    ASSUME LaunchInv, NEW i \in DOMAIN log, NEW k \in DOMAIN log,
           log[i].kind = "start", log[k].kind = "end", log[i].run = log[k].run
    PROVE  i < k
<1>1. PR!WellFormedTrace /\ PR!TypeOK
  BY DEF LaunchInv, RunOk, Pipeline
<1>2. i \in Nat /\ k \in Nat /\ i # k
  BY <1>1 DEF PR!TypeOK
<1> QED
  BY <1>1, <1>2 DEF PR!WellFormedTrace


-----------------------------------------------------------------------------
(* Steps *)

LEMMA Uncollected ==
    ASSUME LaunchInv, NextLaunch, ~Collect
    PROVE  step # "read" /\ step' # "read" /\ UNCHANGED <<plan, inv, disk>>
<1>1. CASE Plain
  BY <1>1, PlainFacts
     DEF Plain, Load, BuildComponents, ExpandRuns, Preflight, Identify, EmitStartFails, AfterRun,
         InterruptLoop, Raised, EndLoop, EmitEndFails, Exit, Kill, Edit, Leave, cli
<1>2. CASE Emits
  BY <1>2, EmitsFacts
<1>3. CASE Drives
  BY <1>3, DrivesFacts
<1> QED
  BY <1>1, <1>2, <1>3 DEF NextLaunch, Plain, Emits, Drives

\* What Collect adds to the disk.
LEMMA Collected ==
    ASSUME Collect
    PROVE  /\ step = "exited" /\ plan' = plan
           /\ disk' = disk \union {RunRecord(i) : i \in 1 .. durable.main}
                           \union {LaunchRecord(i) : i \in 1 .. durable.rs}
           /\ \/ inv' = inv + 1 /\ step' # "read"
              \/ inv' = inv /\ step' = "read"
  BY DEF Collect

LEMMA DiskStep ==
    ASSUME LaunchInv, DiskOk, [NextLaunch]_launchVars
    PROVE  DiskOk'
<1>1. CASE NextLaunch /\ ~Collect
  BY <1>1, Uncollected DEF DiskOk
<1>2. CASE UNCHANGED launchVars
  BY <1>2 DEF launchVars, cli, history, DiskOk
<1>3. CASE Collect
  <2>1. inv \in Nat \ {0}
    BY CurrentInvocation
  <2>2. step = "exited" /\ inv' \in {inv, inv + 1} /\ (step' # "read" => inv' = inv + 1)
    BY <1>3, Collected
  <2> SUFFICES ASSUME NEW rec \in disk'
               PROVE  /\ AP!RecordOk(rec)
                      /\ rec.kind \in {"start", "end", "ser"} =>
                           rec.run[1] \in 1 .. inv' /\ (step' # "read" => rec.run[1] < inv')
    BY DEF DiskOk
  <2>3. CASE rec \in disk
    BY <2>1, <2>2, <2>3 DEF DiskOk
  <2>4. CASE \E i \in 1 .. durable.main : rec = RunRecord(i)
    <3>1. AP!RecordOk(rec) /\ rec.run[1] = inv
      BY <2>2, <2>4, RunRecordOk
    <3> QED
      BY <2>1, <2>2, <3>1
  <2>5. CASE \E i \in 1 .. durable.rs : rec = LaunchRecord(i)
    BY <2>2, <2>5, LaunchRecordOk
  <2> QED
    BY <1>3, <2>3, <2>4, <2>5, Collected
<1> QED
  BY <1>1, <1>2, <1>3

\* What is told of an invocation when it is collected.
LEMMA EndsTold ==
    ASSUME LaunchInv, Collect, NEW e, e.code = code, e.launch = launch, e.runs = runs, e.begun = run
    PROVE  Told(inv, e, disk')
<1>1. /\ step = "exited"
      /\ disk' = disk \union {RunRecord(i) : i \in 1 .. durable.main}
                      \union {LaunchRecord(i) : i \in 1 .. durable.rs}
  BY Collected
<1>2. run \in 0 .. MaxRuns /\ PR!TypeOK
  BY RunNumbers
<1>3. ASSUME code = "success", launch # NoLaunch
      PROVE  /\ run = Len(runs)
             /\ \E rec \in disk' : rec.kind = "launchStart" /\ rec.launch = launch
             /\ \E rec \in disk' : rec.kind = "launchEnd" /\ rec.launch = launch
             /\ \A n \in 1 .. run : Closed(inv, n, disk')
  <2>1. /\ Len(rslog) = 2 /\ run = completed
        /\ durable = [main |-> Len(log), rs |-> Len(rslog)]
    BY <1>1, <1>3 DEF LaunchInv, FinishOk
  <2>2. PICK status \in {"-", "interrupted", "failed"} :
          rslog = <<StartRecord, EndRecord(status)>> /\ Names(status)
    <3>1. Len(<<StartRecord>>) = 1 /\ Len(<<>>) = 0
      OBVIOUS
    <3>2. Len(rslog) # Len(<<>>) /\ Len(rslog) # Len(<<StartRecord>>)
      BY <2>1, <3>1
    <3>3. rslog # <<>> /\ rslog # <<StartRecord>>
      BY <3>2, Zenon
    <3> QED
      BY <1>1, <3>3 DEF LaunchInv, RsOk
  <2>3. run = Len(runs)
    BY <1>3, <2>1, <2>2 DEF Names
  <2>4. /\ LaunchRecord(1).kind = "launchStart" /\ LaunchRecord(1).launch = launch
        /\ LaunchRecord(2).kind = "launchEnd" /\ LaunchRecord(2).launch = launch
    BY <2>2 DEF LaunchRecord, StartRecord, EndRecord, RsRecord
  <2>5. 1 \in 1 .. durable.rs /\ 2 \in 1 .. durable.rs
    BY <2>1
  <2>6. LaunchRecord(1) \in disk' /\ LaunchRecord(2) \in disk'
    BY <1>1, <2>5
  <2>7. ASSUME NEW n \in 1 .. run
        PROVE  Closed(inv, n, disk')
    <3>1. n \in PR!Runs /\ outcome[n] = "ok"
      BY <1>2, <2>1, <2>7, Assumed DEF LaunchInv, CountOk, Succeeded
    <3>2. PR!HasEnd(n) /\ PR!HasStart(n)
      BY <3>1 DEF LaunchInv, RunOk, Pipeline, PR!OkMeansComplete, PR!StartedOk, PR!HasEnd
    <3>3. PICK i \in DOMAIN log : log[i].kind = "start" /\ log[i].run = n
      BY <3>2 DEF PR!HasStart
    <3>4. PICK k \in DOMAIN log : log[k].kind = "end" /\ log[k].run = n
      BY <3>2 DEF PR!HasEnd, PR!End
    <3>5. i \in 1 .. durable.main /\ k \in 1 .. durable.main
      <4>1. DOMAIN log = 1 .. Len(log) /\ durable.main = Len(log)
        BY <1>2, <2>1 DEF PR!TypeOK
      <4> QED
        BY <4>1
    <3>6. RunRecord(i) \in disk' /\ RunRecord(k) \in disk'
      BY <1>1, <3>5
    <3>7. /\ RunRecord(i).run = <<inv, n>> /\ RunRecord(i).kind = "start"
          /\ RunRecord(k).run = <<inv, n>> /\ RunRecord(k).kind = "end"
      BY <1>1, <3>3, <3>4, <3>5, RunRecordOk
    <3> QED
      BY <3>6, <3>7 DEF Closed
  <2> QED
    BY <2>3, <2>4, <2>6, <2>7
<1> QED
  BY <1>2, <1>3 DEF Told

LEMMA KeptStep ==
    ASSUME LaunchInv, KeptOk, [NextLaunch]_launchVars
    PROVE  KeptOk'
<1>1. CASE NextLaunch /\ ~Collect
  <2>1. step # "read" /\ step' # "read" /\ UNCHANGED <<inv, disk>>
    BY <1>1, Uncollected
  <2>2. UNCHANGED exits
    BY <1>1, ByKind, PlainFacts, EmitsFacts, DrivesFacts DEF launchVars, history
  <2> QED
    BY <2>1, <2>2 DEF KeptOk
<1>2. CASE UNCHANGED launchVars
  BY <1>2 DEF launchVars, cli, history, KeptOk
<1>3. CASE Collect
  <2> DEFINE e == [code |-> code, launch |-> launch, runs |-> runs,
                   keyed |-> conf.keyed /\ ~conf.provided,
                   read |-> expansion.read, fingerprinted |-> edition, begun |-> run]
  <2>1. exits' = Append(exits, e)
    BY <1>3 DEF Collect
  <2>2. e.code = code /\ e.launch = launch /\ e.runs = runs /\ e.begun = run
    OBVIOUS
  <2> HIDE DEF e
  <2>3. exits \in Seq({exits[i] : i \in DOMAIN exits})
    BY DEF LaunchInv, ExitsOk
  <2>4. /\ exits' \in Seq({exits'[i] : i \in DOMAIN exits'})
        /\ DOMAIN exits = 1 .. Len(exits) /\ Len(exits) \in Nat
        /\ DOMAIN exits' = 1 .. (Len(exits) + 1)
        /\ \A i \in 1 .. Len(exits) : exits'[i] = exits[i]
        /\ exits'[Len(exits) + 1] = e
    BY <2>1, <2>3, SelfTyped
  <2>5. /\ step = "exited" /\ disk \subseteq disk'
        /\ \/ inv' = inv + 1 /\ step' # "read"
           \/ inv' = inv /\ step' = "read"
    BY <1>3, Collected
  <2>6. inv \in Nat \ {0} /\ Len(exits) = inv - 1
    BY <2>5, CurrentInvocation DEF KeptOk
  <2>7. Len(exits') = inv
    BY <2>4, <2>6, LenProperties
  <2>8. Told(inv, e, disk')
    BY <1>3, <2>2, EndsTold
  <2>9. ASSUME NEW i \in DOMAIN exits'
        PROVE  Told(i, exits'[i], disk')
    <3>1. CASE i = inv
      BY <2>4, <2>6, <2>8, <3>1
    <3>2. CASE i \in DOMAIN exits
      <4>1. Told(i, exits[i], disk) /\ exits'[i] = exits[i]
        BY <2>4, <3>2 DEF KeptOk
      <4> QED
        BY <2>5, <4>1 DEF Told, Closed
    <3> QED
      BY <2>4, <2>6, <3>1, <3>2
  <2>10. ASSUME NEW rec \in disk', rec.kind = "start"
         PROVE  rec.run[1] \in DOMAIN exits' /\ Owned(rec, exits'[rec.run[1]])
    <3>1. CASE rec \in disk
      BY <2>4, <2>10, <3>1 DEF KeptOk
    <3>2. CASE \E i \in 1 .. durable.main : rec = RunRecord(i)
      <4>1. PICK i \in 1 .. durable.main : rec = RunRecord(i)
        BY <3>2
      <4>2. i \in DOMAIN log /\ rec.run = <<inv, log[i].run>> /\ log[i].kind = "start"
        BY <2>5, <2>10, <4>1, RunRecordOk
      <4>3. metaOf[log[i].run].launch = launch /\ log[i].run <= run
        BY <4>2, WrittenRecords DEF LaunchInv, RunOk, Pipeline, PR!FilesOk
      <4>4. rec.launch = launch
        BY <4>1, <4>2, <4>3 DEF RunRecord
      <4> QED
        BY <2>2, <2>4, <2>6, <4>2, <4>3, <4>4 DEF Owned
    <3>3. CASE \E i \in 1 .. durable.rs : rec = LaunchRecord(i)
      BY <2>5, <2>10, <3>3, LaunchRecordOk
    <3> QED
      BY <1>3, <3>1, <3>2, <3>3, Collected
  <2> QED
    BY <2>5, <2>6, <2>7, <2>9, <2>10 DEF KeptOk
<1> QED
  BY <1>1, <1>2, <1>3

LEMMA OrderStep ==
    ASSUME LaunchInv, DiskOk, OrderOk, [NextLaunch]_launchVars
    PROVE  OrderOk'
<1>1. CASE NextLaunch /\ ~Collect
  BY <1>1, Uncollected DEF OrderOk, Steady
<1>2. CASE UNCHANGED launchVars
  BY <1>2 DEF launchVars, cli, history, OrderOk, Steady
<1>3. CASE Collect
  <2>1. step = "exited" /\ plan' = plan
    BY <1>3, Collected
  <2> SUFFICES ASSUME Steady, NEW s \in disk', NEW e \in disk',
                      s.kind = "start", e.kind = "end", s.run = e.run
               PROVE  s.time <= e.time
    BY <2>1 DEF OrderOk, InTimeOrder, Steady
  <2>2. ~conf.stepped
    BY DEF Steady, LaunchInv, LaunchTypeOK, conf
  <2>3. ASSUME NEW rec \in disk', rec.kind \in {"start", "end"}
        PROVE  \/ rec \in disk /\ rec.run[1] < inv
               \/ \E i \in 1 .. durable.main : rec = RunRecord(i) /\ rec.run[1] = inv
    <3>1. CASE rec \in disk
      BY <2>1, <2>3, <3>1 DEF DiskOk
    <3>2. CASE \E i \in 1 .. durable.main : rec = RunRecord(i)
      BY <2>1, <3>2, RunRecordOk
    <3>3. CASE \E i \in 1 .. durable.rs : rec = LaunchRecord(i)
      BY <2>1, <2>3, <3>3, LaunchRecordOk
    <3> QED
      BY <1>3, <3>1, <3>2, <3>3, Collected
  <2>4. inv \in Nat
    BY CurrentInvocation
  <2>5. CASE s \in disk /\ e \in disk
    BY <2>5 DEF OrderOk, InTimeOrder
  <2>6. CASE ~(s \in disk /\ e \in disk)
    <3>1. s.run[1] = e.run[1]
      OBVIOUS
    <3>2. /\ \E i \in 1 .. durable.main : s = RunRecord(i)
          /\ \E k \in 1 .. durable.main : e = RunRecord(k)
      BY <2>3, <2>4, <2>6, <3>1
    <3>3. PICK i \in 1 .. durable.main, k \in 1 .. durable.main :
            s = RunRecord(i) /\ e = RunRecord(k)
      BY <3>2
    <3>4. /\ i \in DOMAIN log /\ k \in DOMAIN log
          /\ log[i].kind = "start" /\ log[k].kind = "end" /\ log[i].run = log[k].run
          /\ s.time = i + 1 /\ e.time = k + 1 /\ i \in Nat /\ k \in Nat
      BY <2>1, <2>2, <3>3, RunRecordOk
    <3>5. i < k
      BY <3>4, StartsFirst
    <3> QED
      BY <3>4, <3>5
  <2> QED
    BY <2>5, <2>6
<1> QED
  BY <1>1, <1>2, <1>3

\* A record on disk is one that the aggregator takes; asking for verdicts finalizes.
LEMMA ReadingStep ==
    ASSUME AP!AggInv, DiskOk, Read \/ Ask
    PROVE  [AP!AggNext]_(AP!aggVars)
<1>1. CASE Read
  BY <1>1, SameRecords DEF Read, DiskOk, AP!AggNext
<1>2. CASE Ask
  <2>1. DOMAIN aruns = Invocations \X (1 .. MaxRuns) /\ DOMAIN alaunches = LaunchKeys
    BY DEF AP!AggInv, AP!TableOk
  <2> QED
    BY <1>2, <2>1, SameVerdicts DEF Ask, AP!AggNext, AP!Finalize
<1> QED
  BY <1>1, <1>2

LEMMA AggregatorStep ==
    ASSUME AP!AggInv, DiskOk, [Next]_vars
    PROVE  AP!AggInv'
<1>1. CASE Read \/ Ask
  BY <1>1, ReadingStep, AP!AggNextInv
<1>2. CASE Launching \/ UNCHANGED vars
  BY <1>2, AP!AggNextInv DEF Launching, vars, aggregate, AP!aggVars
<1> QED
  BY <1>1, <1>2 DEF Next

LEMMA ReadStep ==
    ASSUME LaunchInv, ReadOk, LaunchInv', [Next]_vars
    PROVE  ReadOk'
<1>1. CASE Launching
  <2>1. NextLaunch /\ UNCHANGED <<seen, repeats>>
    BY <1>1 DEF Launching, aggregate
  <2>2. CASE ~Collect
    BY <2>1, <2>2, Uncollected DEF ReadOk, conf
  <2>3. CASE Collect
    <3>1. repeats = 0 /\ disk \subseteq disk'
      BY <2>3, Collected DEF ReadOk
    <3>2. (conf.rereads \in Nat)'
      BY NextInvocation
    <3> QED
      BY <2>1, <3>1, <3>2 DEF ReadOk
  <2> QED
    BY <2>2, <2>3
<1>2. CASE Read
  <2>1. /\ step = "read" /\ UNCHANGED <<plan, inv, step, disk>>
        /\ \E rec \in disk : seen' = seen \union {rec}
        /\ repeats' = repeats \/ (repeats < conf.rereads /\ repeats' = repeats + 1)
    BY <1>2 DEF Read, A!Ingest, launchVars, cli, history
  <2>2. conf.rereads \in Nat
    BY CurrentInvocation
  <2> QED
    BY <2>1, <2>2 DEF ReadOk, conf
<1>3. CASE Ask \/ UNCHANGED vars
  <2>1. UNCHANGED <<plan, inv, step, disk, seen, repeats>>
    BY <1>3 DEF Ask, A!FinalizeRun, A!FinalizeLaunch, A!FinalizeAll, vars, aggregate,
                launchVars, cli, history
  <2> QED
    BY <2>1 DEF ReadOk, conf
<1> QED
  BY <1>1, <1>2, <1>3 DEF Next

LEMMA TraceInit == Init => TraceInv
<1> SUFFICES ASSUME Init PROVE TraceInv
  OBVIOUS
<1>1. LaunchInv
  BY InitInv DEF Init
<1>2. AP!AggInv
  BY SameRecords, AP!AggInit DEF Init
<1>3. DiskOk /\ OrderOk
  BY DEF Init, InitLaunch, DiskOk, OrderOk
<1>6. KeptOk
  BY DEF Init, InitLaunch, Started, KeptOk
<1>4. seen = {} /\ repeats = 0
  BY DEF Init, A!InitAggregator
<1>5. ReadOk
  BY <1>1, <1>4, CurrentInvocation DEF ReadOk
<1> QED
  BY <1>1, <1>2, <1>3, <1>5, <1>6 DEF TraceInv

\* A step of the composition is one of the launch, or leaves the launch alone.
LEMMA LaunchStep == [Next]_vars => [NextLaunch]_launchVars
  BY DEF Next, Launching, Read, Ask, vars

LEMMA TraceNext == TraceInv /\ [Next]_vars => TraceInv'
<1> SUFFICES ASSUME TraceInv, [Next]_vars PROVE TraceInv'
  OBVIOUS
<1>1. LaunchInv'
  BY LaunchStep, NextInv DEF TraceInv
<1> QED
  BY <1>1, LaunchStep, DiskStep, KeptStep, OrderStep, AggregatorStep, ReadStep DEF TraceInv

-----------------------------------------------------------------------------
(* The theorems *)

\* What every reachable state of a plan and of the reading of its records has in common.
THEOREM TraceInvariant == Spec => []TraceInv
  BY TraceInit, TraceNext, PTL DEF Spec

\* The composition keeps its types; in particular only what is on disk is ever read, and the
\* aggregator's tables have entries for exactly the runs and launches that a plan may have.
THEOREM TraceTypes == Spec => []TypeOK
<1>1. TraceInv => TypeOK
  BY SameProperties, AP!AggTypes DEF TraceInv, LaunchInv, ReadOk, TypeOK
<1> QED
  BY <1>1, TraceInvariant, PTL

\* Verdicts follow the set of records that was read, whatever invocations were killed, retried
\* or failed, in whatever order their records come, and whenever verdicts are asked for.
THEOREM VerdictsFromRecords == Spec => []VerdictsFollowRecords
<1>1. TraceInv => VerdictsFollowRecords
  BY SameProperties, AP!VerdictsFollow DEF TraceInv, VerdictsFollowRecords
<1> QED
  BY <1>1, TraceInvariant, PTL

\* As many pairs as there are numbers.
LEMMA Numbered ==
    ASSUME NEW i, NEW n \in Nat
    PROVE  IsFiniteSet({i} \X (1 .. n)) /\ Cardinality({i} \X (1 .. n)) = n
<1>1. IsFiniteSet({i}) /\ Cardinality({i}) = 1
  BY FS_Singleton
<1>2. IsFiniteSet(1 .. n) /\ Cardinality(1 .. n) = n
  BY FS_Interval
<1>3. /\ IsFiniteSet({i} \X (1 .. n))
      /\ Cardinality({i} \X (1 .. n)) = Cardinality({i}) * Cardinality(1 .. n)
  BY <1>1, <1>2, FS_Product
<1> QED
  BY <1>1, <1>2, <1>3

\* Where all records were read, the runs attached to a launch are those its invocations began,
\* but for the ones that were lost.
LEMMA AllAttached ==
    ASSUME TraceInv, step = "read", seen = disk, NEW k \in LaunchKeys
    PROVE  /\ AP!Attached(k) \subseteq BegunUnder(k) /\ IsFiniteSet(BegunUnder(k))
           /\ \A i \in Of(k) : exits[i].code = "success" =>
                /\ exits[i].begun = Len(exits[i].runs) /\ exits[i].begun \in 0 .. MaxRuns
                /\ \A n \in 1 .. exits[i].begun :
                     <<i, n>> \in AP!Attached(k) /\ AP!HasEdges(<<i, n>>)
                /\ \E rec \in seen : rec.kind = "launchStart" /\ rec.launch = k
                /\ \E rec \in seen : rec.kind = "launchEnd" /\ rec.launch = k
<1>1. KeptOk /\ LaunchInv
  BY DEF TraceInv
<1>2. DOMAIN exits \subseteq Invocations
  <2>1. inv \in Invocations /\ Len(exits) = inv
    BY <1>1, CurrentInvocation DEF KeptOk
  <2>2. DOMAIN exits = 1 .. Len(exits)
    BY <1>1 DEF LaunchInv, ExitsOk
  <2> QED
    BY <2>1, <2>2, Assumed DEF Invocations
<1>3. AP!Attached(k) \subseteq BegunUnder(k)
  <2> SUFFICES ASSUME NEW r \in Invocations \X (1 .. MaxRuns), NEW rec \in disk,
                      rec.kind = "start", rec.run = r, rec.launch = k
               PROVE  r[1] \in Of(k) /\ r[2] <= exits[r[1]].begun
    BY DEF AP!Attached, AP!SeenOf, BegunUnder
  <2> QED
    BY <1>1 DEF KeptOk, Owned, Of
<1>4. IsFiniteSet(BegunUnder(k))
  <2>1. IsFiniteSet(Invocations) /\ IsFiniteSet(1 .. MaxRuns)
    BY Assumed, FS_Interval DEF Invocations
  <2>2. IsFiniteSet(Invocations \X (1 .. MaxRuns))
    BY <2>1, FS_Product
  <2> QED
    BY <2>2, FS_Subset DEF BegunUnder
<1>5. ASSUME NEW i \in Of(k), exits[i].code = "success"
      PROVE  /\ exits[i].begun = Len(exits[i].runs) /\ exits[i].begun \in 0 .. MaxRuns
             /\ \A n \in 1 .. exits[i].begun :
                  <<i, n>> \in AP!Attached(k) /\ AP!HasEdges(<<i, n>>)
             /\ \E rec \in seen : rec.kind = "launchStart" /\ rec.launch = k
             /\ \E rec \in seen : rec.kind = "launchEnd" /\ rec.launch = k
  <2>1. i \in DOMAIN exits /\ exits[i].launch = k /\ k # NoLaunch
    BY NoSuchLaunch DEF Of
  <2>2. Told(i, exits[i], disk)
    BY <1>1, <2>1 DEF KeptOk
  <2>3. ASSUME NEW n \in 1 .. exits[i].begun
        PROVE  <<i, n>> \in AP!Attached(k) /\ AP!HasEdges(<<i, n>>)
    <3>1. <<i, n>> \in Invocations \X (1 .. MaxRuns)
      BY <1>2, <2>1, <2>2, Assumed DEF Told
    <3>2. PICK s \in disk : s.kind = "start" /\ s.run = <<i, n>>
      BY <1>5, <2>1, <2>2 DEF Told, Closed
    <3>3. PICK t \in disk : t.kind = "end" /\ t.run = <<i, n>>
      BY <1>5, <2>1, <2>2 DEF Told, Closed
    <3>4. s.launch = k
      <4>1. s.run[1] = i
        BY <3>2
      <4>2. Owned(s, exits[i])
        BY <1>1, <3>2, <4>1 DEF KeptOk
      <4> QED
        BY <2>1, <4>2 DEF Owned
    <3>5. s \in AP!SeenOf(<<i, n>>, "start") /\ t \in AP!SeenOf(<<i, n>>, "end")
      BY <3>2, <3>3 DEF AP!SeenOf
    <3> QED
      BY <3>1, <3>4, <3>5 DEF AP!Attached, AP!HasEdges
  <2> QED
    BY <1>5, <2>1, <2>2, <2>3 DEF Told
<1> QED
  BY <1>3, <1>4, <1>5

\* What the aggregator says of a launch all of whose records it has read, for any plan: if all of
\* its invocations succeeded it is complete and counts the runs they began; and it counts at least
\* the runs of each that did (finalize_launch, _run).
THEOREM VerdictsMeanOutcomes == Spec => []VerdictMeansOutcome
<1>1. TraceInv => VerdictMeansOutcome
  <2> SUFFICES ASSUME TraceInv, step = "read", seen = disk, NEW k \in LaunchKeys, Of(k) # {}
               PROVE  /\ (\A i \in Of(k) : exits[i].code = "success") =>
                           /\ A!LaunchVerdict(k).status = "complete"
                           /\ A!LaunchVerdict(k).total = Cardinality(BegunUnder(k))
                      /\ \A i \in Of(k) : exits[i].code = "success" =>
                           Len(exits[i].runs) <= A!LaunchVerdict(k).total
    BY DEF VerdictMeansOutcome
  <2>1. A!LaunchVerdictExact(k)
    BY SameProperties, AP!VerdictsFollow DEF TraceInv, A!VerdictsFollowRecords
  <2>2. /\ A!LaunchVerdict(k).status = "complete" <=>
             /\ \E rec \in seen : rec.kind = "launchStart" /\ rec.launch = k
             /\ \E rec \in seen : rec.kind = "launchEnd" /\ rec.launch = k
             /\ \A r \in AP!Attached(k) : AP!HasEdges(r)
        /\ A!LaunchVerdict(k).total = Cardinality(AP!Attached(k))
    <3>1. A!Attached(k) = AP!Attached(k) /\ \A r : A!HasEdges(r) <=> AP!HasEdges(r)
      BY DEF A!Attached, A!HasEdges, A!SeenOf, AP!Attached, AP!HasEdges, AP!SeenOf
    <3>2. \A S : A!Cardinality(S) = Cardinality(S)
      BY Zenon DEF A!Cardinality, Cardinality
    <3> QED
      BY <2>1, <3>1, <3>2 DEF A!LaunchVerdictExact
  <2>3. AP!Attached(k) \subseteq BegunUnder(k) /\ IsFiniteSet(BegunUnder(k))
    BY AllAttached
  <2>4. ASSUME NEW i \in Of(k), exits[i].code = "success"
        PROVE  Len(exits[i].runs) <= A!LaunchVerdict(k).total
    <3>1. /\ exits[i].begun = Len(exits[i].runs) /\ exits[i].begun \in Nat
          /\ \A n \in 1 .. exits[i].begun : <<i, n>> \in AP!Attached(k)
      BY <2>4, AllAttached
    <3> DEFINE N == exits[i].begun
    <3>2. {i} \X (1 .. N) \subseteq AP!Attached(k)
      BY <3>1
    <3>3. IsFiniteSet(AP!Attached(k))
      BY <2>3, FS_Subset
    <3>4. Cardinality({i} \X (1 .. N)) <= Cardinality(AP!Attached(k))
      BY <3>2, <3>3, FS_Subset
    <3>5. Cardinality({i} \X (1 .. N)) = N
      BY <3>1, Numbered
    <3> QED
      BY <2>2, <3>1, <3>4, <3>5
  <2>5. ASSUME \A i \in Of(k) : exits[i].code = "success"
        PROVE  /\ A!LaunchVerdict(k).status = "complete"
               /\ A!LaunchVerdict(k).total = Cardinality(BegunUnder(k))
    <3>1. ASSUME NEW r \in BegunUnder(k)
          PROVE  r \in AP!Attached(k) /\ AP!HasEdges(r)
      <4>1. r[1] \in Of(k) /\ r[2] \in 1 .. MaxRuns /\ r[2] <= exits[r[1]].begun
            /\ r = <<r[1], r[2]>>
        BY DEF BegunUnder
      <4>2. r[2] \in 1 .. exits[r[1]].begun
        BY <2>5, <4>1, AllAttached, Assumed
      <4> QED
        BY <2>5, <4>1, <4>2, AllAttached
    <3>2. AP!Attached(k) = BegunUnder(k)
      BY <2>3, <3>1
    <3>3. /\ \E rec \in seen : rec.kind = "launchStart" /\ rec.launch = k
          /\ \E rec \in seen : rec.kind = "launchEnd" /\ rec.launch = k
      BY <2>5, AllAttached
    <3> QED
      BY <2>2, <3>1, <3>2, <3>3
  <2> QED
    BY <2>4, <2>5
<1> QED
  BY <1>1, TraceInvariant, PTL

\* Early verdicts only widen the times of a run, and as long as the clock does not go back no
\* run is said to end before it starts (finalize_run), whatever was lost, repeated or cut off.
THEOREM TimesAreHonest == Spec => []TimesHonest
<1>1. ASSUME TraceInv PROVE TimesHonest
  <2>1. AP!AggInv /\ ReadOk /\ OrderOk
    BY <1>1 DEF TraceInv
  <2>2. A!EarlyVerdictsNeverAccuse
    BY <2>1, SameProperties, AP!EarlyVerdicts
  <2>3. ASSUME Steady, NEW r \in DOMAIN aruns PROVE ~A!TimeProblem(A!Synthesized(aruns[r]))
    <3>1. r \in Invocations \X (1 .. MaxRuns)
      BY <2>1 DEF AP!AggInv, AP!TableOk
    <3>2. \A s \in AP!SeenOf(r, "start"), e \in AP!SeenOf(r, "end") : s.time <= e.time
      BY <2>1, <2>3 DEF AP!SeenOf, ReadOk, OrderOk, InTimeOrder
    <3> QED
      BY <2>1, <3>1, <3>2, AP!OrderedTimes, SameVerdicts
  <2> QED
    BY <2>2, <2>3 DEF TimesHonest, Steady
<1> QED
  BY <1>1, TraceInvariant, PTL

\* What holds of launches alone holds of launches whose records are read back.
THEOREM LaunchesAreKept ==
    Spec => [](RunsAttributed /\ SummaryHonest /\ EdgesPaired /\ SameIdSameRuns)
<1>1. Init => InitLaunch
  BY DEF Init
<1>2. Spec => LaunchSpec
  BY <1>1, LaunchStep, PTL DEF Spec, LaunchSpec
<1> QED
  BY <1>2, Attribution, HonestSummary, PairedEdges, SameIdentity, PTL

================================================================================
