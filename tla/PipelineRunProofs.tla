--------------------------- MODULE PipelineRunProofs ---------------------------
(***************************************************************************)
(* What the trace of PipelineRun says, for pipelines of any length, any    *)
(* number of runs and any metadata: the order of the records, what they    *)
(* say of how the run ended, its file and its metadata.                    *)
(***************************************************************************)
EXTENDS PipelineRun, TLAPS

\* From the first record of a run to its end.
Inside == {"instantiate", "node", "report", "reportError", "publish", "endOk", "endError",
           "close"}
\* The ways to leave a run that leave the driver's file open.
Leaky == {"resolve", "start", "instantiate", "driver"}

Opened == pc \in Inside => file \in Runs

\* The runs since the one that the open file is named after did not close it. (A launch
\* that writes to the file of its first run may open it before that run.)
FileKept ==
    file # NoFile =>
        /\ file <= run \/ (pc = "idle" /\ run = 0 /\ file = 1)
        /\ \A r \in file .. run : (r < run \/ pc = "idle") => outcome[r] \in Leaky

\* Where the records of the current run are, and those of each run.
FilesOk ==
    \A i \in DOMAIN log :
        /\ log[i].run <= run
        /\ pc # "idle" /\ log[i].run = run => pc # "start" /\ log[i].file = file
        /\ \A k \in DOMAIN log : log[k].run = log[i].run => log[k].file = log[i].file
        /\ \A r \in log[i].file .. (log[i].run - 1) : outcome[r] \in Leaky

\* What a record that is written says of where the run is.
RecordsOk ==
    \A i \in DOMAIN log :
        /\ log[i].kind # "ser" => log[i].seq <= seq
        /\ log[i].kind = "ser" => log[i].status \in {"succeeded", "error"}
        /\ log[i].run = run /\ pc # "idle" =>
             /\ log[i].kind = "end" => pc = "close"
             /\ log[i].kind = "ser" =>
                  /\ log[i].node <= at /\ pc # "instantiate"
                  /\ log[i].node = at => pc \in {"publish", "endOk", "endError", "close"}
                  /\ log[i].status = "error" => pc \in {"endError", "close"}

\* A run that has come past its start has written it.
HasStart(r) == \E i \in DOMAIN log : log[i].kind = "start" /\ log[i].run = r
StartedOk ==
    /\ pc \notin {"idle", "start"} => HasStart(run)
    /\ \A r \in Runs : HasEnd(r) => HasStart(r)

\* The metadata that the next run will take, or that the current one took.
StagedOk ==
    /\ \A r \in Runs : r > run + 1 \/ (r > run /\ pc # "idle") => asked[r] = NoMeta
    /\ pc # "idle" => staged = metaOf[run]
    /\ pc = "idle" /\ run < MaxRuns /\ staged # asked[run + 1] =>
         /\ asked[run + 1] = NoMeta
         /\ run > 0 /\ outcome[run] # "ok" /\ staged = metaOf[run]

\* The nodes of the current run whose SER must be on file.
Done(n) == \/ pc \in {"node", "report", "reportError"} /\ n < at
           \/ pc = "publish" /\ n <= at
           \/ pc = "endOk"

EndsWith(status) == \E i \in DOMAIN log : End(i, run) /\ log[i].status = status

\* What the cause of the current run and its records say of each other.
ProgressOk ==
    /\ \A r \in Runs : r > run \/ (r = run /\ pc # "idle") => outcome[r] = "none"
    /\ pc = "reportError" => cause \in {"node", "driver"}
    /\ pc = "endError" => cause \in {"node", "driver", "prepare", "publish"}
    /\ \A n \in 1 .. NodeCount : Done(n) =>
         \E k \in DOMAIN log : Ser(k, run, "succeeded") /\ log[k].node = n
    /\ pc # "idle" =>
         /\ HasError(run) => cause \in {"node", "driver"}
         /\ HasEnd(run) => cause \notin {"interrupted", "exit"}
    /\ pc \in {"endError", "close"} /\ cause = "node" => HasError(run)
    /\ pc = "close" =>
         /\ cause \in {"node", "prepare", "publish"} => EndsWith("error")
         /\ cause = "ok" => EndsWith("ok")
         /\ cause \notin {"resolve", "start", "instantiate"}

IInv == /\ TypeOK /\ Opened
        /\ FileKept /\ FilesOk
        /\ RecordsOk /\ WellFormedTrace /\ StartedOk
        /\ ProgressOk /\ OkMeansComplete /\ CauseInTrace
        /\ StagedOk /\ MetadataFresh

-----------------------------------------------------------------------------
(* The steps, by what they leave alone *)

USE DEF metadata, driver, Runs, NoFile

\* Inside of the node loop, and nothing is written.
Quiet == NodeReturns \/ NodeRaises \/ PrepareFails \/ Interrupt \/ ProcessorExits
         \/ ReportFails \/ ReportErrorFails \/ PublishFails
\* Before the nodes run.
Begins == InstantiateNodes \/ Publish
Writes == PipelineStart \/ Report \/ ReportError \/ EndOk \/ EndError
\* The run ends and leaves the file open.
Leaves == ResolveFails \/ StartFails \/ InstantiateFails \/ CloseFails

LEMMA ByKind ==
    Next => \/ Quiet \/ Begins \/ Writes \/ Leaves \/ EndFails \/ Close \/ Process
            \/ \E m \in Metas : SetRunMetadata(m)
  BY DEF Next, Running, Quiet, Begins, Writes, Leaves

\* One record more.
LEMMA Appended ==
    ASSUME TypeOK, NEW rec, log' = Append(log, rec)
    PROVE  /\ DOMAIN log = 1 .. Len(log) /\ Len(log) \in Nat
           /\ DOMAIN log' = 1 .. (Len(log) + 1)
           /\ \A i \in DOMAIN log : log'[i] = log[i]
           /\ log'[Len(log) + 1] = rec
  BY DEF TypeOK

-----------------------------------------------------------------------------
(* Types *)

LEMMA TypeStep ==
    ASSUME TypeOK, Opened, Next
    PROVE  TypeOK' /\ Opened'
<1> USE PipelineRunAssumption DEF TypeOK, Opened, Inside, PipelineRunAssumption
<1>1. CASE Quiet
  BY <1>1 DEF Quiet, NodeReturns, NodeRaises, PrepareFails, Interrupt, ProcessorExits, ReportFails,
              ReportErrorFails, PublishFails, Goto, Causes
<1>2. CASE Begins
  <2>1. CASE InstantiateNodes
    BY <2>1 DEF InstantiateNodes
  <2>2. CASE Publish
    BY <2>2 DEF Publish
  <2> QED
    BY <1>2, <2>1, <2>2 DEF Begins
<1>3. CASE Writes
  <2>1. ASSUME NEW f \in Runs, NEW kind \in {"start", "ser", "end"}, NEW node \in 0 .. NodeCount,
               NEW status \in {"-", "succeeded", "error", "ok"}, NEW n \in Nat,
               log' = Append(log, Record(f, kind, node, status, n)), pc # "idle"
        PROVE  log' \in Seq(Records)
    BY <2>1 DEF Record, Records
  <2>2. CASE PipelineStart
    <3>1. OpenFile \in Runs
      BY <2>2 DEF OpenFile, PipelineStart
    <3>2. log' \in Seq(Records)
      BY <2>1, <2>2, <3>1 DEF PipelineStart, WriteLifecycle
    <3> QED
      BY <2>2, <3>1, <3>2 DEF PipelineStart, WriteLifecycle
  <2>3. CASE Report \/ ReportError
    <3>1. log' \in Seq(Records)
      BY <2>1, <2>3 DEF Report, ReportError, WriteSer
    <3> QED
      BY <2>3, <3>1 DEF Report, ReportError, WriteSer, Goto
  <2>4. CASE EndOk \/ EndError
    <3>1. log' \in Seq(Records)
      BY <2>1, <2>4 DEF EndOk, EndError, WriteLifecycle
    <3> QED
      BY <2>4, <3>1 DEF EndOk, EndError, WriteLifecycle, Goto
  <2> QED
    BY <1>3, <2>2, <2>3, <2>4 DEF Writes
<1>4. CASE Leaves
  <2>1. CASE StartFails
    BY <2>1 DEF StartFails, Escape, OpenFile, Causes
  <2>2. CASE ResolveFails \/ InstantiateFails \/ CloseFails
    BY <2>2 DEF ResolveFails, InstantiateFails, CloseFails, Escape, Causes
  <2> QED
    BY <1>4, <2>1, <2>2 DEF Leaves
<1>5. CASE EndFails
  BY <1>5 DEF EndFails, Goto, Causes
<1>6. CASE Close
  BY <1>6 DEF Close
<1>7. CASE Process
  BY <1>7 DEF Process
<1>8. ASSUME NEW m \in Metas, SetRunMetadata(m)
      PROVE  TypeOK' /\ Opened'
  BY <1>8 DEF SetRunMetadata
<1> QED
  BY <1>1, <1>2, <1>3, <1>4, <1>5, <1>6, <1>7, <1>8, ByKind

-----------------------------------------------------------------------------
(* The file *)

LEMMA LogType ==
    ASSUME TypeOK
    PROVE  \A i \in DOMAIN log : log[i].run \in Runs /\ log[i].file \in Runs
<1>1. \A i \in DOMAIN log : log[i] \in Records
  BY DEF TypeOK
<1> QED
  BY <1>1 DEF Records

\* Nothing that FileKept and FilesOk speak of changes, but for the place.
LEMMA SameFile ==
    ASSUME TypeOK, Opened, FileKept, FilesOk, pc \notin {"idle", "start"},
           pc' \notin {"idle", "start"}, UNCHANGED <<run, file, log, outcome>>
    PROVE  FileKept' /\ FilesOk'
  BY DEF FileKept, FilesOk

\* A record of the current run is written to the open file.
LEMMA SameFileOneMore ==
    ASSUME TypeOK, FileKept, FilesOk, run \in Runs,
           NEW kind, NEW node, NEW status, NEW n,
           file' \in Runs, file' = file \/ (file = NoFile /\ file' = run),
           pc = "start" \/ file' = file, pc # "idle",
           pc' \notin {"idle", "start"}, UNCHANGED <<run, outcome>>,
           log' = Append(log, Record(file', kind, node, status, n))
    PROVE  FileKept' /\ FilesOk'
<1> DEFINE rec == Record(file', kind, node, status, n)
<1>1. rec.file = file' /\ rec.run = run
  BY DEF Record
<1>2. FileKept'
  BY DEF TypeOK, FileKept
<1>3. \A r \in file' .. (run - 1) : outcome[r] \in Leaky
  BY DEF TypeOK, FileKept
<1>4. \A i \in DOMAIN log : log[i].run = run => log[i].file = file'
  BY DEF FilesOk
<1>5. /\ DOMAIN log' = DOMAIN log \union {Len(log) + 1}
      /\ \A i \in DOMAIN log : log'[i] = log[i]
      /\ log'[Len(log) + 1] = rec
  BY Appended
<1> HIDE DEF rec
<1>6. ASSUME NEW i \in DOMAIN log'
      PROVE  /\ log'[i].run <= run
             /\ log'[i].run = run => log'[i].file = file'
             /\ \A k \in DOMAIN log' : log'[k].run = log'[i].run => log'[k].file = log'[i].file
             /\ \A r \in log'[i].file .. (log'[i].run - 1) : outcome[r] \in Leaky
  <2>1. CASE i \in DOMAIN log
    BY <2>1, <1>1, <1>4, <1>5 DEF FilesOk
  <2>2. CASE i = Len(log) + 1
    BY <2>2, <1>1, <1>3, <1>4, <1>5
  <2> QED
    BY <1>5, <2>1, <2>2
<1> QED
  BY <1>2, <1>6 DEF FilesOk

LEMMA FileStep ==
    ASSUME TypeOK, Opened, FileKept, FilesOk, Next
    PROVE  FileKept' /\ FilesOk'
<1>1. CASE Quiet
  BY <1>1, SameFile DEF Quiet, NodeReturns, NodeRaises, PrepareFails, Interrupt,
                        ProcessorExits, ReportFails,
                        ReportErrorFails, PublishFails, Goto
<1>2. CASE Begins
  <2>1. pc \in {"instantiate", "publish"} /\ pc' \in {"node", "endOk"}
    BY <1>2 DEF Begins, InstantiateNodes, Publish
  <2>2. UNCHANGED <<run, file, log, outcome>>
    BY <1>2 DEF Begins, InstantiateNodes, Publish
  <2> QED
    BY <2>1, <2>2, SameFile
<1>3. CASE Writes
  <2>1. run \in Runs /\ pc # "idle" /\ pc' \notin {"idle", "start"} /\ UNCHANGED <<run, outcome>>
    BY <1>3 DEF TypeOK, Writes, PipelineStart, Report, ReportError, EndOk, EndError, Goto
  <2>2. CASE PipelineStart
    <3>1. /\ file' \in Runs /\ pc = "start"
          /\ file' = file \/ (file = NoFile /\ file' = run)
      BY <2>1, <2>2 DEF PipelineStart, OpenFile, TypeOK
    <3>2. log' = Append(log, Record(file', "start", 0, "-", seq + 1))
      BY <2>2 DEF PipelineStart, WriteLifecycle
    <3> QED
      BY <2>1, <3>1, <3>2, SameFileOneMore
  <2>3. CASE Report \/ ReportError
    <3>1. file \in Runs /\ file' = file
      BY <2>3 DEF Report, ReportError, WriteSer, Opened, Inside
    <3>2. PICK status : log' = Append(log, Record(file', "ser", at, status, 0))
      BY <2>3, <3>1 DEF Report, ReportError, WriteSer
    <3> QED
      BY <2>1, <3>1, <3>2, SameFileOneMore
  <2>4. CASE EndOk \/ EndError
    <3>1. file \in Runs /\ file' = file
      BY <2>4 DEF EndOk, EndError, Opened, Inside
    <3>2. PICK status : log' = Append(log, Record(file', "end", 0, status, seq + 1))
      BY <2>4, <3>1 DEF EndOk, EndError, WriteLifecycle
    <3> QED
      BY <2>1, <3>1, <3>2, SameFileOneMore
  <2> QED
    BY <1>3, <2>2, <2>3, <2>4 DEF Writes
<1>4. CASE Leaves
  <2>1. /\ pc # "idle" /\ run \in Runs /\ UNCHANGED <<run, log>> /\ pc' = "idle"
        /\ outcome' = [outcome EXCEPT ![run] = outcome'[run]]
        /\ outcome'[run] \in Leaky
        /\ file' = file \/ (file = NoFile /\ file' = run)
    BY <1>4 DEF Leaves, ResolveFails, StartFails, InstantiateFails, CloseFails, Escape, OpenFile,
                TypeOK, Leaky
  <2>2. \A r \in 1 .. run : r # run => outcome'[r] = outcome[r]
    BY <2>1, PipelineRunAssumption DEF TypeOK, PipelineRunAssumption
  <2>3. FileKept'
    <3> SUFFICES ASSUME file' # NoFile
                 PROVE  file' <= run /\ \A r \in file' .. run : outcome'[r] \in Leaky
      BY <2>1 DEF FileKept
    <3>1. file' \in Runs /\ file' <= run
      BY <2>1 DEF FileKept, TypeOK
    <3>2. \A r \in file' .. run : r # run => outcome[r] \in Leaky
      BY <2>1, <3>1 DEF FileKept, TypeOK
    <3> QED
      BY <2>1, <2>2, <3>1, <3>2
  <2>4. ASSUME NEW i \in DOMAIN log, NEW r \in log[i].file .. (log[i].run - 1)
        PROVE  outcome'[r] \in Leaky
    <3>1. log[i].file \in Runs /\ log[i].run \in Runs /\ log[i].run <= run
      BY LogType DEF FilesOk
    <3>2. r \in 1 .. run /\ r # run
      BY <2>1, <3>1
    <3> QED
      BY <2>2, <3>2 DEF FilesOk
  <2>5. FilesOk'
    BY <2>1, <2>4 DEF FilesOk
  <2> QED
    BY <2>3, <2>5
<1>5. CASE EndFails
  BY <1>5, SameFile DEF EndFails, Goto
<1>6. CASE Close
  <2>1. \A r \in Runs : r # run => outcome'[r] = outcome[r]
    BY <1>6 DEF Close, TypeOK
  <2> QED
    BY <1>6, <2>1, LogType DEF Close, FileKept, FilesOk, TypeOK
<1>7. CASE Process
  <2>1. /\ run \in 0 .. MaxRuns /\ run' = run + 1 /\ pc = "idle" /\ pc' = "start"
        /\ UNCHANGED <<file, log, outcome>>
    BY <1>7 DEF Process, TypeOK
  <2>2. FileKept'
    BY <2>1 DEF FileKept, TypeOK
  <2>3. FilesOk'
    BY <2>1, LogType DEF FilesOk
  <2> QED
    BY <2>2, <2>3
<1>8. ASSUME NEW m \in Metas, SetRunMetadata(m)
      PROVE  FileKept' /\ FilesOk'
  BY <1>8 DEF SetRunMetadata, FileKept, FilesOk
<1> QED
  BY <1>1, <1>2, <1>3, <1>4, <1>5, <1>6, <1>7, <1>8, ByKind

-----------------------------------------------------------------------------
(* The records *)

LEMMA Fields ==
    ASSUME TypeOK
    PROVE  /\ \A i \in DOMAIN log :
                /\ log[i].run \in Runs /\ log[i].node \in Nat /\ log[i].seq \in Nat
                /\ log[i].kind \in {"start", "ser", "end"}
           /\ run \in Nat /\ at \in Nat /\ seq \in Nat
<1>1. \A i \in DOMAIN log : log[i] \in Records
  BY DEF TypeOK
<1> QED
  BY <1>1, PipelineRunAssumption DEF Records, TypeOK, PipelineRunAssumption

\* Every earlier record stands to the new one as WellFormedTrace asks.
LEMMA OneMore ==
    ASSUME TypeOK, WellFormedTrace, NEW rec, log' = Append(log, rec),
           \A i \in DOMAIN log :
             /\ log[i].run <= rec.run
             /\ log[i].kind # "ser" /\ rec.kind # "ser" => log[i].seq < rec.seq
             /\ log[i].run = rec.run =>
                  /\ rec.kind # "start" /\ log[i].kind # "end"
                  /\ log[i].kind = "ser" /\ rec.kind = "ser" =>
                       log[i].node < rec.node /\ log[i].status = "succeeded"
    PROVE  WellFormedTrace'
<1> SUFFICES ASSUME NEW i \in DOMAIN log', NEW k \in DOMAIN log', i < k
             PROVE  /\ log'[i].run <= log'[k].run
                    /\ log'[i].kind # "ser" /\ log'[k].kind # "ser" => log'[i].seq < log'[k].seq
                    /\ log'[i].run = log'[k].run =>
                         /\ log'[k].kind # "start" /\ log'[i].kind # "end"
                         /\ log'[i].kind = "ser" /\ log'[k].kind = "ser" =>
                              log'[i].node < log'[k].node /\ log'[i].status = "succeeded"
  BY DEF WellFormedTrace
<1>1. i \in DOMAIN log /\ log'[i] = log[i]
  BY Appended
<1>2. CASE k \in DOMAIN log
  BY <1>1, <1>2, Appended DEF WellFormedTrace
<1>3. CASE k = Len(log) + 1
  BY <1>1, <1>3, Appended
<1> QED
  BY <1>2, <1>3, Appended

LEMMA RecordStep ==
    ASSUME TypeOK, FilesOk, RecordsOk, WellFormedTrace, Next
    PROVE  RecordsOk' /\ WellFormedTrace'
<1> USE Fields
<1>1. CASE Quiet
  BY <1>1 DEF Quiet, NodeReturns, NodeRaises, PrepareFails, Interrupt, ProcessorExits, ReportFails,
              ReportErrorFails, PublishFails, Goto, RecordsOk, WellFormedTrace
<1>2. CASE Begins
  <2>1. CASE InstantiateNodes
    BY <2>1 DEF InstantiateNodes, RecordsOk, WellFormedTrace
  <2>2. CASE Publish
    BY <2>2 DEF Publish, RecordsOk, WellFormedTrace
  <2> QED
    BY <1>2, <2>1, <2>2 DEF Begins
<1>3. CASE Writes
  <2>1. CASE PipelineStart
    <3> DEFINE rec == Record(OpenFile, "start", 0, "-", seq + 1)
    <3>1. /\ log' = Append(log, rec) /\ seq' = seq + 1 /\ run' = run /\ at' = at
          /\ pc = "start" /\ pc' = "instantiate"
      BY <2>1 DEF PipelineStart, WriteLifecycle
    <3>2. rec.run = run /\ rec.kind = "start" /\ rec.seq = seq + 1
      BY DEF Record
    <3> HIDE DEF rec
    <3>3. \A i \in DOMAIN log : log[i].run # run /\ log[i].run <= run
      BY <3>1 DEF FilesOk
    <3>4. \A i \in DOMAIN log : log[i].kind # "ser" => log[i].seq < seq + 1
      BY DEF RecordsOk
    <3>5. WellFormedTrace'
      BY <3>1, <3>2, <3>3, <3>4, OneMore
    <3>6. RecordsOk'
      BY <3>1, <3>2, <3>3, <3>4, Appended DEF RecordsOk
    <3> QED
      BY <3>5, <3>6
  <2>2. CASE Report \/ ReportError
    <3>1. PICK status \in {"succeeded", "error"} :
             /\ log' = Append(log, Record(file, "ser", at, status, 0))
             /\ status = "error" => pc' = "endError"
      BY <2>2 DEF Report, ReportError, WriteSer, Goto
    <3>2. /\ seq' = seq /\ run' = run /\ at' = at
          /\ pc \in {"report", "reportError"} /\ pc' \in {"publish", "endError"}
      BY <2>2 DEF Report, ReportError, WriteSer, Goto
    <3> DEFINE rec == Record(file, "ser", at, status, 0)
    <3>3. rec.run = run /\ rec.kind = "ser" /\ rec.node = at /\ rec.status = status
      BY DEF Record
    <3>4. log' = Append(log, rec)
      BY <3>1
    <3> HIDE DEF rec
    <3>5. \A i \in DOMAIN log :
             /\ log[i].run <= run
             /\ log[i].run = run =>
                  /\ log[i].kind # "end"
                  /\ log[i].kind = "ser" => log[i].node < at /\ log[i].status = "succeeded"
      BY <3>2 DEF RecordsOk, FilesOk
    <3>6. WellFormedTrace'
      BY <3>2, <3>3, <3>4, <3>5, OneMore
    <3>7. RecordsOk'
      BY <3>1, <3>2, <3>3, <3>4, <3>5, Appended DEF RecordsOk
    <3> QED
      BY <3>6, <3>7
  <2>3. CASE EndOk \/ EndError
    <3>1. PICK status : log' = Append(log, Record(file, "end", 0, status, seq + 1))
      BY <2>3 DEF EndOk, EndError, WriteLifecycle
    <3>2. /\ seq' = seq + 1 /\ run' = run /\ at' = at
          /\ pc \in {"endOk", "endError"} /\ pc' = "close"
      BY <2>3 DEF EndOk, EndError, WriteLifecycle, Goto
    <3> DEFINE rec == Record(file, "end", 0, status, seq + 1)
    <3>3. rec.run = run /\ rec.kind = "end" /\ rec.seq = seq + 1
      BY DEF Record
    <3>4. log' = Append(log, rec)
      BY <3>1
    <3> HIDE DEF rec
    <3>5. \A i \in DOMAIN log :
             /\ log[i].run <= run
             /\ log[i].run = run => log[i].kind # "end"
             /\ log[i].kind # "ser" => log[i].seq < seq + 1
      BY <3>2 DEF RecordsOk, FilesOk
    <3>6. WellFormedTrace'
      BY <3>2, <3>3, <3>4, <3>5, OneMore
    <3>7. RecordsOk'
      BY <3>2, <3>3, <3>4, <3>5, Appended DEF RecordsOk
    <3> QED
      BY <3>6, <3>7
  <2> QED
    BY <1>3, <2>1, <2>2, <2>3 DEF Writes
<1>4. CASE Leaves
  BY <1>4 DEF Leaves, ResolveFails, StartFails, InstantiateFails, CloseFails, Escape,
              RecordsOk, WellFormedTrace
<1>5. CASE EndFails
  BY <1>5 DEF EndFails, Goto, RecordsOk, WellFormedTrace
<1>6. CASE Close
  BY <1>6 DEF Close, RecordsOk, WellFormedTrace
<1>7. CASE Process
  BY <1>7 DEF Process, FilesOk, RecordsOk, WellFormedTrace
<1>8. ASSUME NEW m \in Metas, SetRunMetadata(m)
      PROVE  RecordsOk' /\ WellFormedTrace'
  BY <1>8 DEF SetRunMetadata, RecordsOk, WellFormedTrace
<1> QED
  BY <1>1, <1>2, <1>3, <1>4, <1>5, <1>6, <1>7, <1>8, ByKind

-----------------------------------------------------------------------------
(* How runs end *)

\* No run loses a record, and only the current one gets more.
LEMMA LogGrows ==
    ASSUME TypeOK, Next
    PROVE  /\ \A i \in DOMAIN log : i \in DOMAIN log' /\ log'[i] = log[i]
           /\ \A i \in DOMAIN log' \ DOMAIN log : log'[i].run = run /\ pc # "idle"
<1>1. ASSUME NEW f, NEW kind, NEW node, NEW status, NEW n, pc # "idle",
             log' = Append(log, Record(f, kind, node, status, n))
      PROVE  /\ \A i \in DOMAIN log : i \in DOMAIN log' /\ log'[i] = log[i]
             /\ \A i \in DOMAIN log' \ DOMAIN log : log'[i].run = run /\ pc # "idle"
  <2>1. Record(f, kind, node, status, n).run = run
    BY DEF Record
  <2> QED
    BY <1>1, <2>1, Appended
<1>2. CASE Writes
  BY <1>1, <1>2 DEF Writes, PipelineStart, Report, ReportError, EndOk, EndError,
                    WriteLifecycle, WriteSer
<1>3. CASE UNCHANGED log
  BY <1>3
<1>4. Writes \/ UNCHANGED log
  BY ByKind DEF Quiet, NodeReturns, NodeRaises, PrepareFails, Interrupt,
                ProcessorExits, ReportFails,
                ReportErrorFails, PublishFails, Begins, InstantiateNodes, Publish, Leaves,
                ResolveFails, StartFails, InstantiateFails, CloseFails, EndFails, Close, Process,
                SetRunMetadata
<1> QED
  BY <1>2, <1>3, <1>4

\* What is on file of a run that is over stays as it is.
LEMMA PastStays ==
    ASSUME TypeOK, Next, NEW r, r # run \/ pc = "idle"
    PROVE  /\ HasError(r)' = HasError(r) /\ HasEnd(r)' = HasEnd(r)
           /\ \A status : (\E i \in DOMAIN log : End(i, r) /\ log[i].status = status)' =
                          (\E i \in DOMAIN log : End(i, r) /\ log[i].status = status)
<1>1. \A i \in DOMAIN log' : log'[i].run = r => i \in DOMAIN log
  BY LogGrows
<1> QED
  BY <1>1, LogGrows DEF HasError, HasEnd, Ser, End

\* A run starts with its start record; only the current run gets an end.
LEMMA StartedStep ==
    ASSUME TypeOK, RecordsOk, StartedOk, Next
    PROVE  StartedOk'
<1>1. \A r : HasStart(r) => HasStart(r)'
  BY LogGrows DEF HasStart
<1>2. \A r \in Runs : HasEnd(r)' => HasEnd(r) \/ (r = run /\ pc \notin {"idle", "start"})
  <2> SUFFICES ASSUME NEW r \in Runs, NEW i \in DOMAIN log', log'[i].kind = "end", log'[i].run = r
               PROVE  HasEnd(r) \/ (r = run /\ pc \notin {"idle", "start"})
    BY DEF HasEnd, End
  <2>1. CASE i \in DOMAIN log
    BY <2>1, LogGrows DEF HasEnd, End
  <2>2. CASE i \notin DOMAIN log
    <3>1. r = run /\ pc # "idle"
      BY <2>2, LogGrows
    <3>2. CASE PipelineStart
      <4>1. log' = Append(log, Record(OpenFile, "start", 0, "-", seq + 1))
        BY <3>2 DEF PipelineStart, WriteLifecycle
      <4>2. log'[i] = Record(OpenFile, "start", 0, "-", seq + 1)
        BY <2>2, <4>1, Appended
      <4> QED
        BY <4>2 DEF Record
    <3>3. CASE ~PipelineStart
      <4>1. pc = "start" => log' = log
        BY <3>3, ByKind
           DEF Quiet, NodeReturns, NodeRaises, PrepareFails, Interrupt, ProcessorExits, ReportFails,
               ReportErrorFails, PublishFails, Begins, InstantiateNodes, Publish, Writes, Report,
               ReportError, EndOk, EndError, Leaves, ResolveFails, StartFails, InstantiateFails,
               CloseFails, EndFails, Close, Process, SetRunMetadata
      <4> QED
        BY <2>2, <3>1, <4>1
    <3> QED
      BY <3>2, <3>3
  <2> QED
    BY <2>1, <2>2
<1>3. pc' \notin {"idle", "start"} => HasStart(run)'
  <2>1. CASE PipelineStart
    <3>1. log' = Append(log, Record(OpenFile, "start", 0, "-", seq + 1)) /\ run' = run
      BY <2>1 DEF PipelineStart, WriteLifecycle
    <3> DEFINE rec == Record(OpenFile, "start", 0, "-", seq + 1)
    <3>2. rec.kind = "start" /\ rec.run = run
      BY DEF Record
    <3> HIDE DEF rec
    <3>3. log'[Len(log) + 1] = rec /\ Len(log) + 1 \in DOMAIN log'
      BY <3>1, Appended DEF rec
    <3> QED
      BY <3>1, <3>2, <3>3 DEF HasStart
  <2>2. CASE ~PipelineStart
    <3>1. pc' \notin {"idle", "start"} => pc \notin {"idle", "start"} /\ run' = run
      BY <2>2, ByKind
         DEF Quiet, NodeReturns, NodeRaises, PrepareFails, Interrupt, ProcessorExits, ReportFails,
             ReportErrorFails, PublishFails, Begins, InstantiateNodes, Publish, Writes, Report,
             ReportError, EndOk, EndError, Leaves, ResolveFails, StartFails, InstantiateFails,
             CloseFails, EndFails, Close, Process, SetRunMetadata, Goto, Escape
    <3> QED
      BY <1>1, <3>1 DEF StartedOk
  <2> QED
    BY <2>1, <2>2
<1> QED
  BY <1>1, <1>2, <1>3 DEF StartedOk

LEMMA ProgressStep ==
    ASSUME TypeOK, FilesOk, RecordsOk, ProgressOk, Next
    PROVE  ProgressOk'
<1> USE DEF ProgressOk, Done, EndsWith, HasError, HasEnd, Ser, End
<1>1. CASE Quiet
  BY <1>1 DEF Quiet, NodeReturns, NodeRaises, PrepareFails, Interrupt, ProcessorExits, ReportFails,
              ReportErrorFails, PublishFails, Goto, RecordsOk
<1>2. CASE Begins
  <2>1. CASE InstantiateNodes
    BY <2>1 DEF InstantiateNodes
  <2>2. CASE Publish
    <3>1. /\ pc = "publish" /\ pc' \in {"node", "endOk"}
          /\ UNCHANGED <<run, log, outcome, cause>>
      BY <2>2 DEF Publish
    <3>2. \A n \in 1 .. NodeCount : Done(n)' => Done(n)
      BY <2>2, Fields, PipelineRunAssumption DEF Publish, TypeOK, PipelineRunAssumption
    <3> QED
      BY <3>1, <3>2
  <2> QED
    BY <1>2, <2>1, <2>2 DEF Begins
<1>3. CASE PipelineStart
  <2>1. \A i \in DOMAIN log : log[i].run # run
    BY <1>3 DEF PipelineStart, FilesOk
  <2>2. log' = Append(log, Record(OpenFile, "start", 0, "-", seq + 1))
    BY <1>3 DEF PipelineStart, WriteLifecycle
  <2>3. Record(OpenFile, "start", 0, "-", seq + 1).kind = "start"
    BY DEF Record
  <2>4. \A i \in DOMAIN log' : log'[i].run = run => log'[i].kind = "start"
    BY <2>1, <2>2, <2>3, Appended
  <2> QED
    BY <1>3, <2>4 DEF PipelineStart
<1>4. CASE Report
  <2>1. log' = Append(log, Record(file, "ser", at, "succeeded", 0))
    BY <1>4 DEF Report, WriteSer
  <2> DEFINE rec == Record(file, "ser", at, "succeeded", 0)
  <2>2. rec.run = run /\ rec.kind = "ser" /\ rec.node = at /\ rec.status = "succeeded"
    BY DEF Record
  <2> HIDE DEF rec
  <2>3. \A i \in DOMAIN log : log[i].run = run =>
           log[i].kind # "end" /\ (log[i].kind = "ser" => log[i].status # "error")
    BY <1>4 DEF Report, RecordsOk
  <2>4. \A i \in DOMAIN log' : log'[i].run = run =>
           log'[i].kind # "end" /\ (log'[i].kind = "ser" => log'[i].status # "error")
    BY <2>1, <2>2, <2>3, Appended DEF rec
  <2>5. ASSUME NEW n \in 1 .. NodeCount, Done(n)'
        PROVE  \E k \in DOMAIN log' : Ser(k, run, "succeeded")' /\ log'[k].node = n
    <3>1. n < at \/ n = at
      BY <1>4, <2>5, Fields, PipelineRunAssumption
         DEF Report, Goto, PipelineRunAssumption
    <3>2. CASE n < at
      BY <1>4, <3>2, LogGrows DEF Report, Goto
    <3>3. CASE n = at
      <4>1. Len(log) + 1 \in DOMAIN log' /\ log'[Len(log) + 1] = rec
        BY <2>1, Appended DEF rec
      <4> QED
        BY <1>4, <2>2, <3>3, <4>1 DEF Report, Goto
    <3> QED
      BY <3>1, <3>2, <3>3
  <2> QED
    BY <1>4, <2>4, <2>5 DEF Report, Goto
<1>5. CASE ReportError
  <2>1. log' = Append(log, Record(file, "ser", at, "error", 0))
    BY <1>5 DEF ReportError, WriteSer
  <2> DEFINE rec == Record(file, "ser", at, "error", 0)
  <2>2. rec.run = run /\ rec.kind = "ser" /\ rec.status = "error"
    BY DEF Record
  <2> HIDE DEF rec
  <2>3. HasError(run)'
    BY <1>5, <2>1, <2>2, Appended DEF rec, ReportError, Goto
  <2>4. \A i \in DOMAIN log' : log'[i].run = run => log'[i].kind # "end"
    BY <1>5, <2>1, <2>2, Appended DEF rec, ReportError, RecordsOk
  <2> QED
    BY <1>5, <2>3, <2>4 DEF ReportError, Goto
<1>6. CASE EndOk
  <2>1. log' = Append(log, Record(file, "end", 0, "ok", seq + 1))
    BY <1>6 DEF EndOk, WriteLifecycle
  <2> DEFINE rec == Record(file, "end", 0, "ok", seq + 1)
  <2>2. rec.run = run /\ rec.kind = "end" /\ rec.status = "ok"
    BY DEF Record
  <2> HIDE DEF rec
  <2>3. EndsWith("ok")'
    BY <1>6, <2>1, <2>2, Appended DEF rec, EndOk, Goto
  <2>4. \A i \in DOMAIN log' : ~(log'[i].run = run /\ log'[i].kind = "ser" /\ log'[i].status = "error")
    BY <1>6, <2>1, <2>2, Appended DEF rec, EndOk, RecordsOk
  <2> QED
    BY <1>6, <2>3, <2>4 DEF EndOk, Goto
<1>7. CASE EndError
  <2>1. log' = Append(log, Record(file, "end", 0, "error", seq + 1))
    BY <1>7 DEF EndError, WriteLifecycle
  <2> DEFINE rec == Record(file, "end", 0, "error", seq + 1)
  <2>2. rec.run = run /\ rec.kind = "end" /\ rec.status = "error"
    BY DEF Record
  <2> HIDE DEF rec
  <2>3. EndsWith("error")'
    BY <1>7, <2>1, <2>2, Appended DEF rec, EndError, Goto
  <2>4. HasError(run)' = HasError(run)
    BY <2>1, <2>2, Appended, <1>7 DEF rec, EndError, Goto
  <2> QED
    BY <1>7, <2>3, <2>4 DEF EndError, Goto
<1>8. CASE Leaves
  <2>1. pc # "idle" /\ pc' = "idle" /\ run' = run
    BY <1>8 DEF Leaves, ResolveFails, StartFails, InstantiateFails, CloseFails, Escape
  <2>2. \A r \in Runs : r # run => outcome'[r] = outcome[r]
    BY <1>8 DEF Leaves, ResolveFails, StartFails, InstantiateFails, CloseFails, Escape, TypeOK
  <2> QED
    BY <2>1, <2>2, Fields
<1>9. CASE EndFails
  BY <1>9 DEF EndFails, Goto, RecordsOk
<1>10. CASE Close
  BY <1>10, Fields DEF Close, TypeOK
<1>11. CASE Process
  BY <1>11, Fields DEF Process, FilesOk
<1>12. ASSUME NEW m \in Metas, SetRunMetadata(m)
       PROVE  ProgressOk'
  BY <1>12 DEF SetRunMetadata
<1> QED
  BY <1>1, <1>2, <1>3, <1>4, <1>5, <1>6, <1>7, <1>8, <1>9, <1>10, <1>11, <1>12, ByKind
     DEF Writes

\* What CauseInTrace says of one run.
Caused(r) ==
    /\ outcome[r] \in {"node", "prepare", "publish"} =>
         \E i \in DOMAIN log : End(i, r) /\ log[i].status = "error"
    /\ outcome[r] = "node" => HasError(r)
    /\ outcome[r] \in {"ok", "prepare", "publish", "interrupted", "exit"} => ~HasError(r)
    /\ outcome[r] \in {"resolve", "start", "instantiate", "interrupted", "exit"} => ~HasEnd(r)

\* What OkMeansComplete says of one run.
Complete(r) ==
    outcome[r] = "ok" => \E i \in DOMAIN log : End(i, r) /\ log[i].status = "ok"

\* What OkMeansComplete says of one record.
Earned(i) ==
    log[i].kind = "end" /\ log[i].status = "ok" =>
      /\ \A n \in 1 .. NodeCount :
           \E k \in 1 .. (i - 1) : Ser(k, log[i].run, "succeeded") /\ log[k].node = n
      /\ ~HasError(log[i].run)

LEMMA OneByOne ==
    /\ CauseInTrace <=> \A r \in Runs : Caused(r)
    /\ OkMeansComplete <=> (\A i \in DOMAIN log : Earned(i)) /\ (\A r \in Runs : Complete(r))
  BY DEF CauseInTrace, OkMeansComplete, Caused, Complete, Earned

\* The record that says "ok" is the last one of its run.
LEMMA EarnedStep ==
    ASSUME TypeOK, RecordsOk, ProgressOk, OkMeansComplete, Next, NEW i \in DOMAIN log'
    PROVE  Earned(i)'
<1>1. ASSUME i \in DOMAIN log, log[i].kind = "end", log[i].status = "ok"
      PROVE  Earned(i)'
  <2>1. log'[i] = log[i] /\ Earned(i)
    BY <1>1, LogGrows, OneByOne
  <2>2. \A k \in 1 .. (i - 1) : k \in DOMAIN log /\ log'[k] = log[k]
    BY <1>1, LogGrows, Appended DEF TypeOK
  <2>3. \A n \in 1 .. NodeCount :
          \E k \in 1 .. (i - 1) : Ser(k, log[i].run, "succeeded")' /\ log'[k].node = n
    BY <1>1, <2>1, <2>2 DEF Earned, Ser
  <2>4. ~HasError(log[i].run)'
    <3>1. CASE log[i].run = run /\ pc # "idle"
      <4>1. pc = "close"
        BY <1>1, <3>1 DEF RecordsOk
      <4>2. log' = log
        BY <4>1 DEF Next, Running, SetRunMetadata, Process, PipelineStart, ResolveFails, StartFails,
                    InstantiateNodes, InstantiateFails, NodeReturns, NodeRaises, PrepareFails,
                    Interrupt,
                    ProcessorExits, Report, ReportFails, ReportError, ReportErrorFails, Publish,
                    PublishFails, EndOk, EndError, EndFails, CloseFails, Close
      <4> QED
        BY <1>1, <2>1, <4>2 DEF Earned, HasError, Ser
    <3>2. CASE log[i].run # run \/ pc = "idle"
      BY <1>1, <2>1, <3>2, PastStays DEF Earned
    <3> QED
      BY <3>1, <3>2
  <2> QED
    BY <2>1, <2>3, <2>4 DEF Earned
<1>2. ASSUME i \notin DOMAIN log, log'[i].kind = "end", log'[i].status = "ok"
      PROVE  Earned(i)'
  <2>1. CASE EndOk
    <3>1. /\ log' = Append(log, Record(file, "end", 0, "ok", seq + 1))
          /\ pc = "endOk" /\ run' = run
      BY <2>1 DEF EndOk, WriteLifecycle, Goto
    <3>2. i = Len(log) + 1
      BY <1>2, <3>1, Appended
    <3>3. \A k \in 1 .. (i - 1) : k \in DOMAIN log /\ log'[k] = log[k]
      BY <3>1, <3>2, Appended
    <3>4. log'[i].run = run
      BY <1>2, LogGrows
    <3>5. \A n \in 1 .. NodeCount :
            \E k \in 1 .. (i - 1) : Ser(k, run, "succeeded")' /\ log'[k].node = n
      <4>1. DOMAIN log = 1 .. (i - 1)
        BY <3>1, <3>2, Appended
      <4> QED
        BY <3>1, <3>3, <4>1 DEF ProgressOk, Done, Ser
    <3>6. \A k \in DOMAIN log' : ~Ser(k, run, "error")'
      <4>1. \A k \in DOMAIN log : ~Ser(k, run, "error")
        BY <3>1 DEF RecordsOk, Ser
      <4>2. DOMAIN log' = DOMAIN log \union {i}
        BY <3>1, <3>2, Appended
      <4> QED
        BY <1>2, <3>1, <4>1, <4>2, LogGrows DEF Ser
    <3> QED
      BY <3>1, <3>4, <3>5, <3>6 DEF Earned, HasError
  <2>2. CASE PipelineStart \/ Report \/ ReportError \/ EndError
    <3>1. PICK f, kind, node, status, n :
             /\ log' = Append(log, Record(f, kind, node, status, n))
             /\ kind # "end" \/ status # "ok"
      BY <2>2 DEF PipelineStart, Report, ReportError, EndError, WriteLifecycle, WriteSer
    <3>2. log'[i] = Record(f, kind, node, status, n)
      BY <1>2, <3>1, Appended
    <3> QED
      BY <1>2, <3>1, <3>2 DEF Record
  <2>3. CASE UNCHANGED log
    BY <1>2, <2>3
  <2> QED
    BY <2>1, <2>2, <2>3, ByKind
       DEF Writes, Quiet, NodeReturns, NodeRaises, PrepareFails, Interrupt,
           ProcessorExits, ReportFails,
           ReportErrorFails, PublishFails, Begins, InstantiateNodes, Publish, Leaves,
           ResolveFails, StartFails, InstantiateFails, CloseFails, EndFails, Close, Process,
           SetRunMetadata
<1> QED
  BY <1>1, <1>2, LogGrows DEF Earned

\* How a run ended and what is on file of it, when the step does not end it.
LEMMA EndStays ==
    ASSUME TypeOK, ProgressOk, CauseInTrace, OkMeansComplete, Next,
           NEW r \in Runs, outcome'[r] = outcome[r]
    PROVE  Caused(r)' /\ Complete(r)'
<1>1. CASE r = run /\ pc # "idle"
  BY <1>1 DEF ProgressOk, Caused, Complete
<1>2. CASE r # run \/ pc = "idle"
  BY <1>2, PastStays, OneByOne DEF Caused, Complete
<1> QED
  BY <1>1, <1>2

LEMMA EndStep ==
    ASSUME TypeOK, RecordsOk, ProgressOk, CauseInTrace, OkMeansComplete, Next
    PROVE  CauseInTrace' /\ OkMeansComplete'
<1>1. ASSUME NEW r \in Runs
      PROVE  Caused(r)' /\ Complete(r)'
  <2>1. CASE Leaves
    <3>1. /\ log' = log /\ outcome' = [outcome EXCEPT ![run] = outcome'[run]] /\ pc # "idle"
          /\ outcome'[run] \in Leaky
          /\ outcome'[run] = "driver" \/ pc # "close"
      BY <2>1 DEF Leaves, ResolveFails, StartFails, InstantiateFails, CloseFails, Escape, Leaky,
                  TypeOK
    <3>2. CASE r # run
      BY <3>1, <3>2, EndStays DEF TypeOK
    <3>3. CASE r = run
      <4>1. ~HasEnd(r)' \/ outcome'[r] = "driver"
        BY <3>1, <3>3 DEF RecordsOk, HasEnd, End
      <4> QED
        BY <3>1, <3>3, <4>1 DEF Caused, Complete, Leaky
    <3> QED
      BY <3>2, <3>3
  <2>2. CASE Close
    <3>1. log' = log /\ outcome' = [outcome EXCEPT ![run] = cause] /\ pc = "close"
      BY <2>2 DEF Close
    <3>2. CASE r # run
      BY <3>1, <3>2, EndStays DEF TypeOK
    <3>3. CASE r = run
      <4>1. outcome'[r] = cause
        BY <3>1, <3>3 DEF TypeOK
      <4>2. /\ HasError(r)' = HasError(r) /\ HasEnd(r)' = HasEnd(r)
            /\ \A i \in DOMAIN log' : End(i, r)' = End(i, r)
        BY <3>1 DEF HasError, HasEnd, Ser, End
      <4> QED
        BY <3>1, <3>3, <4>1, <4>2 DEF ProgressOk, EndsWith, Caused, Complete
    <3> QED
      BY <3>2, <3>3
  <2>3. CASE UNCHANGED outcome
    BY <2>3, EndStays
  <2> QED
    BY <2>1, <2>2, <2>3, ByKind
       DEF Writes, PipelineStart, Report, ReportError, EndOk, EndError, Goto, Quiet, NodeReturns,
           NodeRaises, PrepareFails, Interrupt,
           ProcessorExits, ReportFails, ReportErrorFails, PublishFails,
           Begins, InstantiateNodes, Publish, EndFails, Process, SetRunMetadata
<1> QED
  BY <1>1, EarnedStep, OneByOne DEF CauseInTrace, OkMeansComplete, Caused, Complete, Earned

-----------------------------------------------------------------------------
(* The metadata *)

LEMMA MetaStep ==
    ASSUME TypeOK, StagedOk, MetadataFresh, Next
    PROVE  StagedOk' /\ MetadataFresh'
<1> USE PipelineRunAssumption DEF PipelineRunAssumption, StagedOk, MetadataFresh, TypeOK
<1>1. CASE Quiet
  BY <1>1 DEF Quiet, NodeReturns, NodeRaises, PrepareFails, Interrupt, ProcessorExits, ReportFails,
              ReportErrorFails, PublishFails, Goto
<1>2. CASE Begins
  BY <1>2 DEF Begins, InstantiateNodes, Publish
<1>3. CASE Writes
  BY <1>3 DEF Writes, PipelineStart, Report, ReportError, EndOk, EndError, Goto
<1>4. CASE Leaves
  BY <1>4 DEF Leaves, ResolveFails, StartFails, InstantiateFails, CloseFails, Escape
<1>5. CASE EndFails
  BY <1>5 DEF EndFails, Goto
<1>6. CASE Close
  BY <1>6 DEF Close, Causes
<1>7. CASE Process
  BY <1>7 DEF Process
<1>8. ASSUME NEW m \in Metas, SetRunMetadata(m)
      PROVE  StagedOk' /\ MetadataFresh'
  BY <1>8 DEF SetRunMetadata
<1> QED
  BY <1>1, <1>2, <1>3, <1>4, <1>5, <1>6, <1>7, <1>8, ByKind

-----------------------------------------------------------------------------
(* The invariant *)

LEMMA InitInv == Init => IInv
<1> SUFFICES ASSUME Init
             PROVE  IInv
  OBVIOUS
<1>1. TypeOK /\ Opened
  BY PipelineRunAssumption DEF Init, TypeOK, Opened, Inside, PipelineRunAssumption
<1>2. FileKept /\ FilesOk /\ RecordsOk /\ WellFormedTrace /\ StartedOk
  BY DEF Init, FileKept, FilesOk, RecordsOk, WellFormedTrace, StartedOk, HasEnd, End
<1>3. ProgressOk /\ OkMeansComplete /\ CauseInTrace
  BY DEF Init, ProgressOk, Done, EndsWith, OkMeansComplete, CauseInTrace, HasError, HasEnd, Ser, End
<1>4. StagedOk /\ MetadataFresh
  BY PipelineRunAssumption DEF Init, StagedOk, MetadataFresh, PipelineRunAssumption
<1> QED
  BY <1>1, <1>2, <1>3, <1>4 DEF IInv

\* A step that changes nothing keeps it too.
LEMMA StutterInv == IInv /\ UNCHANGED vars => IInv'
<1> SUFFICES ASSUME IInv, UNCHANGED vars
             PROVE  IInv'
  OBVIOUS
<1>1. UNCHANGED <<pc, run, at, staged, asked, metaOf, file, seq, log, cause, outcome>>
  BY DEF vars
<1>2. TypeOK' /\ Opened' /\ FileKept' /\ FilesOk'
  BY <1>1 DEF IInv, TypeOK, Opened, FileKept, FilesOk
<1>3. RecordsOk' /\ WellFormedTrace' /\ StartedOk'
  BY <1>1 DEF IInv, RecordsOk, WellFormedTrace, StartedOk, HasStart, HasEnd, End
<1>4. ProgressOk' /\ OkMeansComplete' /\ CauseInTrace'
  BY <1>1 DEF IInv, ProgressOk, Done, EndsWith, OkMeansComplete, CauseInTrace, HasError, HasEnd,
              Ser, End
<1>5. StagedOk' /\ MetadataFresh'
  BY <1>1 DEF IInv, StagedOk, MetadataFresh
<1> QED
  BY <1>2, <1>3, <1>4, <1>5 DEF IInv

LEMMA NextInv == IInv /\ [Next]_vars => IInv'
<1>1. ASSUME IInv, Next
      PROVE  IInv'
  BY <1>1, TypeStep, FileStep, RecordStep, StartedStep, ProgressStep, EndStep, MetaStep DEF IInv
<1> QED
  BY <1>1, StutterInv

(* The types, the file, the records, the causes and the metadata hold        *)
(* together, for any number of runs and nodes: where the open file comes     *)
(* from and what the current run has written decide what the next record may *)
(* be.                                                                       *)
THEOREM RunInvariant == Spec => []IInv
  BY InitInv, NextInv, PTL DEF Spec

(* Every state a run, its driver and its caller reach is of its type.        *)
THEOREM RunTypes == Spec => []TypeOK
<1>1. IInv => TypeOK
  BY DEF IInv
<1> QED
  BY <1>1, RunInvariant, PTL

(* However often and wherever runs fail, the records of a run stand together *)
(* in order, at most one for a node and none after a failed one, and the     *)
(* driver's sequence numbers grow.                                           *)
THEOREM TraceInOrder == Spec => []WellFormedTrace
<1>1. IInv => WellFormedTrace
  BY DEF IInv
<1> QED
  BY <1>1, RunInvariant, PTL

(* A run says "ok" in the trace only after each of its nodes has its SER     *)
(* "succeeded", and it says so when its process() returned.                  *)
THEOREM OkIsEarned == Spec => []OkMeansComplete
<1>1. IInv => OkMeansComplete
  BY DEF IInv
<1> QED
  BY <1>1, RunInvariant, PTL

(* A run that raised leaves in the trace what the caller needs to know why,  *)
(* unless the driver failed.                                                 *)
THEOREM CausesAreTraced == Spec => []CauseInTrace
<1>1. IInv => CauseInTrace
  BY DEF IInv
<1> QED
  BY <1>1, RunInvariant, PTL

(* Metadata staged for one run reaches another one only after a run that     *)
(* raised, when nothing was staged since.                                    *)
THEOREM MetadataStaysFresh == Spec => []MetadataFresh
<1>1. IInv => MetadataFresh
  BY DEF IInv
<1> QED
  BY <1>1, RunInvariant, PTL

(* The records of a run are in the file of an earlier run only if no run in  *)
(* between closed the driver, and a run that reached its finally clause      *)
(* leaves no file open, unless the driver failed.                            *)
THEOREM FilesAreInherited == Spec => []FileInherited
<1>1. ASSUME IInv
      PROVE  FileInherited
  <2>1. pc = "idle" /\ run > 0 /\ file # NoFile => outcome[run] \in Leaky
    BY <1>1 DEF IInv, TypeOK, FileKept
  <2> QED
    BY <1>1, <2>1 DEF IInv, FilesOk, FileInherited, Leaky
<1> QED
  BY <1>1, RunInvariant, PTL

===============================================================================
