------------------------------- MODULE JobQueue -------------------------------
(***************************************************************************)
(* The job queue: callers of QueueSemantivaOrchestrator.enqueue and        *)
(* stop(), the thread in run_forever (the master), the threads in          *)
(* worker_loop, and the in-memory transport between them                   *)
(* (execution/job_queue/queue_orchestrator.py, worker.py and               *)
(* execution/transport/in_memory.py).                                      *)
(*                                                                         *)
(* A channel "jobs.<id>.cfg" or "jobs.<id>.status" is named by its job.    *)
(* Each gets one message in its life, so a family of channels is the       *)
(* sequence of its channels in creation order and the set of those whose   *)
(* message has not been popped. Iterating a subscription takes a snapshot  *)
(* of the channel table and pops the first message found in it: the length *)
(* of the snapshot is kept, since the table only grows at its end.         *)
(*                                                                         *)
(* Messages carry references: a job, its message, its worker and its       *)
(* caller all hold the same ContextType object, ContextOf[j].              *)
(***************************************************************************)
EXTENDS Naturals, Sequences

CONSTANTS Jobs,       \* job ids
          Workers,    \* threads in worker_loop
          Contexts,   \* ContextType objects
          ContextOf,  \* ContextOf[j]: the object enqueued (or created) for j
          Awaited,    \* jobs enqueued with return_future=True
          Impatient,  \* those whose caller may cancel() the Future
          Malformed,  \* jobs whose configuration is not a list of dicts
          NoJob       \* no job (None)

ASSUME JobQueueAssumption ==
    /\ ContextOf \in [Jobs -> Contexts]
    /\ Awaited \subseteq Jobs /\ Impatient \subseteq Awaited
    /\ Malformed \subseteq Jobs
    /\ NoJob \notin Jobs

VARIABLES
    caller,          \* caller[j]: progress of the enqueue() call for j
    future,          \* future[j]: state of the Future created for j
    answer,          \* answer[j]: job whose status message set j's result
    pending,         \* keys of pending_futures
    jobQueue,        \* the queue.Queue of the master
    running,         \* the master's running flag
    stopEvent,       \* the threading.Event shared by master and workers
    mpc,             \* where the master thread is in run_forever
    mjob,            \* job the master took off jobQueue and has to publish
    mview,           \* length of the master's snapshot of status channels, 0 without one
    cfgChannels,     \* channels jobs.*.cfg in creation order
    cfgMsg,          \* those whose message is still queued
    statusChannels,  \* channels jobs.*.status in creation order
    statusMsg,       \* those whose message is still queued
    wpc,             \* wpc[w]: where worker w is in worker_loop
    wjob,            \* wjob[w]: job whose cfg message w is handling
    wview,           \* wview[w]: length of w's snapshot of cfg channels, 0 without one
    ctxJobId,        \* ctxJobId[c]: value of key "job_id" in context c
    dropped          \* jobs a worker gave up: logged, no status message

callers  == <<caller, future, answer, pending>>
flags    == <<running, stopEvent>>
master   == <<mpc, mjob, mview>>
channels == <<cfgChannels, cfgMsg, statusChannels, statusMsg>>
workers  == <<wpc, wjob, wview, ctxJobId, dropped>>
vars     == <<callers, jobQueue, flags, master, channels, workers>>

-----------------------------------------------------------------------------
AnyFull(chs, full, view, i) ==          \* mutant: not the first one
    i \in 1 .. view /\ chs[i] \in full

(* The channel the iterator of a subscription pops from: the first one in  *)
(* its snapshot that holds a message.                                      *)
FirstFull(chs, full, view, i) ==
    /\ i \in 1 .. view
    /\ chs[i] \in full
    /\ \A k \in 1 .. (i - 1) : chs[k] \notin full

Drained(chs, full, view) == \A i \in 1 .. view : chs[i] \notin full

Init ==
    /\ caller = [j \in Jobs |-> "idle"]
    /\ future = [j \in Jobs |-> "none"]
    /\ answer = [j \in Jobs |-> NoJob]
    /\ pending = {}
    /\ jobQueue = <<>>
    /\ running = FALSE
    /\ stopEvent = FALSE
    /\ mpc = "new" /\ mjob = NoJob /\ mview = 0
    /\ cfgChannels = <<>> /\ cfgMsg = {}
    /\ statusChannels = <<>> /\ statusMsg = {}
    /\ wpc = [w \in Workers |-> "poll"]
    /\ wjob = [w \in Workers |-> NoJob]
    /\ wview = [w \in Workers |-> 0]
    /\ ctxJobId = [c \in Contexts |-> NoJob]
    /\ dropped = {}

-----------------------------------------------------------------------------
(* Callers. The Future is registered before the job becomes visible.       *)

Register(j) ==
    /\ caller[j] = "idle"
    /\ caller' = [caller EXCEPT ![j] = "registered"]
    /\ IF j \in Awaited
       THEN /\ future' = [future EXCEPT ![j] = "pending"]
            /\ pending' = pending \union {j}
       ELSE UNCHANGED <<future, pending>>
    /\ UNCHANGED <<answer, jobQueue, flags, master, channels, workers>>

Put(j) ==
    /\ caller[j] = "registered"
    /\ caller' = [caller EXCEPT ![j] = "queued"]
    /\ jobQueue' = Append(jobQueue, j)
    /\ UNCHANGED <<future, answer, pending, flags, master, channels, workers>>

\* The caller, who holds the Future once enqueue() returned, cancels it. The
\* master never marks a Future as running, so cancel() succeeds until the result is set.
Cancel(j) ==
    /\ j \in Impatient
    /\ caller[j] = "queued"
    /\ future[j] = "pending"
    /\ future' = [future EXCEPT ![j] = "cancelled"]
    /\ UNCHANGED <<caller, answer, pending, jobQueue, flags, master, channels, workers>>

Stop ==
    /\ running
    /\ running' = FALSE
    /\ UNCHANGED <<callers, jobQueue, stopEvent, master, channels, workers>>

SetStopEvent ==
    /\ ~stopEvent
    /\ stopEvent' = TRUE
    /\ UNCHANGED <<callers, jobQueue, running, master, channels, workers>>

-----------------------------------------------------------------------------
(* The master: run_forever.                                                *)

\* Entering run_forever sets running, whatever stop() did before.
MasterStart ==
    /\ mpc = "new"
    /\ mpc' = "loop"
    /\ running' = TRUE
    /\ UNCHANGED <<callers, jobQueue, stopEvent, mjob, mview, channels, workers>>

MasterLoop ==
    /\ mpc = "loop"
    /\ mpc' = IF running THEN "get" ELSE "stopped"
    /\ UNCHANGED <<callers, jobQueue, flags, mjob, mview, channels, workers>>

MasterGetLifo ==                        \* mutant: a stack for a queue
    /\ mpc = "get"
    /\ IF jobQueue = <<>>
       THEN /\ mpc' = "subscribe"
            /\ UNCHANGED <<jobQueue, mjob>>
       ELSE /\ mpc' = "publish"
            /\ mjob' = jobQueue[Len(jobQueue)]
            /\ jobQueue' = SubSeq(jobQueue, 1, Len(jobQueue) - 1)
    /\ UNCHANGED <<callers, flags, mview, channels, workers>>

MasterGetOrSkip ==                      \* mutant: Empty skips the listening phase
    /\ mpc = "get"
    /\ IF jobQueue = <<>>
       THEN /\ mpc' = "check"
            /\ UNCHANGED <<jobQueue, mjob>>
       ELSE /\ mpc' = "publish"
            /\ mjob' = Head(jobQueue)
            /\ jobQueue' = Tail(jobQueue)
    /\ UNCHANGED <<callers, flags, mview, channels, workers>>

\* job_queue.get(timeout=0.2): a job, or Empty and no publish in this round.
MasterGet ==
    /\ mpc = "get"
    /\ IF jobQueue = <<>>
       THEN /\ mpc' = "subscribe"
            /\ UNCHANGED <<jobQueue, mjob>>
       ELSE /\ mpc' = "publish"
            /\ mjob' = Head(jobQueue)
            /\ jobQueue' = Tail(jobQueue)
    /\ UNCHANGED <<callers, flags, mview, channels, workers>>

MasterPublish ==
    /\ mpc = "publish"
    /\ cfgChannels' = Append(cfgChannels, mjob)
    /\ cfgMsg' = cfgMsg \union {mjob}
    /\ mjob' = NoJob
    /\ mpc' = "subscribe"
    /\ UNCHANGED <<callers, jobQueue, flags, mview, statusChannels, statusMsg, workers>>

MasterSubscribeCfg ==                   \* mutant: the pattern of the other family
    /\ mpc = "subscribe"
    /\ mview' = Len(cfgChannels)
    /\ mpc' = "scan"
    /\ UNCHANGED <<callers, jobQueue, flags, mjob, channels, workers>>

MasterSubscribe ==
    /\ mpc = "subscribe"
    /\ mview' = Len(statusChannels)
    /\ mpc' = "scan"
    /\ UNCHANGED <<callers, jobQueue, flags, mjob, channels, workers>>

(* One status message, at most, per round. Its job is read from the        *)
(* context the message refers to, as that context is now.                  *)

Resolved(jid, s) ==
    /\ future[jid] = "pending"
    /\ future' = [future EXCEPT ![jid] = "done"]
    /\ answer' = [answer EXCEPT ![jid] = s]
    /\ pending' = pending \ {jid}
    /\ mpc' = "check"

\* set_result on a cancelled Future raises InvalidStateError, which leaves
\* run_forever: the entry stays in pending_futures and the thread ends.
Crashed(jid) ==
    /\ future[jid] = "cancelled"
    /\ mpc' = "crashed"
    /\ UNCHANGED <<future, answer, pending>>

MasterReceive ==
    /\ mpc = "scan"
    /\ \E i \in DOMAIN statusChannels :
         /\ FirstFull(statusChannels, statusMsg, mview, i)
         /\ LET s   == statusChannels[i]
                jid == ctxJobId[ContextOf[s]]
            IN  /\ statusMsg' = statusMsg \ {s}
                /\ \/ /\ jid \in pending
                      /\ Resolved(jid, s) \/ Crashed(jid)
                   \/ /\ jid \notin pending
                      /\ mpc' = "check"
                      /\ UNCHANGED <<future, answer, pending>>
    /\ mview' = 0
    /\ UNCHANGED <<caller, jobQueue, flags, mjob, cfgChannels, cfgMsg,
                   statusChannels, workers>>

MasterNothing ==
    /\ mpc = "scan"
    /\ Drained(statusChannels, statusMsg, mview)
    /\ mpc' = "check"
    /\ mview' = 0
    /\ UNCHANGED <<callers, jobQueue, flags, mjob, channels, workers>>

MasterCheckNot ==                       \* mutant: the stop event is not looked at
    /\ mpc = "check"
    /\ mpc' = "loop"
    /\ UNCHANGED <<callers, jobQueue, flags, mjob, mview, channels, workers>>

MasterCheck ==
    /\ mpc = "check"
    /\ mpc' = IF stopEvent THEN "stopped" ELSE "loop"
    /\ UNCHANGED <<callers, jobQueue, flags, mjob, mview, channels, workers>>

Master == \/ MasterStart \/ MasterLoop \/ MasterGet \/ MasterPublish
          \/ MasterSubscribe \/ MasterReceive \/ MasterNothing \/ MasterCheck

-----------------------------------------------------------------------------
(* The workers: worker_loop. The stop event is looked at between two       *)
(* subscriptions only, and a subscription is drained before it is closed.  *)

WorkerPoll(w) ==
    /\ wpc[w] = "poll"
    /\ wpc' = [wpc EXCEPT ![w] = IF stopEvent THEN "stopped" ELSE "next"]
    /\ UNCHANGED <<callers, jobQueue, flags, master, channels, wjob, wview, ctxJobId, dropped>>

\* The iterator of a new subscription starts, or goes on after a message was
\* handled: a new snapshot.
WorkerNext(w) ==
    /\ wpc[w] = "next"
    /\ wpc' = [wpc EXCEPT ![w] = "scan"]
    /\ wview' = [wview EXCEPT ![w] = Len(cfgChannels)]
    /\ UNCHANGED <<callers, jobQueue, flags, master, channels, wjob, ctxJobId, dropped>>

WorkerPeek(w) ==                        \* mutant: the message is read, not popped
    /\ wpc[w] = "scan"
    /\ \E i \in DOMAIN cfgChannels :
         /\ FirstFull(cfgChannels, cfgMsg, wview[w], i)
         /\ wjob' = [wjob EXCEPT ![w] = cfgChannels[i]]
    /\ wpc' = [wpc EXCEPT ![w] = "run"]
    /\ wview' = [wview EXCEPT ![w] = 0]
    /\ UNCHANGED <<callers, jobQueue, flags, master, channels, ctxJobId, dropped>>

WorkerTakeAnnotating(w) ==              \* mutant: job_id written before the run
    /\ wpc[w] = "scan"
    /\ \E i \in DOMAIN cfgChannels :
         /\ FirstFull(cfgChannels, cfgMsg, wview[w], i)
         /\ wjob' = [wjob EXCEPT ![w] = cfgChannels[i]]
         /\ cfgMsg' = cfgMsg \ {cfgChannels[i]}
         /\ ctxJobId' = [ctxJobId EXCEPT ![ContextOf[cfgChannels[i]]] = cfgChannels[i]]
    /\ wpc' = [wpc EXCEPT ![w] = "run"]
    /\ wview' = [wview EXCEPT ![w] = 0]
    /\ UNCHANGED <<callers, jobQueue, flags, master, cfgChannels, statusChannels,
                   statusMsg, dropped>>

WorkerTake(w) ==
    /\ wpc[w] = "scan"
    /\ \E i \in DOMAIN cfgChannels :
         /\ FirstFull(cfgChannels, cfgMsg, wview[w], i)
         /\ wjob' = [wjob EXCEPT ![w] = cfgChannels[i]]
         /\ cfgMsg' = cfgMsg \ {cfgChannels[i]}
    /\ wpc' = [wpc EXCEPT ![w] = "run"]
    /\ wview' = [wview EXCEPT ![w] = 0]
    /\ UNCHANGED <<callers, jobQueue, flags, master, cfgChannels, statusChannels,
                   statusMsg, ctxJobId, dropped>>

WorkerDrained(w) ==
    /\ wpc[w] = "scan"
    /\ Drained(cfgChannels, cfgMsg, wview[w])
    /\ wpc' = [wpc EXCEPT ![w] = "poll"]
    /\ wview' = [wview EXCEPT ![w] = 0]
    /\ UNCHANGED <<callers, jobQueue, flags, master, channels, wjob, ctxJobId, dropped>>

\* No status message is published for a job whose configuration is refused,
\* or whose pipeline cannot be built or raises: the worker logs and goes on.
WorkerGiveUp(w) ==
    /\ wpc[w] = "run"
    /\ dropped' = dropped \union {wjob[w]}
    /\ wjob' = [wjob EXCEPT ![w] = NoJob]
    /\ wpc' = [wpc EXCEPT ![w] = "next"]
    /\ UNCHANGED <<callers, jobQueue, flags, master, channels, wview, ctxJobId>>

WorkerProcessBare(w) ==                 \* mutant: job_id is not written
    /\ wpc[w] = "run"
    /\ wjob[w] \notin Malformed
    /\ wpc' = [wpc EXCEPT ![w] = "reply"]
    /\ UNCHANGED <<callers, jobQueue, flags, master, channels, wjob, wview,
                   ctxJobId, dropped>>

\* The pipeline returns and the worker writes job_id into the result context.
WorkerProcess(w) ==
    /\ wpc[w] = "run"
    /\ wjob[w] \notin Malformed
    /\ ctxJobId' = [ctxJobId EXCEPT ![ContextOf[wjob[w]]] = wjob[w]]
    /\ wpc' = [wpc EXCEPT ![w] = "reply"]
    /\ UNCHANGED <<callers, jobQueue, flags, master, channels, wjob, wview, dropped>>

WorkerReply(w) ==
    /\ wpc[w] = "reply"
    /\ statusChannels' = Append(statusChannels, wjob[w])
    /\ statusMsg' = statusMsg \union {wjob[w]}
    /\ wjob' = [wjob EXCEPT ![w] = NoJob]
    /\ wpc' = [wpc EXCEPT ![w] = "next"]
    /\ UNCHANGED <<callers, jobQueue, flags, master, cfgChannels, cfgMsg, wview,
                   ctxJobId, dropped>>

Worker(w) == \/ WorkerPoll(w) \/ WorkerNext(w) \/ WorkerTake(w) \/ WorkerDrained(w)
             \/ WorkerGiveUp(w) \/ WorkerProcess(w) \/ WorkerReply(w)

-----------------------------------------------------------------------------
Next == \/ \E j \in Jobs : Register(j) \/ Put(j) \/ Cancel(j)
        \/ Stop \/ SetStopEvent
        \/ Master
        \/ \E w \in Workers : Worker(w)

(* Every thread keeps running: the waits of the code are bounded (get has a *)
(* timeout, the worker sleeps) and a pipeline is taken to return or raise.  *)
Fairness == /\ WF_vars(Master)
            /\ \A w \in Workers : WF_vars(Worker(w))
            /\ \A j \in Jobs : WF_vars(Put(j))

Spec == Init /\ [][Next]_vars /\ Fairness
-----------------------------------------------------------------------------
(* Properties *)

InSeq(x, seq) == \E i \in DOMAIN seq : seq[i] = x

NoRepeat(seq) == \A i, k \in DOMAIN seq : seq[i] = seq[k] => i = k

Published(j) == InSeq(j, statusChannels)

\* A job's pipeline has returned and its id is in its context.
HasRun(j) == \/ Published(j)
             \/ \E w \in Workers : wjob[w] = j /\ wpc[w] = "reply"

\* No other job was enqueued with the same context object.
Private(j) == \A k \in Jobs : ContextOf[k] = ContextOf[j] => k = j

Consumed(j) == Published(j) /\ j \notin statusMsg

MasterGone == mpc \in {"stopped", "crashed"}

TypeOK ==
    /\ caller \in [Jobs -> {"idle", "registered", "queued"}]
    /\ future \in [Jobs -> {"none", "pending", "done", "cancelled"}]
    /\ answer \in [Jobs -> Jobs \union {NoJob}]
    /\ pending \in SUBSET Awaited
    /\ jobQueue \in Seq(Jobs)
    /\ running \in BOOLEAN /\ stopEvent \in BOOLEAN
    /\ mpc \in {"new", "loop", "get", "publish", "subscribe", "scan", "check",
                "stopped", "crashed"}
    /\ mjob \in Jobs \union {NoJob}
    /\ mview \in 0 .. Len(statusChannels)
    /\ cfgChannels \in Seq(Jobs) /\ cfgMsg \in SUBSET Jobs
    /\ statusChannels \in Seq(Jobs) /\ statusMsg \in SUBSET Jobs
    /\ wpc \in [Workers -> {"poll", "scan", "run", "reply", "next", "stopped"}]
    /\ wjob \in [Workers -> Jobs \union {NoJob}]
    /\ wview \in [Workers -> 0 .. Len(cfgChannels)]
    /\ ctxJobId \in [Contexts -> Jobs \union {NoJob}]
    /\ dropped \in SUBSET Jobs

(* The hand-over from the caller's queue to the master, to a cfg channel, to *)
(* a worker, to a status channel and back loses no job and copies none: an   *)
(* enqueued job is in exactly one of these hands, or it was dropped, or its  *)
(* status was consumed; and no hand-over happens twice for one job.          *)
Whereabouts(j) ==
    {p \in {"queue", "master", "cfg", "worker", "status", "dropped", "consumed"} :
        \/ p = "queue"    /\ InSeq(j, jobQueue)
        \/ p = "master"   /\ mjob = j
        \/ p = "cfg"      /\ j \in cfgMsg
        \/ p = "worker"   /\ \E w \in Workers : wjob[w] = j
        \/ p = "status"   /\ j \in statusMsg
        \/ p = "dropped"  /\ j \in dropped
        \/ p = "consumed" /\ Consumed(j)}

InOneHand ==
    /\ \A j \in Jobs : IF caller[j] = "queued"
                       THEN \E p \in Whereabouts(j) : Whereabouts(j) = {p}
                       ELSE Whereabouts(j) = {}
    /\ \A v, w \in Workers : wjob[v] = wjob[w] => v = w \/ wjob[v] = NoJob
    /\ NoRepeat(jobQueue) /\ NoRepeat(cfgChannels) /\ NoRepeat(statusChannels)

(* Workers race for cfg messages over snapshots of different ages, and still *)
(* the jobs are started in the order in which they were published.           *)
PickupIsFifo ==
    \A i, k \in DOMAIN cfgChannels :
        i < k /\ cfgChannels[i] \in cfgMsg => cfgChannels[k] \in cfgMsg

(* A future resolves only after its own job's pipeline returned, with the    *)
(* result of a job that published and holds the same context object: its own *)
(* job when nobody shares the context.                                       *)
AnswersMatch ==
    \A j \in Jobs : future[j] = "done" =>
        /\ HasRun(j)
        /\ Consumed(answer[j])
        /\ ContextOf[answer[j]] = ContextOf[j]
        /\ Private(j) => answer[j] = j

(* The master never swallows a status: once it took the message of a job     *)
(* with a context of its own, the caller's future is settled. This needs the *)
(* future registered before the job is put on the queue.                     *)
NoStatusSwallowed ==
    \A j \in Awaited :
        Private(j) /\ Consumed(j) => future[j] \in {"done", "cancelled"}

(* A job with a context of its own that was put on the queue is answered, or *)
(* dropped by a worker, or some thread it needs has gone.                    *)
Settles ==
    \A j \in Awaited : Private(j) =>
        (caller[j] = "queued" ~> \/ future[j] \in {"done", "cancelled"}
                                \/ j \in dropped
                                \/ MasterGone
                                \/ \A w \in Workers : wpc[w] = "stopped")

(* stop(), once the loop runs, ends it; the stop event ends all threads.     *)
StopsWhenAsked ==
    /\ (mpc # "new" /\ ~running) ~> MasterGone
    /\ stopEvent ~> (MasterGone /\ \A w \in Workers : wpc[w] = "stopped")

(* The whole is a JobService: jobs start in the order callers put them, once *)
(* each, and every resolution pairs one result with one future.              *)
Phase(j) == IF j \in dropped THEN "dropped"
            ELSE IF HasRun(j) THEN "finished"
            ELSE IF \E w \in Workers : wjob[w] = j THEN "running"
            ELSE IF caller[j] = "queued" THEN "waiting"
            ELSE "new"

InMaster == IF mjob = NoJob THEN <<>> ELSE <<mjob>>

Arrival == cfgChannels \o InMaster \o jobQueue

\* A caller sees its future when enqueue() has returned.
HeldFuture(j) == IF caller[j] = "queued" THEN future[j] ELSE "none"

Service == INSTANCE JobService WITH
    arrival <- Arrival,
    phase   <- [j \in Jobs |-> Phase(j)],
    future  <- [j \in Jobs |-> HeldFuture(j)],
    answer  <- answer

ImplementsService == Service!Spec

(* "resolve matching Futures" (queue_orchestrator.py, run_forever): a future *)
(* resolves with the result of its own job, whatever context it was given.   *)
ResolvesMatchingFuture == \A j \in Jobs : future[j] = "done" => answer[j] = j

(* "If True, returns a Future whose result() yields (data, context)"         *)
(* (enqueue, for a Pipeline instance, a list of dicts or a YAML path): the   *)
(* future of a job that was put on the queue gets a result while the master  *)
(* and a worker live.                                                        *)
EveryFutureAnswered ==
    \A j \in Awaited :
        caller[j] = "queued" ~> \/ future[j] \in {"done", "cancelled"}
                                \/ MasterGone
                                \/ \A w \in Workers : wpc[w] = "stopped"

(* "Repeat until stop_event is set or stop() is called" (run_forever).       *)
RunsUntilStopped == MasterGone => stopEvent \/ ~running
================================================================================
