---------------------------- MODULE JobQueueProofs ----------------------------
(***************************************************************************)
(* The safety properties of JobQueue for any jobs, workers, contexts and   *)
(* any sharing of contexts between jobs.                                   *)
(***************************************************************************)
EXTENDS JobQueue, SequenceTheorems, TLAPS

(* The inductive invariant. Each part is an invariant only together with    *)
(* the ones before it.                                                      *)

\* A program counter says whether its thread holds a job.
HandsOk ==
    /\ mpc = "publish" <=> mjob # NoJob
    /\ \A w \in Workers : wpc[w] \in {"run", "reply"} <=> wjob[w] # NoJob
    /\ \A v, w \in Workers : wjob[v] = wjob[w] => v = w \/ wjob[v] = NoJob

\* First half of a job's way: caller, job queue, master, its cfg channel.
SubmittedOk ==
    /\ NoRepeat(jobQueue) /\ NoRepeat(cfgChannels)
    /\ \A j \in Jobs :
         /\ caller[j] = "queued" <=>
              InSeq(j, jobQueue) \/ mjob = j \/ InSeq(j, cfgChannels)
         /\ InSeq(j, jobQueue) => mjob # j /\ ~InSeq(j, cfgChannels)
         /\ mjob = j => ~InSeq(j, cfgChannels)

\* Second half: from its cfg channel to a worker, and dropped or published.
StartedOk ==
    /\ NoRepeat(statusChannels)
    /\ \A j \in Jobs :
         /\ InSeq(j, cfgChannels) <=>
              \/ j \in cfgMsg \/ j \in dropped \/ Published(j)
              \/ \E w \in Workers : wjob[w] = j
         /\ j \in cfgMsg => /\ j \notin dropped /\ ~Published(j)
                            /\ \A w \in Workers : wjob[w] # j
         /\ j \in dropped => /\ ~Published(j)
                             /\ \A w \in Workers : wjob[w] # j
         /\ Published(j) => \A w \in Workers : wjob[w] # j
         /\ j \in statusMsg => Published(j)

\* pending_futures holds the futures that have no result yet.
FuturesOk ==
    \A j \in Jobs :
        /\ j \in pending <=> future[j] \in {"pending", "cancelled"}
        /\ future[j] = "cancelled" => caller[j] = "queued"
        /\ future[j] = "none" <=> j \notin Awaited \/ caller[j] = "idle"

\* A job id in a context names a job that holds the context and has run.
ContextsOk ==
    /\ \A c \in Contexts : ctxJobId[c] # NoJob =>
         ContextOf[ctxJobId[c]] = c /\ HasRun(ctxJobId[c])
    /\ \A j \in Jobs : HasRun(j) => ctxJobId[ContextOf[j]] # NoJob

AnswersOk ==
    \A j \in Jobs :
      /\ answer[j] # NoJob => future[j] = "done"
      /\ future[j] = "done" =>
        /\ HasRun(j)
        /\ answer[j] \in Jobs
        /\ Consumed(answer[j])
        /\ ContextOf[answer[j]] = ContextOf[j]

IInv == /\ TypeOK /\ HandsOk /\ SubmittedOk /\ StartedOk
        /\ PickupIsFifo /\ FuturesOk /\ ContextsOk /\ AnswersOk
        /\ NoStatusSwallowed

-----------------------------------------------------------------------------
(* What the sequence operators of the queues and channel tables do to       *)
(* membership and to the absence of repetitions.                            *)

\* Appending adds one member, at the end.
LEMMA AppendFacts ==
    ASSUME NEW S, NEW s \in Seq(S), NEW x \in S
    PROVE  /\ Append(s, x) \in Seq(S)
           /\ Len(Append(s, x)) = Len(s) + 1
           /\ DOMAIN s = 1 .. Len(s)
           /\ DOMAIN Append(s, x) = 1 .. (Len(s) + 1)
           /\ \A i \in 1 .. Len(s) : Append(s, x)[i] = s[i]
           /\ Append(s, x)[Len(s) + 1] = x
  OBVIOUS

LEMMA AppendMembers ==
    ASSUME NEW S, NEW s \in Seq(S), NEW x \in S
    PROVE  /\ \A y : InSeq(y, Append(s, x)) <=> InSeq(y, s) \/ y = x
           /\ NoRepeat(s) /\ ~InSeq(x, s) => NoRepeat(Append(s, x))
<1>1. Len(s) \in Nat
  OBVIOUS
<1>2. ASSUME NEW y PROVE InSeq(y, Append(s, x)) <=> InSeq(y, s) \/ y = x
  BY <1>1, AppendFacts DEF InSeq
<1>3. ASSUME NoRepeat(s), ~InSeq(x, s) PROVE NoRepeat(Append(s, x))
  BY <1>1, <1>3, AppendFacts DEF NoRepeat, InSeq
<1> QED
  BY <1>2, <1>3

\* Taking the head removes one member, the only occurrence of it.
LEMMA TailFacts ==
    ASSUME NEW S, NEW s \in Seq(S), s # <<>>
    PROVE  /\ Head(s) \in S /\ Tail(s) \in Seq(S)
           /\ Head(s) = s[1]
           /\ Len(s) \in Nat \ {0}
           /\ DOMAIN s = 1 .. Len(s)
           /\ DOMAIN Tail(s) = 1 .. (Len(s) - 1)
           /\ \A i \in 1 .. (Len(s) - 1) : Tail(s)[i] = s[i + 1]
  OBVIOUS

LEMMA TailMembers ==
    ASSUME NEW S, NEW s \in Seq(S), s # <<>>
    PROVE  /\ \A y : InSeq(y, s) <=> y = Head(s) \/ InSeq(y, Tail(s))
           /\ NoRepeat(s) => NoRepeat(Tail(s)) /\ ~InSeq(Head(s), Tail(s))
<1>1. ASSUME NEW y, InSeq(y, s) PROVE y = Head(s) \/ InSeq(y, Tail(s))
  <2>1. PICK i \in 1 .. Len(s) : s[i] = y
    BY <1>1, TailFacts DEF InSeq
  <2>2. CASE i = 1
    BY <2>1, <2>2, TailFacts
  <2>3. CASE i # 1
    <3>1. i - 1 \in 1 .. (Len(s) - 1)
      BY <2>3, TailFacts
    <3>2. Tail(s)[i - 1] = y
      BY <2>1, <3>1, TailFacts
    <3> QED
      BY <3>1, <3>2, TailFacts DEF InSeq
  <2> QED
    BY <2>2, <2>3
<1>2. ASSUME NEW y, y = Head(s) \/ InSeq(y, Tail(s)) PROVE InSeq(y, s)
  BY <1>2, TailFacts DEF InSeq
<1>3. ASSUME NoRepeat(s) PROVE NoRepeat(Tail(s)) /\ ~InSeq(Head(s), Tail(s))
  BY <1>3, TailFacts DEF NoRepeat, InSeq
<1> QED
  BY <1>1, <1>2, <1>3

-----------------------------------------------------------------------------
(* Type correctness: every variable keeps its type, for every value of the  *)
(* constants. The snapshot lengths need the channel tables to grow only.    *)
LEMMA TypeStep == TypeOK /\ HandsOk /\ [Next]_vars => TypeOK'
<1> SUFFICES ASSUME TypeOK, HandsOk, [Next]_vars PROVE TypeOK'
  OBVIOUS
<1> USE JobQueueAssumption DEF TypeOK, callers, flags, master, channels, workers
<1>1. ASSUME NEW j \in Jobs, Register(j) PROVE TypeOK'
  BY <1>1 DEF Register
<1>2. ASSUME NEW j \in Jobs, Put(j) PROVE TypeOK'
  BY <1>2 DEF Put
<1>3. ASSUME NEW j \in Jobs, Cancel(j) PROVE TypeOK'
  BY <1>3 DEF Cancel
<1>4. CASE Stop
  BY <1>4 DEF Stop
<1>5. CASE SetStopEvent
  BY <1>5 DEF SetStopEvent
<1>6. CASE MasterStart
  BY <1>6 DEF MasterStart
<1>7. CASE MasterLoop
  BY <1>7 DEF MasterLoop
<1>8. CASE MasterGet
  <2>1. CASE jobQueue = <<>>
    BY <1>8, <2>1 DEF MasterGet
  <2>2. CASE jobQueue # <<>>
    <3>1. Head(jobQueue) \in Jobs /\ Tail(jobQueue) \in Seq(Jobs)
      BY <2>2, TailFacts
    <3> QED
      BY <1>8, <2>2, <3>1 DEF MasterGet
  <2> QED
    BY <2>1, <2>2
<1>9. CASE MasterPublish
  <2>1. mjob \in Jobs
    BY <1>9 DEF MasterPublish, HandsOk
  <2>2. Append(cfgChannels, mjob) \in Seq(Jobs) /\ Len(Append(cfgChannels, mjob)) = Len(cfgChannels) + 1
    BY <2>1, AppendFacts
  <2> QED
    BY <1>9, <2>1, <2>2 DEF MasterPublish
<1>10. CASE MasterSubscribe
  BY <1>10 DEF MasterSubscribe
<1>11. CASE MasterReceive
  <2>1. PICK i \in DOMAIN statusChannels :
          /\ statusMsg' = statusMsg \ {statusChannels[i]}
          /\ \/ \E jid \in pending : Resolved(jid, statusChannels[i]) \/ Crashed(jid)
             \/ mpc' = "check" /\ UNCHANGED <<future, answer, pending>>
    BY <1>11 DEF MasterReceive
  <2>2. statusChannels[i] \in Jobs /\ pending \subseteq Jobs
    OBVIOUS
  <2>3. /\ mpc' \in {"check", "crashed"}
        /\ future' \in [Jobs -> {"none", "pending", "done", "cancelled"}]
        /\ answer' \in [Jobs -> Jobs \union {NoJob}]
        /\ pending' \in SUBSET Awaited
    <3>1. CASE mpc' = "check" /\ UNCHANGED <<future, answer, pending>>
      BY <3>1
    <3>2. ASSUME NEW jid \in pending, Resolved(jid, statusChannels[i])
          PROVE  /\ mpc' = "check"
                 /\ future' \in [Jobs -> {"none", "pending", "done", "cancelled"}]
                 /\ answer' \in [Jobs -> Jobs \union {NoJob}]
                 /\ pending' \in SUBSET Awaited
      BY <2>2, <3>2 DEF Resolved
    <3>3. ASSUME NEW jid \in pending, Crashed(jid)
          PROVE  mpc' = "crashed" /\ UNCHANGED <<future, answer, pending>>
      BY <3>3 DEF Crashed
    <3> QED
      BY <2>1, <3>1, <3>2, <3>3
  <2> QED
    BY <1>11, <2>1, <2>2, <2>3 DEF MasterReceive
<1>12. CASE MasterNothing
  BY <1>12 DEF MasterNothing
<1>13. CASE MasterCheck
  BY <1>13 DEF MasterCheck
<1>14. ASSUME NEW w \in Workers, WorkerPoll(w) PROVE TypeOK'
  BY <1>14 DEF WorkerPoll
<1>15. ASSUME NEW w \in Workers, WorkerNext(w) PROVE TypeOK'
  BY <1>15 DEF WorkerNext
<1>16. ASSUME NEW w \in Workers, WorkerTake(w) PROVE TypeOK'
  BY <1>16 DEF WorkerTake
<1>17. ASSUME NEW w \in Workers, WorkerDrained(w) PROVE TypeOK'
  BY <1>17 DEF WorkerDrained
<1>18. ASSUME NEW w \in Workers, WorkerGiveUp(w) PROVE TypeOK'
  BY <1>18 DEF WorkerGiveUp, HandsOk
<1>19. ASSUME NEW w \in Workers, WorkerProcess(w) PROVE TypeOK'
  BY <1>19 DEF WorkerProcess, HandsOk
<1>20. ASSUME NEW w \in Workers, WorkerReply(w) PROVE TypeOK'
  <2>1. wjob[w] \in Jobs
    BY <1>20 DEF WorkerReply, HandsOk
  <2>2. /\ Append(statusChannels, wjob[w]) \in Seq(Jobs)
        /\ Len(Append(statusChannels, wjob[w])) = Len(statusChannels) + 1
    BY <2>1, AppendFacts
  <2> QED
    BY <1>20, <2>1, <2>2 DEF WorkerReply
<1>21. CASE UNCHANGED vars
  BY <1>21 DEF vars
<1> QED
  BY <1>1, <1>2, <1>3, <1>4, <1>5, <1>6, <1>7, <1>8, <1>9, <1>10, <1>11, <1>12, <1>13,
     <1>14, <1>15, <1>16, <1>17, <1>18, <1>19, <1>20, <1>21 DEF Next, Master, Worker


-----------------------------------------------------------------------------
(* The step lemma: each action keeps the inductive invariant. Under each    *)
(* action, one step per part of the invariant that mentions a variable the  *)
(* action changes.                                                          *)
LEMMA InvStep == IInv /\ [Next]_vars => IInv'
<1> SUFFICES ASSUME IInv, [Next]_vars PROVE IInv'
  OBVIOUS
<1>0. TypeOK'
  BY TypeStep DEF IInv
<1> USE JobQueueAssumption DEF callers, flags, master, channels, workers
<1>1. ASSUME NEW j \in Jobs, Register(j) PROVE IInv'
  <2>1. SubmittedOk'
    BY <1>1 DEF IInv, TypeOK, HandsOk, Register, SubmittedOk
  <2>2. FuturesOk'
    BY <1>1 DEF IInv, TypeOK, HandsOk, Register, FuturesOk
  <2>3. AnswersOk'
    <3>1. future[j] = "none"
      BY <1>1 DEF IInv, FuturesOk, Register
    <3>2. /\ \A k \in Jobs : k # j => future'[k] = future[k]
          /\ future'[j] # "done" /\ answer' = answer
          /\ UNCHANGED <<statusChannels, statusMsg, wjob, wpc>>
      BY <1>1, <3>1 DEF IInv, TypeOK, Register
    <3> QED
      BY <3>1, <3>2 DEF IInv, AnswersOk, HasRun, Consumed, Published
  <2>4. NoStatusSwallowed'
    <3>1. ASSUME NEW k \in Awaited, Consumed(k) PROVE k # j
      BY <1>1, <3>1 DEF IInv, TypeOK, Register, SubmittedOk, StartedOk, Consumed
    <3>2. \A k \in Jobs : Consumed(k)' <=> Consumed(k)
      BY <1>1 DEF Register, Consumed, Published
    <3>3. \A k \in Jobs \ {j} : future'[k] = future[k]
      BY <1>1 DEF IInv, TypeOK, Register
    <3> QED
      BY <3>1, <3>2, <3>3 DEF IInv, NoStatusSwallowed, Private
  <2>5. HandsOk' /\ StartedOk' /\ PickupIsFifo' /\ ContextsOk'
    BY <1>1 DEF IInv, Register, HandsOk, StartedOk, Published, PickupIsFifo, ContextsOk, HasRun
  <2> QED
    BY <1>0, <2>1, <2>2, <2>3, <2>4, <2>5 DEF IInv
<1>2. ASSUME NEW j \in Jobs, Put(j) PROVE IInv'
  <2>1. SubmittedOk'
    <3>1. ~InSeq(j, jobQueue) /\ mjob # j /\ ~InSeq(j, cfgChannels)
      BY <1>2 DEF IInv, Put, SubmittedOk
    <3>2. /\ \A k : InSeq(k, jobQueue') <=> InSeq(k, jobQueue) \/ k = j
          /\ NoRepeat(jobQueue')
      BY <1>2, <3>1, AppendMembers DEF IInv, TypeOK, Put, SubmittedOk
    <3>3. \A k \in Jobs : caller'[k] = IF k = j THEN "queued" ELSE caller[k]
      BY <1>2 DEF IInv, TypeOK, Put
    <3>4. mjob' = mjob /\ cfgChannels' = cfgChannels
      BY <1>2 DEF Put
    <3> QED
      BY <3>1, <3>2, <3>3, <3>4 DEF IInv, SubmittedOk
  <2>2. FuturesOk'
    BY <1>2 DEF IInv, TypeOK, HandsOk, Put, FuturesOk
  <2>3. HandsOk' /\ StartedOk' /\ PickupIsFifo' /\ ContextsOk' /\ AnswersOk' /\ NoStatusSwallowed'
    BY <1>2 DEF IInv, Put, HandsOk, StartedOk, Published, PickupIsFifo, ContextsOk, HasRun, AnswersOk, Consumed, NoStatusSwallowed, Private
  <2> QED
    BY <1>0, <2>1, <2>2, <2>3 DEF IInv
<1>3. ASSUME NEW j \in Jobs, Cancel(j) PROVE IInv'
  <2>1. FuturesOk'
    BY <1>3 DEF IInv, TypeOK, HandsOk, Cancel, FuturesOk
  <2>2. AnswersOk'
    BY <1>3 DEF IInv, TypeOK, HandsOk, Cancel, AnswersOk, HasRun, Consumed, Published
  <2>3. NoStatusSwallowed'
    BY <1>3 DEF IInv, TypeOK, HandsOk, Cancel, NoStatusSwallowed, Consumed, Published, Private
  <2>4. HandsOk' /\ SubmittedOk' /\ StartedOk' /\ PickupIsFifo' /\ ContextsOk'
    BY <1>3 DEF IInv, Cancel, HandsOk, SubmittedOk, StartedOk, Published, PickupIsFifo, ContextsOk, HasRun
  <2> QED
    BY <1>0, <2>1, <2>2, <2>3, <2>4 DEF IInv
<1>4. CASE Stop
  <2>1. HandsOk' /\ SubmittedOk' /\ StartedOk' /\ PickupIsFifo' /\ FuturesOk' /\ ContextsOk' /\ AnswersOk' /\ NoStatusSwallowed'
    BY <1>4 DEF IInv, Stop, HandsOk, SubmittedOk, StartedOk, Published, PickupIsFifo, FuturesOk, ContextsOk, HasRun, AnswersOk, Consumed, NoStatusSwallowed, Private
  <2> QED
    BY <1>0, <2>1 DEF IInv
<1>5. CASE SetStopEvent
  <2>1. HandsOk' /\ SubmittedOk' /\ StartedOk' /\ PickupIsFifo' /\ FuturesOk' /\ ContextsOk' /\ AnswersOk' /\ NoStatusSwallowed'
    BY <1>5 DEF IInv, SetStopEvent, HandsOk, SubmittedOk, StartedOk, Published, PickupIsFifo, FuturesOk, ContextsOk, HasRun, AnswersOk, Consumed, NoStatusSwallowed, Private
  <2> QED
    BY <1>0, <2>1 DEF IInv
<1>6. CASE MasterStart
  <2>1. HandsOk'
    BY <1>6 DEF IInv, TypeOK, MasterStart, HandsOk
  <2>2. SubmittedOk' /\ StartedOk' /\ PickupIsFifo' /\ FuturesOk' /\ ContextsOk' /\ AnswersOk' /\ NoStatusSwallowed'
    BY <1>6 DEF IInv, MasterStart, SubmittedOk, StartedOk, Published, PickupIsFifo, FuturesOk, ContextsOk, HasRun, AnswersOk, Consumed, NoStatusSwallowed, Private
  <2> QED
    BY <1>0, <2>1, <2>2 DEF IInv
<1>7. CASE MasterLoop
  <2>1. HandsOk'
    BY <1>7 DEF IInv, TypeOK, MasterLoop, HandsOk
  <2>2. SubmittedOk' /\ StartedOk' /\ PickupIsFifo' /\ FuturesOk' /\ ContextsOk' /\ AnswersOk' /\ NoStatusSwallowed'
    BY <1>7 DEF IInv, MasterLoop, SubmittedOk, StartedOk, Published, PickupIsFifo, FuturesOk, ContextsOk, HasRun, AnswersOk, Consumed, NoStatusSwallowed, Private
  <2> QED
    BY <1>0, <2>1, <2>2 DEF IInv
<1>8. CASE MasterGet
  <2>1. HandsOk'
    BY <1>8 DEF IInv, TypeOK, MasterGet, HandsOk
  <2>2. SubmittedOk'
    <3>1. CASE jobQueue = <<>>
      BY <1>8, <3>1 DEF IInv, MasterGet, SubmittedOk
    <3>2. CASE jobQueue # <<>>
      <4>1. /\ Head(jobQueue) \in Jobs
            /\ \A k : InSeq(k, jobQueue) <=> k = Head(jobQueue) \/ InSeq(k, Tail(jobQueue))
            /\ NoRepeat(Tail(jobQueue)) /\ ~InSeq(Head(jobQueue), Tail(jobQueue))
        BY <3>2, TailFacts, TailMembers DEF IInv, TypeOK, SubmittedOk
      <4>2. mjob = NoJob
        BY <1>8 DEF IInv, HandsOk, MasterGet
      <4>3. /\ mjob' = Head(jobQueue) /\ jobQueue' = Tail(jobQueue)
            /\ caller' = caller /\ cfgChannels' = cfgChannels
        BY <1>8, <3>2 DEF MasterGet
      <4> QED
        BY <4>1, <4>2, <4>3 DEF IInv, SubmittedOk
    <3> QED
      BY <3>1, <3>2
  <2>3. StartedOk' /\ PickupIsFifo' /\ FuturesOk' /\ ContextsOk' /\ AnswersOk' /\ NoStatusSwallowed'
    BY <1>8 DEF IInv, MasterGet, StartedOk, Published, PickupIsFifo, FuturesOk, ContextsOk, HasRun, AnswersOk, Consumed, NoStatusSwallowed, Private
  <2> QED
    BY <1>0, <2>1, <2>2, <2>3 DEF IInv
<1>9. CASE MasterPublish
  <2>1. HandsOk'
    BY <1>9 DEF IInv, TypeOK, MasterPublish, HandsOk
  <2>a. /\ mjob \in Jobs /\ mjob' = NoJob
        /\ ~InSeq(mjob, cfgChannels) /\ ~InSeq(mjob, jobQueue)
        /\ cfgMsg' = cfgMsg \union {mjob}
        /\ UNCHANGED <<caller, jobQueue, statusChannels, statusMsg, dropped, wjob>>
    BY <1>9 DEF IInv, TypeOK, HandsOk, SubmittedOk, MasterPublish
  <2>b. /\ \A k : InSeq(k, cfgChannels') <=> InSeq(k, cfgChannels) \/ k = mjob
        /\ NoRepeat(cfgChannels')
    BY <1>9, <2>a, AppendMembers DEF IInv, TypeOK, SubmittedOk, MasterPublish
  <2>2. SubmittedOk'
    BY <2>a, <2>b DEF IInv, SubmittedOk
  <2>3. StartedOk'
    BY <2>a, <2>b DEF IInv, StartedOk, Published
  <2>4. PickupIsFifo'
    <3>1. /\ Len(cfgChannels) \in Nat
          /\ DOMAIN cfgChannels = 1 .. Len(cfgChannels)
          /\ DOMAIN cfgChannels' = 1 .. (Len(cfgChannels) + 1)
          /\ \A i \in 1 .. Len(cfgChannels) : cfgChannels'[i] = cfgChannels[i]
          /\ cfgChannels'[Len(cfgChannels) + 1] = mjob
      BY <1>9, <2>a, AppendFacts DEF IInv, TypeOK, MasterPublish
    <3>2. \A i \in 1 .. Len(cfgChannels) : cfgChannels[i] # mjob
      BY <2>a, <3>1 DEF InSeq
    <3> QED
      BY <2>a, <3>1, <3>2 DEF IInv, PickupIsFifo
  <2>5. FuturesOk' /\ ContextsOk' /\ AnswersOk' /\ NoStatusSwallowed'
    BY <1>9 DEF IInv, MasterPublish, FuturesOk, ContextsOk, HasRun, Published, AnswersOk, Consumed, NoStatusSwallowed, Private
  <2> QED
    BY <1>0, <2>1, <2>2, <2>3, <2>4, <2>5 DEF IInv
<1>10. CASE MasterSubscribe
  <2>1. HandsOk'
    BY <1>10 DEF IInv, TypeOK, MasterSubscribe, HandsOk
  <2>2. SubmittedOk' /\ StartedOk' /\ PickupIsFifo' /\ FuturesOk' /\ ContextsOk' /\ AnswersOk' /\ NoStatusSwallowed'
    BY <1>10 DEF IInv, MasterSubscribe, SubmittedOk, StartedOk, Published, PickupIsFifo, FuturesOk, ContextsOk, HasRun, AnswersOk, Consumed, NoStatusSwallowed, Private
  <2> QED
    BY <1>0, <2>1, <2>2 DEF IInv
<1>11. CASE MasterReceive
  <2>a. PICK i \in DOMAIN statusChannels :
          /\ statusChannels[i] \in statusMsg
          /\ statusMsg' = statusMsg \ {statusChannels[i]}
          /\ LET jid == ctxJobId[ContextOf[statusChannels[i]]]
             IN  \/ jid \in pending /\ Resolved(jid, statusChannels[i])
                 \/ jid \in pending /\ Crashed(jid)
                 \/ jid \notin pending /\ mpc' = "check" /\ UNCHANGED <<future, answer, pending>>
    BY <1>11 DEF MasterReceive, FirstFull
  <2> DEFINE s == statusChannels[i]
             jid == ctxJobId[ContextOf[s]]
  <2>b. /\ mpc = "scan" /\ mpc' \in {"check", "crashed"}
        /\ UNCHANGED <<caller, jobQueue, mjob, cfgChannels, cfgMsg, statusChannels, workers>>
    BY <1>11, <2>a DEF MasterReceive, Resolved, Crashed
  <2>c. /\ s \in Jobs /\ Published(s) /\ HasRun(s)
        /\ s \in statusMsg /\ statusMsg' = statusMsg \ {s}
    BY <2>a DEF IInv, TypeOK, Published, HasRun, InSeq
  <2>d. /\ jid \in Jobs /\ HasRun(jid) /\ ContextOf[jid] = ContextOf[s]
    BY <2>c DEF IInv, TypeOK, ContextsOk
  <2>e. \A k \in Jobs : /\ HasRun(k)' <=> HasRun(k)
                        /\ Published(k)' <=> Published(k)
                        /\ Consumed(k)' <=> Consumed(k) \/ k = s
    BY <2>b, <2>c DEF HasRun, Published, Consumed
  <2> HIDE DEF s, jid
  <2>f. \/ /\ jid \in pending /\ future[jid] = "pending"
           /\ future' = [future EXCEPT ![jid] = "done"]
           /\ answer' = [answer EXCEPT ![jid] = s]
           /\ pending' = pending \ {jid}
        \/ /\ jid \in pending /\ future[jid] = "cancelled"
           /\ UNCHANGED <<future, answer, pending>>
        \/ jid \notin pending /\ UNCHANGED <<future, answer, pending>>
    BY <2>a DEF Resolved, Crashed, s, jid
  <2>1. HandsOk'
    BY <2>b DEF IInv, HandsOk
  <2>2. StartedOk'
    BY <2>b, <2>c DEF IInv, StartedOk, Published
  <2>3. FuturesOk'
    BY <2>b, <2>d, <2>f DEF IInv, TypeOK, FuturesOk
  <2>4. AnswersOk'
    <3>1. CASE future' = future /\ answer' = answer
      BY <2>e, <3>1 DEF IInv, TypeOK, AnswersOk
    <3>2. CASE /\ future' = [future EXCEPT ![jid] = "done"]
               /\ answer' = [answer EXCEPT ![jid] = s]
      BY <2>c, <2>d, <2>e, <3>2 DEF IInv, TypeOK, AnswersOk
    <3> QED
      BY <2>f, <3>1, <3>2
  <2>5. NoStatusSwallowed'
    <3> SUFFICES ASSUME NEW k \in Awaited, Private(k), Consumed(k)'
                 PROVE  future'[k] \in {"done", "cancelled"}
      BY DEF NoStatusSwallowed, Private
    <3>0. k \in Jobs
      OBVIOUS
    <3>1. CASE Consumed(k)
      <4>1. future[k] \in {"done", "cancelled"}
        BY <3>1 DEF IInv, NoStatusSwallowed
      <4> QED
        BY <2>d, <2>f, <3>0, <4>1 DEF IInv, TypeOK
    <3>2. CASE k = s
      <4>1. jid = k
        BY <2>d, <3>2 DEF Private
      <4>2. caller[k] = "queued"
        BY <2>c, <3>2 DEF IInv, StartedOk, SubmittedOk
      <4>3. future[k] # "none"
        BY <3>0, <4>2 DEF IInv, FuturesOk
      <4>4. CASE k \in pending
        BY <2>f, <3>0, <4>1, <4>4 DEF IInv, TypeOK
      <4>5. CASE k \notin pending
        BY <2>f, <3>0, <4>1, <4>3, <4>5 DEF IInv, TypeOK, FuturesOk
      <4> QED
        BY <4>4, <4>5
    <3> QED
      BY <2>e, <3>0, <3>1, <3>2
  <2>6. SubmittedOk' /\ PickupIsFifo' /\ ContextsOk'
    BY <2>b DEF IInv, SubmittedOk, PickupIsFifo, ContextsOk, HasRun, Published
  <2> QED
    BY <1>0, <2>1, <2>2, <2>3, <2>4, <2>5, <2>6 DEF IInv
<1>12. CASE MasterNothing
  <2>1. HandsOk'
    BY <1>12 DEF IInv, TypeOK, MasterNothing, HandsOk
  <2>2. SubmittedOk' /\ StartedOk' /\ PickupIsFifo' /\ FuturesOk' /\ ContextsOk' /\ AnswersOk' /\ NoStatusSwallowed'
    BY <1>12 DEF IInv, MasterNothing, SubmittedOk, StartedOk, Published, PickupIsFifo, FuturesOk, ContextsOk, HasRun, AnswersOk, Consumed, NoStatusSwallowed, Private
  <2> QED
    BY <1>0, <2>1, <2>2 DEF IInv
<1>13. CASE MasterCheck
  <2>1. HandsOk'
    BY <1>13 DEF IInv, TypeOK, MasterCheck, HandsOk
  <2>2. SubmittedOk' /\ StartedOk' /\ PickupIsFifo' /\ FuturesOk' /\ ContextsOk' /\ AnswersOk' /\ NoStatusSwallowed'
    BY <1>13 DEF IInv, MasterCheck, SubmittedOk, StartedOk, Published, PickupIsFifo, FuturesOk, ContextsOk, HasRun, AnswersOk, Consumed, NoStatusSwallowed, Private
  <2> QED
    BY <1>0, <2>1, <2>2 DEF IInv
<1>14. ASSUME NEW w \in Workers, WorkerPoll(w) PROVE IInv'
  <2>1. HandsOk'
    BY <1>14 DEF IInv, TypeOK, WorkerPoll, HandsOk
  <2>2. ContextsOk'
    BY <1>14 DEF IInv, TypeOK, HandsOk, WorkerPoll, ContextsOk, HasRun, Published
  <2>3. AnswersOk'
    BY <1>14 DEF IInv, TypeOK, HandsOk, WorkerPoll, AnswersOk, HasRun, Consumed, Published
  <2>4. SubmittedOk' /\ StartedOk' /\ PickupIsFifo' /\ FuturesOk' /\ NoStatusSwallowed'
    BY <1>14 DEF IInv, WorkerPoll, SubmittedOk, StartedOk, Published, PickupIsFifo, FuturesOk, NoStatusSwallowed, Consumed, Private
  <2> QED
    BY <1>0, <2>1, <2>2, <2>3, <2>4 DEF IInv
<1>15. ASSUME NEW w \in Workers, WorkerNext(w) PROVE IInv'
  <2>1. HandsOk'
    BY <1>15 DEF IInv, TypeOK, WorkerNext, HandsOk
  <2>2. ContextsOk'
    BY <1>15 DEF IInv, TypeOK, HandsOk, WorkerNext, ContextsOk, HasRun, Published
  <2>3. AnswersOk'
    BY <1>15 DEF IInv, TypeOK, HandsOk, WorkerNext, AnswersOk, HasRun, Consumed, Published
  <2>4. SubmittedOk' /\ StartedOk' /\ PickupIsFifo' /\ FuturesOk' /\ NoStatusSwallowed'
    BY <1>15 DEF IInv, WorkerNext, SubmittedOk, StartedOk, Published, PickupIsFifo, FuturesOk, NoStatusSwallowed, Consumed, Private
  <2> QED
    BY <1>0, <2>1, <2>2, <2>3, <2>4 DEF IInv
<1>16. ASSUME NEW w \in Workers, WorkerTake(w) PROVE IInv'
  <2>a. PICK i \in DOMAIN cfgChannels :
          /\ i \in 1 .. wview[w]
          /\ cfgChannels[i] \in cfgMsg
          /\ \A k \in 1 .. (i - 1) : cfgChannels[k] \notin cfgMsg
          /\ wjob' = [wjob EXCEPT ![w] = cfgChannels[i]]
          /\ cfgMsg' = cfgMsg \ {cfgChannels[i]}
    BY <1>16 DEF WorkerTake, FirstFull
  <2>b. /\ cfgChannels[i] \in Jobs /\ cfgChannels[i] # NoJob
        /\ wjob[w] = NoJob
        /\ \A v \in Workers : wjob[v] # cfgChannels[i]
        /\ wpc' = [wpc EXCEPT ![w] = "run"]
        /\ mpc' = mpc /\ mjob' = mjob
        /\ UNCHANGED <<cfgChannels, statusChannels, statusMsg, dropped>>
    <3>1. cfgChannels[i] \in Jobs
      BY <2>a DEF IInv, TypeOK
    <3>2. wjob[w] = NoJob
      BY <1>16 DEF IInv, HandsOk, WorkerTake
    <3>3. \A v \in Workers : wjob[v] # cfgChannels[i]
      BY <2>a, <3>1 DEF IInv, StartedOk
    <3>4. /\ wpc' = [wpc EXCEPT ![w] = "run"]
          /\ mpc' = mpc /\ mjob' = mjob
          /\ UNCHANGED <<cfgChannels, statusChannels, statusMsg, dropped>>
      BY <1>16 DEF WorkerTake
    <3> QED
      BY <3>1, <3>2, <3>3, <3>4
  <2>1. HandsOk'
    BY <2>a, <2>b DEF IInv, TypeOK, HandsOk
  <2>2. StartedOk'
    <3>1. \A v \in Workers : wjob'[v] = IF v = w THEN cfgChannels[i] ELSE wjob[v]
      BY <2>a DEF IInv, TypeOK
    <3>2. \A j \in Jobs : (\E v \in Workers : wjob'[v] = j) <=>
                           j = cfgChannels[i] \/ \E v \in Workers : wjob[v] = j
      BY <2>b, <3>1
    <3> QED
      BY <2>a, <2>b, <3>1, <3>2 DEF IInv, StartedOk, Published
  <2>3. PickupIsFifo'
    <3>1. DOMAIN cfgChannels = 1 .. Len(cfgChannels) /\ Len(cfgChannels) \in Nat
      BY DEF IInv, TypeOK
    <3>2. ASSUME NEW k \in DOMAIN cfgChannels, NEW m \in DOMAIN cfgChannels,
                 k < m, cfgChannels[k] \in cfgMsg \ {cfgChannels[i]}
          PROVE  cfgChannels[m] \in cfgMsg \ {cfgChannels[i]}
      <4>1. cfgChannels[m] \in cfgMsg
        BY <3>2 DEF IInv, PickupIsFifo
      <4>2. ~(k < i)
        BY <2>a, <3>1, <3>2
      <4>3. m # i
        BY <3>1, <3>2, <4>2
      <4> QED
        BY <4>1, <4>3 DEF IInv, SubmittedOk, NoRepeat
    <3> QED
      BY <2>a, <2>b, <3>2 DEF PickupIsFifo
  <2>4. ContextsOk'
    BY <1>16 DEF IInv, TypeOK, HandsOk, WorkerTake, ContextsOk, HasRun, Published
  <2>5. AnswersOk'
    BY <1>16 DEF IInv, TypeOK, HandsOk, WorkerTake, AnswersOk, HasRun, Consumed, Published
  <2>6. SubmittedOk' /\ FuturesOk' /\ NoStatusSwallowed'
    BY <1>16 DEF IInv, WorkerTake, SubmittedOk, FuturesOk, NoStatusSwallowed, Consumed, Published, Private
  <2> QED
    BY <1>0, <2>1, <2>2, <2>3, <2>4, <2>5, <2>6 DEF IInv
<1>17. ASSUME NEW w \in Workers, WorkerDrained(w) PROVE IInv'
  <2>1. HandsOk'
    BY <1>17 DEF IInv, TypeOK, WorkerDrained, HandsOk
  <2>2. ContextsOk'
    BY <1>17 DEF IInv, TypeOK, HandsOk, WorkerDrained, ContextsOk, HasRun, Published
  <2>3. AnswersOk'
    BY <1>17 DEF IInv, TypeOK, HandsOk, WorkerDrained, AnswersOk, HasRun, Consumed, Published
  <2>4. SubmittedOk' /\ StartedOk' /\ PickupIsFifo' /\ FuturesOk' /\ NoStatusSwallowed'
    BY <1>17 DEF IInv, WorkerDrained, SubmittedOk, StartedOk, Published, PickupIsFifo, FuturesOk, NoStatusSwallowed, Consumed, Private
  <2> QED
    BY <1>0, <2>1, <2>2, <2>3, <2>4 DEF IInv
<1>18. ASSUME NEW w \in Workers, WorkerGiveUp(w) PROVE IInv'
  <2>1. HandsOk'
    BY <1>18 DEF IInv, TypeOK, WorkerGiveUp, HandsOk
  <2>2. StartedOk'
    BY <1>18 DEF IInv, TypeOK, HandsOk, WorkerGiveUp, StartedOk, Published
  <2>3. ContextsOk'
    BY <1>18 DEF IInv, TypeOK, HandsOk, WorkerGiveUp, ContextsOk, HasRun, Published
  <2>4. AnswersOk'
    BY <1>18 DEF IInv, TypeOK, HandsOk, WorkerGiveUp, AnswersOk, HasRun, Consumed, Published
  <2>5. SubmittedOk' /\ PickupIsFifo' /\ FuturesOk' /\ NoStatusSwallowed'
    BY <1>18 DEF IInv, WorkerGiveUp, SubmittedOk, PickupIsFifo, FuturesOk, NoStatusSwallowed, Consumed, Published, Private
  <2> QED
    BY <1>0, <2>1, <2>2, <2>3, <2>4, <2>5 DEF IInv
<1>19. ASSUME NEW w \in Workers, WorkerProcess(w) PROVE IInv'
  <2>1. HandsOk'
    BY <1>19 DEF IInv, TypeOK, WorkerProcess, HandsOk
  <2>2. ContextsOk'
    BY <1>19 DEF IInv, TypeOK, HandsOk, WorkerProcess, ContextsOk, HasRun, Published
  <2>3. AnswersOk'
    BY <1>19 DEF IInv, TypeOK, HandsOk, WorkerProcess, AnswersOk, HasRun, Consumed, Published
  <2>4. SubmittedOk' /\ StartedOk' /\ PickupIsFifo' /\ FuturesOk' /\ NoStatusSwallowed'
    BY <1>19 DEF IInv, WorkerProcess, SubmittedOk, StartedOk, Published, PickupIsFifo, FuturesOk, NoStatusSwallowed, Consumed, Private
  <2> QED
    BY <1>0, <2>1, <2>2, <2>3, <2>4 DEF IInv
<1>20. ASSUME NEW w \in Workers, WorkerReply(w) PROVE IInv'
  <2>1. HandsOk'
    BY <1>20 DEF IInv, TypeOK, WorkerReply, HandsOk
  <2> DEFINE r == wjob[w]
  <2>a. /\ r \in Jobs /\ r # NoJob /\ wpc[w] = "reply"
        /\ ~Published(r) /\ r \notin cfgMsg /\ r \notin dropped
        /\ \A v \in Workers : wjob[v] = r => v = w
        /\ statusMsg' = statusMsg \union {r}
        /\ UNCHANGED <<cfgChannels, cfgMsg, dropped, ctxJobId, future, answer>>
    BY <1>20 DEF IInv, TypeOK, HandsOk, StartedOk, WorkerReply
  <2>b. /\ \A k : InSeq(k, statusChannels') <=> InSeq(k, statusChannels) \/ k = r
        /\ NoRepeat(statusChannels')
    BY <1>20, <2>a, AppendMembers DEF IInv, TypeOK, StartedOk, WorkerReply, Published
  <2>c. \A v \in Workers : /\ wjob'[v] = IF v = w THEN NoJob ELSE wjob[v]
                           /\ wpc'[v] = IF v = w THEN "next" ELSE wpc[v]
    <3>1. /\ wjob \in [Workers -> Jobs \union {NoJob}]
          /\ wpc \in [Workers -> {"poll", "scan", "run", "reply", "next", "stopped"}]
      BY DEF IInv, TypeOK
    <3>2. wjob' = [wjob EXCEPT ![w] = NoJob] /\ wpc' = [wpc EXCEPT ![w] = "next"]
      BY <1>20 DEF WorkerReply
    <3> QED
      BY <3>1, <3>2
  <2> HIDE DEF r
  <2>d. \A k \in Jobs : (\E v \in Workers : wjob'[v] = k) <=>
                        k # r /\ \E v \in Workers : wjob[v] = k
    <3>1. wjob[w] = r
      BY DEF r
    <3>2. ASSUME NEW k \in Jobs, NEW v \in Workers, wjob'[v] = k
          PROVE  k # r /\ wjob[v] = k
      <4>1. v # w
        BY <2>c, <3>2, JobQueueAssumption
      <4>2. wjob[v] = k
        BY <2>c, <3>2, <4>1
      <4> QED
        BY <2>a, <4>1, <4>2
    <3>3. ASSUME NEW k \in Jobs, k # r, NEW v \in Workers, wjob[v] = k
          PROVE  wjob'[v] = k
      BY <2>c, <3>1, <3>3
    <3> QED
      BY <3>2, <3>3
  <2>e. \A k \in Jobs : /\ HasRun(k)' <=> HasRun(k)
                        /\ Published(k)' <=> Published(k) \/ k = r
    <3>1. wjob[w] = r
      BY DEF r
    <3>2. \A k \in Jobs : Published(k)' <=> Published(k) \/ k = r
      BY <2>b DEF Published
    <3>3. ASSUME NEW k \in Jobs, HasRun(k)' PROVE HasRun(k)
      <4>1. CASE Published(k)'
        BY <2>a, <3>1, <3>2, <4>1 DEF HasRun
      <4>2. CASE \E v \in Workers : wjob'[v] = k /\ wpc'[v] = "reply"
        <5>1. PICK v \in Workers : wjob'[v] = k /\ wpc'[v] = "reply"
          BY <4>2
        <5>2. v # w
          BY <2>c, <5>1
        <5> QED
          BY <2>c, <5>1, <5>2 DEF HasRun
      <4> QED
        BY <3>3, <4>1, <4>2 DEF HasRun
    <3>4. ASSUME NEW k \in Jobs, HasRun(k) PROVE HasRun(k)'
      <4>1. CASE Published(k)
        BY <3>2, <4>1 DEF HasRun
      <4>2. CASE \E v \in Workers : wjob[v] = k /\ wpc[v] = "reply"
        <5>1. PICK v \in Workers : wjob[v] = k /\ wpc[v] = "reply"
          BY <4>2
        <5>2. CASE v = w
          BY <3>1, <3>2, <5>1, <5>2 DEF HasRun
        <5>3. CASE v # w
          BY <2>c, <5>1, <5>3 DEF HasRun
        <5> QED
          BY <5>2, <5>3
      <4> QED
        BY <3>4, <4>1, <4>2 DEF HasRun
    <3> QED
      BY <3>2, <3>3, <3>4
  <2>f. \A k \in Jobs : Consumed(k)' <=> Consumed(k)
    BY <2>a, <2>e DEF IInv, StartedOk, Consumed
  <2>2. StartedOk'
    <3>1. \A k \in Jobs : (\A v \in Workers : wjob'[v] # k) <=> ~\E v \in Workers : wjob'[v] = k
      OBVIOUS
    <3>2. wjob[w] = r
      BY DEF r
    <3> QED
      BY <2>a, <2>b, <2>d, <2>e, <3>1, <3>2 DEF IInv, StartedOk
  <2>3. ContextsOk'
    BY <2>a, <2>e DEF IInv, TypeOK, ContextsOk
  <2>4. AnswersOk'
    BY <2>a, <2>e, <2>f DEF IInv, TypeOK, AnswersOk
  <2>5. NoStatusSwallowed'
    BY <2>a, <2>f DEF IInv, NoStatusSwallowed, Private
  <2>6. SubmittedOk' /\ PickupIsFifo' /\ FuturesOk'
    BY <1>20 DEF IInv, WorkerReply, SubmittedOk, PickupIsFifo, FuturesOk
  <2> QED
    BY <1>0, <2>1, <2>2, <2>3, <2>4, <2>5, <2>6 DEF IInv
<1>21. CASE UNCHANGED vars
  BY <1>0, <1>21 DEF vars, IInv, HandsOk, SubmittedOk, StartedOk, Published, PickupIsFifo, FuturesOk, ContextsOk, HasRun, AnswersOk, Consumed, NoStatusSwallowed, Private
<1> QED
  BY <1>1, <1>2, <1>3, <1>4, <1>5, <1>6, <1>7, <1>8, <1>9, <1>10, <1>11, <1>12, <1>13, <1>14, <1>15, <1>16, <1>17, <1>18, <1>19, <1>20, <1>21 DEF Next, Master, Worker

LEMMA InitInv == Init => IInv
<1> SUFFICES ASSUME Init PROVE IInv
  OBVIOUS
<1> USE JobQueueAssumption DEF Init
<1>0. \A x : ~InSeq(x, <<>>)
  BY DEF InSeq
<1>1. TypeOK
  <2>1. /\ jobQueue \in Seq(Jobs) /\ cfgChannels \in Seq(Jobs) /\ statusChannels \in Seq(Jobs)
        /\ Len(cfgChannels) = 0 /\ Len(statusChannels) = 0
    OBVIOUS
  <2>2. mview \in 0 .. 0 /\ wview \in [Workers -> 0 .. 0]
    OBVIOUS
  <2>3. /\ caller \in [Jobs -> {"idle", "registered", "queued"}]
        /\ future \in [Jobs -> {"none", "pending", "done", "cancelled"}]
        /\ answer \in [Jobs -> Jobs \union {NoJob}]
        /\ wpc \in [Workers -> {"poll", "scan", "run", "reply", "next", "stopped"}]
        /\ wjob \in [Workers -> Jobs \union {NoJob}]
        /\ ctxJobId \in [Contexts -> Jobs \union {NoJob}]
    OBVIOUS
  <2> QED
    BY <2>1, <2>2, <2>3 DEF TypeOK
<1>2. HandsOk
  BY DEF HandsOk
<1>3. SubmittedOk
  BY <1>0 DEF SubmittedOk, NoRepeat
<1>4. StartedOk
  BY <1>0 DEF StartedOk, NoRepeat, Published
<1>5. PickupIsFifo
  BY DEF PickupIsFifo
<1>6. FuturesOk
  BY DEF FuturesOk
<1>7. ContextsOk
  BY <1>0 DEF ContextsOk, HasRun, Published
<1>8. AnswersOk /\ NoStatusSwallowed
  BY <1>0 DEF AnswersOk, NoStatusSwallowed, Consumed, Published
<1> QED
  BY <1>1, <1>2, <1>3, <1>4, <1>5, <1>6, <1>7, <1>8 DEF IInv

LEMMA Invariance == Spec => []IInv
  BY InitInv, InvStep, PTL DEF Spec

-----------------------------------------------------------------------------
(* Every variable of the job queue keeps its type.                           *)
THEOREM TypeCorrect == Spec => []TypeOK
<1>1. IInv => TypeOK
  BY DEF IInv
<1> QED
  BY <1>1, Invariance, PTL

(* Workers start jobs in the order in which the master published them.       *)
THEOREM PickupOrder == Spec => []PickupIsFifo
<1>1. IInv => PickupIsFifo
  BY DEF IInv
<1> QED
  BY <1>1, Invariance, PTL

(* A status message the master took has settled the future it belongs to.    *)
THEOREM StatusesCount == Spec => []NoStatusSwallowed
<1>1. IInv => NoStatusSwallowed
  BY DEF IInv
<1> QED
  BY <1>1, Invariance, PTL

(* Whatever contexts the jobs share, a future resolves after its own job ran,*)
(* with the result of a published job that holds the same context; hence its *)
(* own job's when no other job holds it.                                     *)
THEOREM AnswersCorrect == Spec => []AnswersMatch
<1>1. IInv => AnswersMatch
  BY DEF IInv, AnswersOk, AnswersMatch, Private
<1> QED
  BY <1>1, Invariance, PTL

(* No job is lost or copied on its way through queue, channels and workers.  *)
THEOREM HandOverCorrect == Spec => []InOneHand
<1>1. ASSUME IInv, NEW j \in Jobs, caller[j] = "queued"
      PROVE  \E p \in Whereabouts(j) : Whereabouts(j) = {p}
  <2>1. CASE InSeq(j, jobQueue)
    <3>1. Whereabouts(j) = {"queue"}
      BY <1>1, <2>1 DEF IInv, SubmittedOk, StartedOk, Whereabouts, Consumed
    <3> QED
      BY <3>1
  <2>2. CASE mjob = j
    <3>1. Whereabouts(j) = {"master"}
      BY <1>1, <2>2 DEF IInv, SubmittedOk, StartedOk, Whereabouts, Consumed
    <3> QED
      BY <3>1
  <2>3. CASE InSeq(j, cfgChannels)
    <3> USE <1>1, <2>3 DEF IInv, SubmittedOk, StartedOk, Whereabouts, Consumed
    <3>1. CASE j \in cfgMsg
      <4>1. Whereabouts(j) = {"cfg"}
        BY <3>1
      <4> QED
        BY <4>1
    <3>2. CASE \E w \in Workers : wjob[w] = j
      <4>1. Whereabouts(j) = {"worker"}
        BY <3>2
      <4> QED
        BY <4>1
    <3>3. CASE j \in dropped
      <4>1. Whereabouts(j) = {"dropped"}
        BY <3>3
      <4> QED
        BY <4>1
    <3>4. CASE Published(j) /\ j \in statusMsg
      <4>1. Whereabouts(j) = {"status"}
        BY <3>4
      <4> QED
        BY <4>1
    <3>5. CASE Published(j) /\ j \notin statusMsg
      <4>1. Whereabouts(j) = {"consumed"}
        BY <3>5
      <4> QED
        BY <4>1
    <3> QED
      BY <3>1, <3>2, <3>3, <3>4, <3>5
  <2> QED
    BY <1>1, <2>1, <2>2, <2>3 DEF IInv, SubmittedOk
<1>2. ASSUME IInv, NEW j \in Jobs, caller[j] # "queued"
      PROVE  Whereabouts(j) = {}
  BY <1>2 DEF IInv, SubmittedOk, StartedOk, Whereabouts, Consumed
<1>3. IInv => InOneHand
  BY <1>1, <1>2 DEF IInv, HandsOk, SubmittedOk, StartedOk, InOneHand
<1> QED
  BY <1>3, Invariance, PTL

-----------------------------------------------------------------------------
(* Refinement: under the mapping of JobQueue, every step is a step of       *)
(* JobService or leaves it alone.                                           *)

LEMMA ArrivalFacts ==
    ASSUME NEW S, NEW s \in Seq(S), NEW t \in Seq(S), NEW u \in Seq(S), NEW x \in S
    PROVE  /\ (Append(s, x) \o <<>>) \o u = (s \o <<x>>) \o u
           /\ u # <<>> => (s \o <<Head(u)>>) \o Tail(u) = (s \o <<>>) \o u
           /\ (s \o t) \o Append(u, x) = Append((s \o t) \o u, x)
           /\ \A i \in DOMAIN s : i \in DOMAIN ((s \o t) \o u) /\ ((s \o t) \o u)[i] = s[i]
<1>1. Append(s, x) \in Seq(S) /\ Append(s, x) = s \o <<x>> /\ Append(s, x) \o <<>> = Append(s, x)
  BY AppendIsConcat, ConcatEmptySeq
<1>2. ASSUME u # <<>> PROVE (s \o <<Head(u)>>) \o Tail(u) = (s \o <<>>) \o u
  <2>1. Head(u) \in S /\ Tail(u) \in Seq(S) /\ <<Head(u)>> \in Seq(S)
    BY <1>2, TailFacts
  <2>2. <<Head(u)>> \o Tail(u) = u
    <3>1. Len(<<Head(u)>> \o Tail(u)) = Len(u) /\ <<Head(u)>> \o Tail(u) \in Seq(S)
      BY <1>2, <2>1, TailFacts
    <3>2. \A i \in 1 .. Len(u) : (<<Head(u)>> \o Tail(u))[i] = u[i]
      BY <1>2, <2>1, TailFacts
    <3> QED
      BY <3>1, <3>2, SeqEqual
  <2>3. (s \o <<Head(u)>>) \o Tail(u) = s \o (<<Head(u)>> \o Tail(u))
    BY <2>1, ConcatAssociative
  <2> QED
    BY <2>2, <2>3, ConcatEmptySeq
<1>3. (s \o t) \o Append(u, x) = Append((s \o t) \o u, x)
  <2>1. s \o t \in Seq(S) /\ (s \o t) \o u \in Seq(S) /\ <<x>> \in Seq(S)
    BY ConcatProperties
  <2>2. Append(u, x) = u \o <<x>> /\ Append((s \o t) \o u, x) = ((s \o t) \o u) \o <<x>>
    BY <2>1, AppendIsConcat
  <2> QED
    BY <2>1, <2>2, ConcatAssociative
<1>4. ASSUME NEW i \in DOMAIN s
      PROVE  i \in DOMAIN ((s \o t) \o u) /\ ((s \o t) \o u)[i] = s[i]
  <2>1. /\ s \o t \in Seq(S) /\ Len(s \o t) = Len(s) + Len(t) /\ (s \o t)[i] = s[i]
        /\ i \in 1 .. Len(s) /\ Len(s) \in Nat /\ Len(t) \in Nat /\ Len(u) \in Nat
    BY ConcatProperties
  <2> QED
    BY <2>1, ConcatProperties
<1> QED
  BY <1>1, <1>2, <1>3, <1>4

\* What the phase of a job says, and when it stays the same.
LEMMA PhaseFacts ==
    ASSUME IInv, NEW j \in Jobs
    PROVE  /\ caller[j] # "queued" => Phase(j) = "new" /\ HeldFuture(j) = "none"
           /\ InSeq(j, jobQueue) \/ mjob = j \/ j \in cfgMsg => Phase(j) = "waiting"
           /\ InSeq(j, cfgChannels) /\ j \notin cfgMsg => Phase(j) # "waiting"
           /\ HasRun(j) => Phase(j) = "finished"
           /\ \A w \in Workers : wjob[w] = j /\ wpc[w] = "run" => Phase(j) = "running"
<1> USE DEF IInv
<1>1. HasRun(j) => j \notin dropped /\ InSeq(j, cfgChannels) /\ j \notin cfgMsg
  BY DEF HasRun, StartedOk
<1>2. j \in dropped \/ (\E w \in Workers : wjob[w] = j) =>
        InSeq(j, cfgChannels) /\ j \notin cfgMsg
  BY DEF StartedOk
<1>3. InSeq(j, jobQueue) \/ mjob = j \/ InSeq(j, cfgChannels) <=> caller[j] = "queued"
  BY DEF SubmittedOk
<1>4. j \in cfgMsg => InSeq(j, cfgChannels)
  BY DEF StartedOk
<1>5. InSeq(j, jobQueue) \/ mjob = j => ~InSeq(j, cfgChannels)
  BY DEF SubmittedOk
<1>6. InSeq(j, cfgChannels) /\ j \notin cfgMsg =>
        j \in dropped \/ HasRun(j) \/ \E w \in Workers : wjob[w] = j
  BY DEF StartedOk, HasRun
<1>7. ASSUME NEW w \in Workers, wjob[w] = j, wpc[w] = "run"
      PROVE  j \notin dropped /\ ~HasRun(j)
  BY <1>7 DEF StartedOk, HandsOk, HasRun, TypeOK
<1> QED
  BY <1>1, <1>2, <1>3, <1>4, <1>5, <1>6, <1>7 DEF Phase, HeldFuture

(* The same of the state after a step, for the facts a step needs there.     *)
PhaseFollows ==
    \A k \in Jobs :
        /\ InSeq(k, jobQueue) => Phase(k) = "waiting"
        /\ HasRun(k) => Phase(k) = "finished"
        /\ \A w \in Workers : wjob[w] = k /\ wpc[w] = "run" => Phase(k) = "running"

LEMMA NextPhaseFacts == IInv' => PhaseFollows'
<1>1. IInv => PhaseFollows
  BY PhaseFacts DEF PhaseFollows
<1> QED
  BY <1>1, PTL

(* One job moves to another phase, or one held future to another state, and  *)
(* the others stay: the functions the service sees change at one argument.   *)
LEMMA PhaseMoves ==
    ASSUME NEW t \in Jobs, NEW v, Phase(t)' = v,
           \A k \in Jobs : k # t => Phase(k)' = Phase(k)
    PROVE  [k \in Jobs |-> Phase(k)'] = [[k \in Jobs |-> Phase(k)] EXCEPT ![t] = v]
  OBVIOUS

LEMMA FutureMoves ==
    ASSUME NEW t \in Jobs, NEW v, HeldFuture(t)' = v,
           \A k \in Jobs : k # t => HeldFuture(k)' = HeldFuture(k)
    PROVE  [k \in Jobs |-> HeldFuture(k)'] = [[k \in Jobs |-> HeldFuture(k)] EXCEPT ![t] = v]
  OBVIOUS

LEMMA PhasesStay ==
    ASSUME \A k \in Jobs : Phase(k)' = Phase(k)
    PROVE  [k \in Jobs |-> Phase(k)'] = [k \in Jobs |-> Phase(k)]
  OBVIOUS

LEMMA FuturesStay ==
    ASSUME \A k \in Jobs : HeldFuture(k)' = HeldFuture(k)
    PROVE  [k \in Jobs |-> HeldFuture(k)'] = [k \in Jobs |-> HeldFuture(k)]
  OBVIOUS

\* The first state of the job queue is the first state of the service.
LEMMA InitRefines == Init => Service!Init
<1> SUFFICES ASSUME Init PROVE Service!Init
  OBVIOUS
<1>1. Arrival = <<>>
  BY DEF Init, Arrival, InMaster
<1>2. \A j \in Jobs : Phase(j) = "new" /\ HeldFuture(j) = "none"
  <2>1. ASSUME NEW j \in Jobs PROVE caller[j] # "queued"
    BY DEF Init
  <2> QED
    BY <2>1, InitInv, PhaseFacts
<1> QED
  BY <1>1, <1>2 DEF Init, Service!Init

\* A step that moves no job from one phase to the next is a stutter.
LEMMA Stutter ==
    ASSUME Arrival' = Arrival, answer' = answer,
           \A j \in Jobs : Phase(j)' = Phase(j) /\ HeldFuture(j)' = HeldFuture(j)
    PROVE  UNCHANGED Service!vars
  BY DEF Service!vars

LEMMA StepRefines == IInv /\ IInv' /\ [Next]_vars => Service!Next \/ UNCHANGED Service!vars
<1> SUFFICES ASSUME IInv, IInv', [Next]_vars PROVE Service!Next \/ UNCHANGED Service!vars
  OBVIOUS
<1> USE JobQueueAssumption DEF callers, flags, master, channels, workers
<1>0. /\ jobQueue \in Seq(Jobs) /\ cfgChannels \in Seq(Jobs) /\ InMaster \in Seq(Jobs)
      /\ jobQueue' \in Seq(Jobs) /\ cfgChannels' \in Seq(Jobs)
  <2>1. mjob # NoJob => mjob \in Jobs
    BY DEF IInv, TypeOK
  <2> QED
    BY <2>1 DEF IInv, TypeOK, InMaster
(* The callers *)
<1>1. ASSUME NEW j \in Jobs, Register(j) PROVE UNCHANGED Service!vars
  <2>1. UNCHANGED <<answer, jobQueue, mjob, cfgChannels, statusChannels, wpc, wjob, dropped>>
    BY <1>1 DEF Register
  <2>2. \A k \in Jobs : /\ k # j => caller'[k] = caller[k] /\ future'[k] = future[k]
                        /\ caller[j] # "queued" /\ caller'[j] # "queued"
    BY <1>1 DEF Register, IInv, TypeOK
  <2>3. \A k \in Jobs : Phase(k)' = Phase(k) /\ HeldFuture(k)' = HeldFuture(k)
    BY <2>1, <2>2 DEF Phase, HeldFuture, HasRun, Published
  <2> QED
    BY <2>1, <2>3, Stutter DEF Arrival, InMaster
<1>2. ASSUME NEW j \in Jobs, Put(j) PROVE Service!Accept(j, future[j]) /\ future[j] \in {"none", "pending"}
  <2>1. /\ UNCHANGED <<answer, future, mjob, cfgChannels, statusChannels, wpc, wjob, dropped>>
        /\ jobQueue' = Append(jobQueue, j)
        /\ caller[j] = "registered" /\ caller' = [caller EXCEPT ![j] = "queued"]
    BY <1>2 DEF Put
  <2>2. InSeq(j, jobQueue')
    BY <1>0, <2>1, AppendMembers
  <2>3. Phase(j) = "new" /\ HeldFuture(j) = "none" /\ Phase(j)' = "waiting"
    BY <2>1, <2>2, PhaseFacts, NextPhaseFacts DEF PhaseFollows
  <2>4. \A k \in Jobs : k # j => Phase(k)' = Phase(k) /\ HeldFuture(k)' = HeldFuture(k)
    <3>1. \A k \in Jobs : k # j => caller'[k] = caller[k]
      BY <2>1 DEF IInv, TypeOK
    <3> QED
      BY <2>1, <3>1 DEF Phase, HeldFuture, HasRun, Published
  <2>5. caller'[j] = "queued"
    BY <2>1 DEF IInv, TypeOK
  <2>6. HeldFuture(j)' = future[j] /\ future[j] \in {"none", "pending"}
    <3>1. future[j] # "done" /\ future[j] # "cancelled"
      <4>1. ~HasRun(j)
        BY <2>1 DEF IInv, SubmittedOk, StartedOk, HasRun
      <4> QED
        BY <2>1, <4>1 DEF IInv, FuturesOk, AnswersOk
    <3> QED
      BY <2>1, <2>5, <3>1 DEF HeldFuture, IInv, TypeOK
  <2>7. Arrival' = Append(Arrival, j)
    <3>1. InMaster' = InMaster
      BY <2>1 DEF InMaster
    <3> QED
      BY <1>0, <2>1, <3>1, ArrivalFacts DEF Arrival
  <2>8. /\ [k \in Jobs |-> Phase(k)'] = [[k \in Jobs |-> Phase(k)] EXCEPT ![j] = "waiting"]
        /\ [k \in Jobs |-> HeldFuture(k)'] = [[k \in Jobs |-> HeldFuture(k)] EXCEPT ![j] = future[j]]
    BY <2>3, <2>4, <2>6, PhaseMoves, FutureMoves
  <2> QED
    BY <2>1, <2>3, <2>6, <2>7, <2>8 DEF Service!Accept
<1>3. ASSUME NEW j \in Jobs, Cancel(j) PROVE Service!Cancel(j)
  <2>1. /\ UNCHANGED <<answer, caller, jobQueue, mjob, cfgChannels, statusChannels, wpc, wjob, dropped>>
        /\ caller[j] = "queued" /\ future[j] = "pending"
        /\ future' = [future EXCEPT ![j] = "cancelled"]
    BY <1>3 DEF Cancel
  <2>2. /\ HeldFuture(j) = "pending" /\ HeldFuture(j)' = "cancelled"
        /\ \A k \in Jobs : k # j => HeldFuture(k)' = HeldFuture(k)
    BY <2>1 DEF HeldFuture, IInv, TypeOK
  <2>3. Arrival' = Arrival /\ \A k \in Jobs : Phase(k)' = Phase(k)
    BY <2>1 DEF Phase, HasRun, Published, Arrival, InMaster
  <2> QED
    BY <2>1, <2>2, <2>3, PhasesStay, FutureMoves DEF Service!Cancel
<1>4. CASE Stop \/ SetStopEvent \/ MasterStart \/ MasterLoop \/ MasterSubscribe \/ MasterNothing \/ MasterCheck
  <2>1. UNCHANGED <<caller, future, answer, jobQueue, mjob, cfgChannels, statusChannels, wpc, wjob, dropped>>
    BY <1>4 DEF Stop, SetStopEvent, MasterStart, MasterLoop, MasterSubscribe, MasterNothing, MasterCheck
  <2> QED
    BY <2>1, Stutter DEF Phase, HeldFuture, HasRun, Published, Arrival, InMaster
(* The master *)
<1>5. CASE MasterGet
  <2>1. UNCHANGED <<caller, future, answer, cfgChannels, statusChannels, wpc, wjob, dropped>>
    BY <1>5 DEF MasterGet
  <2>2. \A k \in Jobs : Phase(k)' = Phase(k) /\ HeldFuture(k)' = HeldFuture(k)
    BY <2>1 DEF Phase, HeldFuture, HasRun, Published
  <2>3. Arrival' = Arrival
    <3>1. CASE jobQueue = <<>>
      BY <1>5, <3>1 DEF MasterGet, Arrival, InMaster
    <3>2. CASE jobQueue # <<>>
      <4>1. Head(jobQueue) \in Jobs
        BY <1>0, <3>2, TailFacts
      <4>2. InMaster = <<>> /\ InMaster' = <<Head(jobQueue)>> /\ jobQueue' = Tail(jobQueue)
        BY <1>5, <3>2, <4>1 DEF MasterGet, InMaster, IInv, HandsOk
      <4> QED
        BY <1>0, <2>1, <3>2, <4>1, <4>2, ArrivalFacts DEF Arrival
    <3> QED
      BY <3>1, <3>2
  <2> QED
    BY <2>1, <2>2, <2>3, Stutter
<1>6. CASE MasterPublish
  <2>1. UNCHANGED <<caller, future, answer, jobQueue, statusChannels, wpc, wjob, dropped>>
    BY <1>6 DEF MasterPublish
  <2>2. \A k \in Jobs : Phase(k)' = Phase(k) /\ HeldFuture(k)' = HeldFuture(k)
    BY <2>1 DEF Phase, HeldFuture, HasRun, Published
  <2>3. mjob \in Jobs /\ InMaster = <<mjob>> /\ InMaster' = <<>> /\ cfgChannels' = Append(cfgChannels, mjob)
    BY <1>6 DEF MasterPublish, InMaster, IInv, TypeOK, HandsOk
  <2>4. Arrival' = Arrival
    BY <1>0, <2>1, <2>3, ArrivalFacts DEF Arrival
  <2> QED
    BY <2>1, <2>2, <2>4, Stutter
<1>7. CASE MasterReceive
  <2>1. PICK i \in DOMAIN statusChannels :
          /\ statusChannels[i] \in statusMsg
          /\ LET jid == ctxJobId[ContextOf[statusChannels[i]]]
             IN  \/ jid \in pending /\ Resolved(jid, statusChannels[i])
                 \/ UNCHANGED <<future, answer>>
    BY <1>7 DEF MasterReceive, FirstFull, Crashed
  <2>2. UNCHANGED <<caller, jobQueue, mjob, cfgChannels, statusChannels, wpc, wjob, dropped>>
    BY <1>7 DEF MasterReceive
  <2>3. Arrival' = Arrival /\ \A k \in Jobs : Phase(k)' = Phase(k)
    BY <2>2 DEF Phase, HasRun, Published, Arrival, InMaster
  <2>4. PICK s \in Jobs : s = statusChannels[i]
    BY <2>1 DEF IInv, TypeOK
  <2>5. s \in statusMsg /\ HasRun(s)
    BY <2>1, <2>4 DEF HasRun, Published, InSeq
  <2>6. PICK jid \in Jobs : jid = ctxJobId[ContextOf[s]] /\ HasRun(jid) /\ ContextOf[jid] = ContextOf[s]
    BY <2>4, <2>5 DEF IInv, TypeOK, ContextsOk
  <2>7. CASE UNCHANGED <<future, answer>>
    <3>1. \A k \in Jobs : HeldFuture(k)' = HeldFuture(k)
      BY <2>2, <2>7 DEF HeldFuture
    <3> QED
      BY <2>3, <2>7, <3>1, Stutter
  <2>8. CASE Resolved(jid, s)
    <3>1. caller[jid] = "queued"
      BY <2>6, PhaseFacts
    <3>2. /\ future[jid] = "pending" /\ future' = [future EXCEPT ![jid] = "done"]
          /\ answer' = [answer EXCEPT ![jid] = s]
      BY <2>8 DEF Resolved
    <3>3. future'[jid] = "done" /\ \A k \in Jobs : k # jid => future'[k] = future[k]
      BY <3>2 DEF IInv, TypeOK
    <3>4. /\ HeldFuture(jid) = "pending" /\ HeldFuture(jid)' = "done"
          /\ \A k \in Jobs : k # jid => HeldFuture(k)' = HeldFuture(k)
      BY <2>2, <3>1, <3>2, <3>3 DEF HeldFuture
    <3>5. Phase(jid) = "finished" /\ Phase(s) = "finished"
      BY <2>5, <2>6, PhaseFacts
    <3>6. \A k \in Jobs : answer[k] # s
      BY <2>5 DEF IInv, AnswersOk, Consumed
    <3>7. /\ [k \in Jobs |-> Phase(k)'] = [k \in Jobs |-> Phase(k)]
          /\ [k \in Jobs |-> HeldFuture(k)'] = [[k \in Jobs |-> HeldFuture(k)] EXCEPT ![jid] = "done"]
      BY <2>3, <3>4, PhasesStay, FutureMoves
    <3>8. Service!Resolve(jid, s)
      BY <2>3, <2>6, <3>2, <3>4, <3>5, <3>6, <3>7 DEF Service!Resolve
    <3> QED
      BY <3>8 DEF Service!Next
  <2> QED
    BY <2>1, <2>4, <2>6, <2>7, <2>8
(* The workers *)
<1>8. ASSUME NEW w \in Workers, WorkerPoll(w) \/ WorkerNext(w) \/ WorkerDrained(w)
      PROVE  UNCHANGED Service!vars
  <2>1. /\ UNCHANGED <<caller, future, answer, jobQueue, mjob, cfgChannels, statusChannels, wjob, dropped>>
        /\ wpc[w] # "reply" /\ wpc'[w] # "reply"
        /\ \A v \in Workers : v # w => wpc'[v] = wpc[v]
    BY <1>8 DEF WorkerPoll, WorkerNext, WorkerDrained, IInv, TypeOK
  <2>2. \A k \in Jobs : HasRun(k)' <=> HasRun(k)
    BY <2>1 DEF HasRun, Published
  <2> QED
    BY <2>1, <2>2, Stutter DEF Phase, HeldFuture, Arrival, InMaster
<1>9. ASSUME NEW w \in Workers, WorkerTake(w) PROVE Service!Next
  <2>1. PICK i \in DOMAIN cfgChannels :
          /\ cfgChannels[i] \in cfgMsg
          /\ \A k \in 1 .. (i - 1) : cfgChannels[k] \notin cfgMsg
          /\ wjob' = [wjob EXCEPT ![w] = cfgChannels[i]]
    BY <1>9 DEF WorkerTake, FirstFull
  <2>100. PICK t \in Jobs : t = cfgChannels[i]
    BY <1>0, <2>1
  <2>2. /\ UNCHANGED <<caller, future, answer, jobQueue, mjob, cfgChannels, statusChannels, dropped>>
        /\ wpc[w] = "scan" /\ wpc' = [wpc EXCEPT ![w] = "run"]
    BY <1>9 DEF WorkerTake
  <2>3. wjob[w] = NoJob /\ DOMAIN cfgChannels = 1 .. Len(cfgChannels) /\ Len(cfgChannels) \in Nat
    <3>1. wjob[w] = NoJob
      BY <2>2 DEF IInv, HandsOk
    <3> QED
      BY <1>0, <3>1
  <2>4. /\ wjob'[w] = t /\ wpc'[w] = "run"
        /\ \A v \in Workers : v # w => wjob'[v] = wjob[v] /\ wpc'[v] = wpc[v]
    BY <2>1, <2>2, <2>100 DEF IInv, TypeOK
  <2>5. Phase(t) = "waiting" /\ Phase(t)' = "running"
    BY <2>1, <2>4, <2>100, PhaseFacts, NextPhaseFacts DEF PhaseFollows
  <2>6. \A k \in Jobs : k # t => Phase(k)' = Phase(k)
    <3>1. ASSUME NEW k \in Jobs, k # t
          PROVE  /\ HasRun(k)' <=> HasRun(k)
                 /\ (\E v \in Workers : wjob'[v] = k) <=> \E v \in Workers : wjob[v] = k
      BY <2>2, <2>3, <2>4, <3>1 DEF HasRun, Published
    <3> QED
      BY <2>2, <3>1 DEF Phase
  <2>7. Arrival' = Arrival /\ \A k \in Jobs : HeldFuture(k)' = HeldFuture(k)
    BY <2>2 DEF Arrival, InMaster, HeldFuture
  <2>8. /\ i \in DOMAIN Arrival /\ Arrival[i] = t
        /\ \A k \in 1 .. (i - 1) : k \in DOMAIN cfgChannels /\ Arrival[k] = cfgChannels[k]
    <3>1. ASSUME NEW k \in DOMAIN cfgChannels
          PROVE  k \in DOMAIN Arrival /\ Arrival[k] = cfgChannels[k]
      BY <1>0, <2>3, ArrivalFacts DEF Arrival
    <3>2. \A k \in 1 .. (i - 1) : k \in DOMAIN cfgChannels
      BY <2>3
    <3> QED
      BY <2>100, <3>1, <3>2
  <2>9. ASSUME NEW k \in 1 .. (i - 1) PROVE Phase(Arrival[k]) # "waiting" /\ Arrival[k] \in Jobs
    <3>1. cfgChannels[k] \in Jobs /\ InSeq(cfgChannels[k], cfgChannels) /\ cfgChannels[k] \notin cfgMsg
      BY <1>0, <2>1, <2>8 DEF InSeq
    <3> QED
      BY <2>8, <3>1, PhaseFacts
  <2>10. Service!Start(i)
    <3>1. /\ [k \in Jobs |-> Phase(k)'] = [[k \in Jobs |-> Phase(k)] EXCEPT ![t] = "running"]
          /\ [k \in Jobs |-> HeldFuture(k)'] = [k \in Jobs |-> HeldFuture(k)]
      BY <2>5, <2>6, <2>7, PhaseMoves, FuturesStay
    <3> QED
      BY <2>2, <2>5, <2>7, <2>8, <2>9, <3>1 DEF Service!Start
  <2> QED
    BY <2>8, <2>10 DEF Service!Next
<1>10. ASSUME NEW w \in Workers, WorkerGiveUp(w) PROVE Service!Next
  <2>100. PICK t \in Jobs : t = wjob[w]
    BY <1>10 DEF WorkerGiveUp, IInv, TypeOK, HandsOk
  <2>1. /\ UNCHANGED <<caller, future, answer, jobQueue, mjob, cfgChannels, statusChannels>>
        /\ wpc[w] = "run" /\ wpc' = [wpc EXCEPT ![w] = "next"]
        /\ wjob' = [wjob EXCEPT ![w] = NoJob] /\ dropped' = dropped \union {t}
    BY <1>10, <2>100 DEF WorkerGiveUp
  <2>2. \A v \in Workers : wjob[v] = t => v = w
    BY <2>100 DEF IInv, HandsOk
  <2>3. \A v \in Workers : v # w => wjob'[v] = wjob[v] /\ wpc'[v] = wpc[v]
    BY <2>1 DEF IInv, TypeOK
  <2>4. wjob'[w] = NoJob
    BY <2>1 DEF IInv, TypeOK
  <2>5. Phase(t) = "running" /\ Phase(t)' = "dropped"
    <3>1. Phase(t) = "running"
      BY <2>1, <2>100, PhaseFacts
    <3>2. t \in dropped'
      BY <2>1
    <3> QED
      BY <3>1, <3>2 DEF Phase
  <2>6. \A k \in Jobs : k # t => Phase(k)' = Phase(k)
    <3>1. ASSUME NEW k \in Jobs, k # t
          PROVE  /\ HasRun(k)' <=> HasRun(k)
                 /\ (\E v \in Workers : wjob'[v] = k) <=> \E v \in Workers : wjob[v] = k
      BY <2>1, <2>2, <2>3, <2>4, <2>100, <3>1 DEF HasRun, Published
    <3> QED
      BY <2>1, <3>1 DEF Phase
  <2>7. Arrival' = Arrival /\ \A k \in Jobs : HeldFuture(k)' = HeldFuture(k)
    BY <2>1 DEF Arrival, InMaster, HeldFuture
  <2>8. Service!End(t, "dropped")
    <3>1. /\ [k \in Jobs |-> Phase(k)'] = [[k \in Jobs |-> Phase(k)] EXCEPT ![t] = "dropped"]
          /\ [k \in Jobs |-> HeldFuture(k)'] = [k \in Jobs |-> HeldFuture(k)]
      BY <2>5, <2>6, <2>7, PhaseMoves, FuturesStay
    <3> QED
      BY <2>1, <2>5, <2>7, <3>1 DEF Service!End
  <2> QED
    BY <2>8 DEF Service!Next
<1>11. ASSUME NEW w \in Workers, WorkerProcess(w) PROVE Service!Next
  <2>100. PICK t \in Jobs : t = wjob[w]
    BY <1>11 DEF WorkerProcess, IInv, TypeOK, HandsOk
  <2>1. /\ UNCHANGED <<caller, future, answer, jobQueue, mjob, cfgChannels, statusChannels, wjob, dropped>>
        /\ wpc[w] = "run" /\ wpc' = [wpc EXCEPT ![w] = "reply"]
    BY <1>11 DEF WorkerProcess
  <2>3. wpc'[w] = "reply" /\ \A v \in Workers : v # w => wpc'[v] = wpc[v]
    BY <2>1 DEF IInv, TypeOK
  <2>4. HasRun(t)'
    BY <2>1, <2>3, <2>100 DEF HasRun
  <2>5. Phase(t) = "running" /\ Phase(t)' = "finished"
    BY <2>1, <2>4, <2>100, PhaseFacts, NextPhaseFacts DEF PhaseFollows
  <2>6. \A k \in Jobs : k # t => Phase(k)' = Phase(k)
    <3>1. ASSUME NEW k \in Jobs, k # t PROVE HasRun(k)' <=> HasRun(k)
      BY <2>1, <2>3, <2>100, <3>1 DEF HasRun, Published
    <3> QED
      BY <2>1, <3>1 DEF Phase
  <2>7. Arrival' = Arrival /\ \A k \in Jobs : HeldFuture(k)' = HeldFuture(k)
    BY <2>1 DEF Arrival, InMaster, HeldFuture
  <2>8. Service!End(t, "finished")
    <3>1. /\ [k \in Jobs |-> Phase(k)'] = [[k \in Jobs |-> Phase(k)] EXCEPT ![t] = "finished"]
          /\ [k \in Jobs |-> HeldFuture(k)'] = [k \in Jobs |-> HeldFuture(k)]
      BY <2>5, <2>6, <2>7, PhaseMoves, FuturesStay
    <3> QED
      BY <2>1, <2>5, <2>7, <3>1 DEF Service!End
  <2> QED
    BY <2>8 DEF Service!Next
<1>12. ASSUME NEW w \in Workers, WorkerReply(w) PROVE UNCHANGED Service!vars
  <2>100. PICK t \in Jobs : t = wjob[w]
    BY <1>12 DEF WorkerReply, IInv, TypeOK, HandsOk
  <2>1. /\ UNCHANGED <<caller, future, answer, jobQueue, mjob, cfgChannels, dropped>>
        /\ wpc[w] = "reply" /\ wpc' = [wpc EXCEPT ![w] = "next"]
        /\ wjob' = [wjob EXCEPT ![w] = NoJob]
        /\ statusChannels' = Append(statusChannels, t)
    BY <1>12, <2>100 DEF WorkerReply
  <2>2. HasRun(t)
    BY <2>1, <2>100 DEF HasRun
  <2>3. \A k : InSeq(k, statusChannels') <=> InSeq(k, statusChannels) \/ k = t
    BY <2>1, AppendMembers DEF IInv, TypeOK
  <2>4. /\ wjob'[w] = NoJob /\ wpc'[w] = "next"
        /\ \A v \in Workers : v # w => wjob'[v] = wjob[v] /\ wpc'[v] = wpc[v]
    BY <2>1 DEF IInv, TypeOK
  <2>5. HasRun(t)'
    <3>1. InSeq(t, statusChannels')
      BY <2>3
    <3> QED
      BY <3>1 DEF HasRun, Published, InSeq
  <2>6. ASSUME NEW k \in Jobs, k # t
        PROVE  /\ HasRun(k)' <=> HasRun(k)
               /\ (\E v \in Workers : wjob'[v] = k) <=> \E v \in Workers : wjob[v] = k
    <3>1. Published(k)' <=> Published(k)
      BY <2>3, <2>6 DEF Published, InSeq
    <3> QED
      BY <2>1, <2>4, <2>6, <2>100, <3>1 DEF HasRun
  <2>7. \A k \in Jobs : Phase(k)' = Phase(k)
    <3>1. Phase(t) = "finished" /\ Phase(t)' = "finished"
      BY <2>2, <2>5, PhaseFacts, NextPhaseFacts DEF PhaseFollows
    <3> QED
      BY <2>1, <2>6, <3>1 DEF Phase
  <2>8. Arrival' = Arrival /\ \A k \in Jobs : HeldFuture(k)' = HeldFuture(k)
    BY <2>1 DEF Arrival, InMaster, HeldFuture
  <2> QED
    BY <2>1, <2>7, <2>8, Stutter
<1>13. CASE UNCHANGED vars
  <2>1. UNCHANGED <<caller, future, answer, jobQueue, mjob, cfgChannels, statusChannels, wpc, wjob, dropped>>
    BY <1>13 DEF vars
  <2> QED
    BY <2>1, Stutter DEF Phase, HeldFuture, HasRun, Published, Arrival, InMaster
<1>14. \A j \in Jobs : Service!Cancel(j) \/ (\E f \in {"none", "pending"} : Service!Accept(j, f)) => Service!Next
  BY DEF Service!Next
<1> QED
  BY <1>1, <1>2, <1>3, <1>4, <1>5, <1>6, <1>7, <1>8, <1>9, <1>10, <1>11, <1>12, <1>13, <1>14
     DEF Next, Master, Worker

(* The job queue implements the service: jobs are started in the order in    *)
(* which callers put them on the queue and each at most once, and a future   *)
(* resolves once, after its own job ran, with a result no other future got.  *)
THEOREM Refinement == Spec => ImplementsService
<1>1. Init => Service!Init
  BY InitRefines
<1>2. IInv /\ IInv' /\ [Next]_vars => [Service!Next]_(Service!vars)
  BY StepRefines
<1> QED
  BY <1>1, <1>2, Invariance, PTL DEF Spec, ImplementsService, Service!Spec
================================================================================
