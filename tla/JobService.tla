------------------------------ MODULE JobService ------------------------------
(***************************************************************************)
(* What the job queue promises to a caller of enqueue(), without master,   *)
(* workers, channels or subscriptions: jobs are accepted in some order,    *)
(* started in that order, each at most once, and a future that resolves    *)
(* does so once, after its own job ran, with the result of a job that      *)
(* finished and was given to no other future.                              *)
(*                                                                         *)
(* A result travels in a context object, and the object is the only thing  *)
(* that ties it to its job: the service may swap results between jobs that *)
(* were enqueued with one and the same context object, and never others.   *)
(***************************************************************************)
EXTENDS Naturals, Sequences

CONSTANTS Jobs,       \* identities of the jobs callers may enqueue
          ContextOf,  \* ContextOf[j]: the context object job j carries
          NoJob       \* stands for the absent job

VARIABLES arrival,    \* the accepted jobs, in order of acceptance
          phase,      \* phase[j]: how far job j has got
          future,     \* future[j]: state of the future the caller holds for j
          answer      \* answer[j]: the job whose result resolved j's future

vars == <<arrival, phase, future, answer>>

Init == /\ arrival = <<>>
        /\ phase = [j \in Jobs |-> "new"]
        /\ future = [j \in Jobs |-> "none"]
        /\ answer = [j \in Jobs |-> NoJob]

\* The caller gets its job accepted, with a future to wait on or without.
Accept(j, f) ==
    /\ phase[j] = "new"
    /\ phase' = [phase EXCEPT ![j] = "waiting"]
    /\ arrival' = Append(arrival, j)
    /\ future' = [future EXCEPT ![j] = f]
    /\ UNCHANGED answer

\* The oldest job still waiting is started.
Start(i) ==
    /\ phase[arrival[i]] = "waiting"
    /\ \A k \in 1 .. (i - 1) : phase[arrival[k]] # "waiting"
    /\ phase' = [phase EXCEPT ![arrival[i]] = "running"]
    /\ UNCHANGED <<arrival, future, answer>>

\* A running job ends: with a result, or without one.
End(j, how) ==
    /\ phase[j] = "running"
    /\ phase' = [phase EXCEPT ![j] = how]
    /\ UNCHANGED <<arrival, future, answer>>

\* The future of j, whose job has ended well, resolves with the result of r.
Resolve(j, r) ==
    /\ future[j] = "pending"
    /\ phase[j] = "finished" /\ phase[r] = "finished"
    /\ ContextOf[j] = ContextOf[r]
    /\ \A k \in Jobs : answer[k] # r
    /\ future' = [future EXCEPT ![j] = "done"]
    /\ answer' = [answer EXCEPT ![j] = r]
    /\ UNCHANGED <<arrival, phase>>

Cancel(j) ==
    /\ future[j] = "pending"
    /\ future' = [future EXCEPT ![j] = "cancelled"]
    /\ UNCHANGED <<arrival, phase, answer>>

Next == \/ \E j \in Jobs, f \in {"none", "pending"} : Accept(j, f)
        \/ \E i \in DOMAIN arrival : Start(i)
        \/ \E j \in Jobs, how \in {"finished", "dropped"} : End(j, how)
        \/ \E j, r \in Jobs : Resolve(j, r)
        \/ \E j \in Jobs : Cancel(j)

Spec == Init /\ [][Next]_vars
================================================================================
