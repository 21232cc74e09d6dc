------------------------------ MODULE LaunchTrace ------------------------------
(***************************************************************************)
(* From the command line to the verdict: the invocations of a plan launch  *)
(* their runs and leave records on disk, whole or in part (RunSpaceLaunch, *)
(* PipelineRun); then an aggregator reads them, in any order and some of   *)
(* them twice, and is asked for verdicts at any time (TraceAggregator).    *)
(***************************************************************************)
EXTENDS RunSpaceLaunch

VARIABLES aruns, alaunches, seen, repeats

aggregate == <<aruns, alaunches, seen>>
vars == <<launchVars, aggregate, repeats>>

Invocations == 1 .. MaxInvocations
A == INSTANCE TraceAggregator WITH
        RunIds   <- Invocations \X (1 .. MaxRuns),
        NodeIds  <- 1 .. NodeCount,
        Expected <- 1 .. NodeCount

Init == InitLaunch /\ A!InitAggregator /\ repeats = 0

Launching == NextLaunch /\ UNCHANGED <<aggregate, repeats>>

\* ingest_many: the records of the files, as they come, if anyone reads them.
Read ==
    /\ step = "read" /\ conf.inspected
    /\ \E rec \in disk :
         /\ A!Ingest(rec)
         /\ IF rec \in seen THEN repeats < conf.rereads /\ repeats' = repeats + 1
            ELSE UNCHANGED repeats
    /\ UNCHANGED launchVars

Ask ==
    /\ step = "read" /\ conf.inspected
    /\ \/ \E r \in DOMAIN aruns : A!FinalizeRun(r)
       \/ \E k \in DOMAIN alaunches : A!FinalizeLaunch(k)
       \/ A!FinalizeAll
    /\ UNCHANGED <<launchVars, repeats>>

Next == Launching \/ Read \/ Ask
Spec == Init /\ [][Next]_vars
-----------------------------------------------------------------------------
(* Properties *)

TypeOK ==
    /\ LaunchTypeOK /\ A!TypeOK
    /\ seen \subseteq disk /\ repeats \in 0 .. conf.rereads

(* Verdicts depend on the set of records read (see TraceAggregator).         *)
VerdictsFollowRecords == A!VerdictsFollowRecords

Of(k) == {i \in DOMAIN exits : exits[i].launch = k}
BegunUnder(k) ==
    {r \in Invocations \X (1 .. MaxRuns) : r[1] \in Of(k) /\ r[2] <= exits[r[1]].begun}

(* What a verdict on a whole trace says of the launches. If every invocation *)
(* of a launch succeeded and all records were read, it is complete and has   *)
(* as many runs as were begun under its identity. And it has at least the    *)
(* runs of each invocation that succeeded: a launch called complete with     *)
(* fewer runs than an invocation planned tells that this one did not succeed *)
(* (a run failed before its first record, or the launch was interrupted). To *)
(* succeed is to return EXIT_SUCCESS from _run: an invocation that SystemExit*)
(* leaves, with whatever status, is not meant.                               *)
VerdictMeansOutcome ==
    step = "read" /\ seen = disk =>
        \A k \in LaunchKeys : Of(k) # {} =>
            /\ (\A i \in Of(k) : exits[i].code = "success") =>
                 /\ A!LaunchVerdict(k).status = "complete"
                 /\ A!LaunchVerdict(k).total = Cardinality(BegunUnder(k))
            /\ \A i \in Of(k) : exits[i].code = "success" =>
                 Len(exits[i].runs) <= A!LaunchVerdict(k).total

(* Asking for verdicts early only widens the times of a run: it never makes  *)
(* a run end before it starts when asking once would not, whatever the clock *)
(* did; and as long as the clock does not go back no run does, whatever was  *)
(* lost, repeated or asked for early (finalize_run).                         *)
TimesHonest ==
    /\ A!EarlyVerdictsNeverAccuse
    /\ step = "read" /\ (\A i \in DOMAIN Plans[plan] : ~Plans[plan][i].stepped) =>
         \A r \in DOMAIN aruns : ~A!TimeProblem(A!Synthesized(aruns[r]))
===============================================================================
