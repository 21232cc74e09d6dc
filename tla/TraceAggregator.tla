---------------------------- MODULE TraceAggregator ---------------------------
(***************************************************************************)
(* TraceAggregator (trace/aggregation/aggregator.py, models.py): records of*)
(* runs and launches are ingested one at a time, in any order and perhaps  *)
(* more than once; verdicts on their completeness may be asked for at any  *)
(* time, and asking writes synthesized timestamps into the aggregates.     *)
(*                                                                         *)
(* The tables _runs and _launches are total functions whose entries know   *)
(* whether they exist. A record has a kind, the run, node or launch it is  *)
(* of, a status and a time; what the aggregator merely copies is left out. *)
(* The time of a SER is that at which its node finished; it started one    *)
(* unit before. Malformed records are ignored by the code and left out.    *)
(***************************************************************************)
EXTENDS Integers, FiniteSets

CONSTANTS RunIds, NodeIds, LaunchKeys,
          NoLaunch,     \* the launch of a record that belongs to none
          Expected      \* nodes that a pipeline_start declares

VARIABLES aruns,        \* _runs
          alaunches,    \* _launches
          seen          \* the records ingested so far (history)

aggVars == <<aruns, alaunches, seen>>

Kinds == {"start", "ser", "end", "launchStart", "launchEnd"}
Terminal == {"succeeded", "error", "skipped", "cancelled"}
NoTime == -1

Earliest(S) == IF S \ {NoTime} = {} THEN NoTime
               ELSE CHOOSE t \in S \ {NoTime} : \A u \in S \ {NoTime} : t <= u
Latest(S)   == IF S = {} THEN NoTime ELSE CHOOSE t \in S : \A u \in S : u <= t

NewNode == [known |-> FALSE, first |-> NoTime, last |-> NoTime, finished |-> NoTime,
            status |-> "-"]
NewRun == [known |-> FALSE, sawStart |-> FALSE, sawEnd |-> FALSE, start |-> NoTime,
           end |-> NoTime, spec |-> {}, nodes |-> [n \in NodeIds |-> NewNode]]
NewLaunch == [known |-> FALSE, sawStart |-> FALSE, sawEnd |-> FALSE, planned |-> 0,
              pipelines |-> {}]

InitAggregator ==
    /\ aruns = [r \in RunIds |-> NewRun]
    /\ alaunches = [k \in LaunchKeys |-> NewLaunch]
    /\ seen = {}

-----------------------------------------------------------------------------
(* Ingestion *)

StartNeedsLaunch(rec) ==                \* mutant: a run is attached to launches already known
    /\ rec.kind = "start"
    /\ aruns' = [aruns EXCEPT ![rec.run].known = TRUE,
                              ![rec.run].sawStart = TRUE,
                              ![rec.run].spec = Expected,
                              ![rec.run].start = Earliest({@, rec.time})]
    /\ alaunches' = IF rec.launch = NoLaunch \/ ~alaunches[rec.launch].known THEN alaunches
                    ELSE [alaunches EXCEPT ![rec.launch].pipelines = @ \union {rec.run}]

\* _ingest_pipeline_start: earliest time; the run is attached to its launch.
IngestPipelineStart(rec) ==
    /\ rec.kind = "start"
    /\ aruns' = [aruns EXCEPT ![rec.run].known = TRUE,
                              ![rec.run].sawStart = TRUE,
                              ![rec.run].spec = Expected,
                              ![rec.run].start = Earliest({@, rec.time})]
    /\ alaunches' = IF rec.launch = NoLaunch THEN alaunches
                    ELSE [alaunches EXCEPT ![rec.launch].known = TRUE,
                                           ![rec.launch].pipelines = @ \union {rec.run}]

EndNeedsStart(rec) ==                   \* mutant: the end of an unknown run is dropped
    /\ rec.kind = "end"
    /\ aruns' = IF aruns[rec.run].known
                THEN [aruns EXCEPT ![rec.run].sawEnd = TRUE,
                                   ![rec.run].end = Latest({@, rec.time})]
                ELSE aruns
    /\ UNCHANGED alaunches

\* _ingest_pipeline_end: latest time.
IngestPipelineEnd(rec) ==
    /\ rec.kind = "end"
    /\ aruns' = [aruns EXCEPT ![rec.run].known = TRUE,
                              ![rec.run].sawEnd = TRUE,
                              ![rec.run].end = Latest({@, rec.time})]
    /\ UNCHANGED alaunches

\* _ingest_ser: status and timing are those of the record ingested last.
IngestSer(rec) ==
    /\ rec.kind = "ser"
    /\ aruns' = [aruns EXCEPT ![rec.run].known = TRUE,
                              ![rec.run].nodes[rec.node] =
                                  [known |-> TRUE,
                                   first |-> Earliest({@.first, rec.time - 1}),
                                   last |-> Latest({@.last, rec.time - 1}),
                                   finished |-> rec.time,
                                   status |-> rec.status]]
    /\ UNCHANGED alaunches

\* _ingest_run_space_start
IngestLaunchStart(rec) ==
    /\ rec.kind = "launchStart"
    /\ alaunches' = [alaunches EXCEPT ![rec.launch].known = TRUE,
                                      ![rec.launch].sawStart = TRUE,
                                      ![rec.launch].planned = rec.planned]
    /\ UNCHANGED aruns

\* _ingest_run_space_end
IngestLaunchEnd(rec) ==
    /\ rec.kind = "launchEnd"
    /\ alaunches' = [alaunches EXCEPT ![rec.launch].known = TRUE,
                                      ![rec.launch].sawEnd = TRUE]
    /\ UNCHANGED aruns

\* ingest: one branch for each type of record.
Ingest(rec) ==
    /\ \/ IngestPipelineStart(rec) \/ IngestPipelineEnd(rec) \/ IngestSer(rec)
       \/ IngestLaunchStart(rec) \/ IngestLaunchEnd(rec)
    /\ seen' = seen \union {rec}

-----------------------------------------------------------------------------
(* Finalization *)

Known(r) == {n \in NodeIds : r.nodes[n].known}

SynthesizedSwapped(r) ==                \* mutant: the start of nodes is taken for their end
    IF r.start # NoTime /\ r.end # NoTime THEN r
    ELSE [r EXCEPT !.start = Earliest({@} \union {r.nodes[n].finished : n \in Known(r)}),
                   !.end = Latest({@} \union {r.nodes[n].first : n \in Known(r)})]

\* The times of a run without one of its lifecycle records are widened to
\* those of its nodes: both of them, also the one that is known.
Synthesized(r) ==
    IF r.start # NoTime /\ r.end # NoTime THEN r
    ELSE [r EXCEPT !.start = Earliest({@} \union {r.nodes[n].first : n \in Known(r)}
                                          \union {r.nodes[n].finished - 1 : n \in Known(r)}),
                   !.end = Latest({@} \union {r.nodes[n].last : n \in Known(r)}
                                      \union {r.nodes[n].finished : n \in Known(r)})]

\* finalize_run of a run that is known; for another one it changes nothing.
FinalizeRun(r) ==
    /\ aruns[r].known
    /\ aruns' = [aruns EXCEPT ![r] = Synthesized(@)]
    /\ UNCHANGED <<alaunches, seen>>

\* finalize_launch finalizes the runs that are attached.
FinalizeLaunch(k) ==
    /\ alaunches[k].known
    /\ aruns' = [r \in RunIds |-> IF r \in alaunches[k].pipelines
                                  THEN Synthesized(aruns[r]) ELSE aruns[r]]
    /\ UNCHANGED <<alaunches, seen>>

\* finalize_all
FinalizeAll ==
    /\ aruns' = [r \in RunIds |-> Synthesized(aruns[r])]
    /\ UNCHANGED <<alaunches, seen>>

\* The verdict of finalize_run, the run r having been synthesized.
StatusOf(r) == IF r.sawStart /\ r.sawEnd THEN "complete"
               ELSE IF r.sawStart \/ r.sawEnd THEN "partial"
               ELSE "invalid"

TimeProblem(r) == r.start # NoTime /\ r.end # NoTime /\ r.start > r.end

RunVerdict(run) ==
    LET r == Synthesized(run)
    IN  IF ~run.known THEN [status |-> "invalid", problems |-> {"unknown_run"},
                            missing |-> {}, orphan |-> {}, nonterminal |-> {}]
        ELSE [status |-> StatusOf(r),
              problems |-> (IF r.sawStart THEN {} ELSE {"missing_pipeline_start"})
                           \union (IF r.sawEnd THEN {} ELSE {"missing_pipeline_end"})
                           \union (IF TimeProblem(r) THEN {"start_time_gt_end_time"} ELSE {}),
              missing |-> IF r.spec = {} THEN {} ELSE r.spec \ Known(r),
              orphan |-> IF r.spec = {} THEN {} ELSE Known(r) \ r.spec,
              nonterminal |-> {n \in Known(r) : r.nodes[n].status \notin Terminal}]

\* The verdict of finalize_launch.
LaunchVerdict(k) ==
    LET l     == alaunches[k]
        stati == {RunVerdict(aruns[r]).status : r \in l.pipelines}
    IN  IF ~l.known THEN [status |-> "invalid", total |-> 0, planned |-> 0]
        ELSE [status |-> IF ~l.sawStart /\ l.pipelines # {} THEN "invalid"
                         ELSE IF l.sawStart /\ l.sawEnd
                         THEN IF stati \subseteq {"complete"} THEN "complete" ELSE "partial"
                         ELSE "partial",
              total |-> Cardinality(l.pipelines), planned |-> l.planned]

-----------------------------------------------------------------------------
(* Properties *)

SeenOf(r, kind) == {rec \in seen : rec.kind = kind /\ rec.run = r}
Attached(k) == {r \in RunIds : \E rec \in SeenOf(r, "start") : rec.launch = k}
HasEdges(r) == SeenOf(r, "start") # {} /\ SeenOf(r, "end") # {}
SeenNodes(r) == {rec.node : rec \in SeenOf(r, "ser")}

TypeOK ==
    /\ DOMAIN aruns = RunIds /\ DOMAIN alaunches = LaunchKeys
    /\ \A r \in RunIds : DOMAIN aruns[r].nodes = NodeIds /\ aruns[r].spec \in {{}, Expected}
    /\ \A k \in LaunchKeys : alaunches[k].pipelines \subseteq RunIds

RunVerdictExact(r) ==
    LET verdict  == RunVerdict(aruns[r])
        declared == IF SeenOf(r, "start") = {} THEN {} ELSE Expected
    IN  /\ verdict.status = (IF HasEdges(r) THEN "complete"
                             ELSE IF SeenOf(r, "start") \union SeenOf(r, "end") # {}
                             THEN "partial" ELSE "invalid")
        /\ verdict.missing = declared \ SeenNodes(r)
        /\ verdict.orphan = IF declared = {} THEN {} ELSE SeenNodes(r) \ declared

LaunchVerdictExact(k) ==
    /\ LaunchVerdict(k).status = "complete" <=>
         /\ \E rec \in seen : rec.kind = "launchStart" /\ rec.launch = k
         /\ \E rec \in seen : rec.kind = "launchEnd" /\ rec.launch = k
         /\ \A r \in Attached(k) : HasEdges(r)
    /\ LaunchVerdict(k).total = Cardinality(Attached(k))

(* "Merge a single Semantiva trace record, tolerating out-of-order inputs":  *)
(* a verdict depends on the set of records ingested, and not on their order, *)
(* their repetition, or on the verdicts asked for in between. A launch is    *)
(* complete exactly when its two edges were seen and every run whose start   *)
(* was seen has its end; planned runs that left no record do not count.      *)
VerdictsFollowRecords ==
    /\ \A r \in RunIds : RunVerdictExact(r)
    /\ \A k \in LaunchKeys : LaunchVerdictExact(k)

\* The times an aggregator would arrive at that is asked once, at the end.
Starts(r) == {rec.time : rec \in SeenOf(r, "start")}
Ends(r)   == {rec.time : rec \in SeenOf(r, "end")}
Work(r)   == {rec.time : rec \in SeenOf(r, "ser")}
AskedOnce(r) ==
    IF Starts(r) # {} /\ Ends(r) # {}
    THEN [start |-> Earliest(Starts(r)), end |-> Latest(Ends(r))]
    ELSE [start |-> Earliest(Starts(r) \union {t - 1 : t \in Work(r)}),
          end |-> Latest(Ends(r) \union Work(r))]

(* Asking for verdicts early writes to the aggregate, but it can only widen  *)
(* the times of a run: a run is never said to end before it starts when an   *)
(* aggregator asked only once would not say so, whatever the clock did.      *)
EarlyVerdictsNeverAccuse ==
    \A r \in RunIds : TimeProblem(Synthesized(aruns[r])) => TimeProblem(AskedOnce(r))
===============================================================================
