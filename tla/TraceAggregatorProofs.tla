------------------------- MODULE TraceAggregatorProofs -------------------------
(***************************************************************************)
(* What TraceAggregator makes of any stream of records, in any order, with *)
(* repetitions, and with verdicts asked for at any time: its tables say    *)
(* what the set of ingested records says, and early verdicts never make a  *)
(* run end before it starts. No bound on runs, nodes, launches or records. *)
(***************************************************************************)
EXTENDS TraceAggregator, FunctionTheorems, FiniteSetTheorems, WellFoundedInduction, TLAPS

RunKinds == {"start", "ser", "end"}
\* Those of the schema, "other" for a status that it does not have, "-" for none yet.
Stati == Terminal \union {"other", "-"}

\* A record that the code does not ignore. The clock of the records starts at 1.
RecordOk(rec) ==
    /\ rec.kind \in Kinds
    /\ rec.kind \in RunKinds => rec.run \in RunIds /\ rec.time \in Nat \ {0}
    /\ rec.kind = "ser" => rec.node \in NodeIds /\ rec.status \in Stati
    /\ rec.kind = "start" =>
         NoLaunch \notin LaunchKeys /\ rec.launch \in LaunchKeys \union {NoLaunch}
    /\ rec.kind \in {"launchStart", "launchEnd"} => rec.launch \in LaunchKeys

Finalize == \/ \E r \in RunIds : FinalizeRun(r)
            \/ \E k \in LaunchKeys : FinalizeLaunch(k)
            \/ FinalizeAll
AggNext == (\E rec : RecordOk(rec) /\ Ingest(rec)) \/ Finalize
AggSpec == InitAggregator /\ [][AggNext]_aggVars

\* The tables.
Times == Nat \union {NoTime}
NodeEntries == [known : BOOLEAN, first : Times, last : Times, finished : Times, status : Stati]
RunEntries == [known : BOOLEAN, sawStart : BOOLEAN, sawEnd : BOOLEAN, start : Times, end : Times,
               spec : {{}, Expected}, nodes : [NodeIds -> NodeEntries]]
LaunchEntries(records) ==
    [known : BOOLEAN, sawStart : BOOLEAN, sawEnd : BOOLEAN,
     planned : {0} \union {rec.planned : rec \in records}, pipelines : SUBSET RunIds]
TableOk == aruns \in [RunIds -> RunEntries] /\ alaunches \in [LaunchKeys -> LaunchEntries(seen)]
SeenOk == IsFiniteSet(seen) /\ \A rec \in seen : RecordOk(rec)

\* What the tables say of a run and of a launch is what the records say.
RunFollows(r) ==
    /\ aruns[r].known <=> \E rec \in seen : rec.kind \in RunKinds /\ rec.run = r
    /\ aruns[r].sawStart <=> SeenOf(r, "start") # {}
    /\ aruns[r].sawEnd <=> SeenOf(r, "end") # {}
    /\ aruns[r].spec = IF SeenOf(r, "start") = {} THEN {} ELSE Expected
    /\ \A n \in NodeIds : aruns[r].nodes[n].known <=> n \in SeenNodes(r)
LaunchFollows(k) ==
    /\ alaunches[k].known <=>
         \/ Attached(k) # {}
         \/ \E rec \in seen : rec.kind \in {"launchStart", "launchEnd"} /\ rec.launch = k
    /\ alaunches[k].sawStart <=> \E rec \in seen : rec.kind = "launchStart" /\ rec.launch = k
    /\ alaunches[k].sawEnd <=> \E rec \in seen : rec.kind = "launchEnd" /\ rec.launch = k
    /\ alaunches[k].pipelines = Attached(k)

\* The times of a run cover what was seen of it; without both of its edges they are
\* in order as soon as there are any that its records do not have.
NodeTimes(r) ==
    \A n \in NodeIds : r.nodes[n].known =>
        r.nodes[n].first \in Nat /\ r.nodes[n].finished \in Nat \ {0}
        /\ r.nodes[n].last \in Nat /\ r.nodes[n].first <= r.nodes[n].last
InOrder(r) == r.start \in Nat /\ r.end \in Nat /\ r.start <= r.end
RunTimes(r) ==
    /\ NodeTimes(aruns[r])
    /\ \A rec \in SeenOf(r, "start") : aruns[r].start \in Nat /\ aruns[r].start <= rec.time
    /\ \A rec \in SeenOf(r, "end") : aruns[r].end \in Nat /\ rec.time <= aruns[r].end
    /\ SeenOf(r, "start") = {} /\ aruns[r].start # NoTime => InOrder(aruns[r])
    /\ SeenOf(r, "end") = {} /\ aruns[r].end # NoTime => InOrder(aruns[r])

AggInv == /\ TableOk /\ SeenOk
          /\ \A r \in RunIds : RunFollows(r) /\ RunTimes(r)
          /\ \A k \in LaunchKeys : LaunchFollows(k)

-----------------------------------------------------------------------------
(* The earliest and the latest time of a finite set                        *)

\* No counterexample is least: without one of its elements it would still be one.
LEMMA HasLargest ==
    ASSUME NEW S \in SUBSET Int, IsFiniteSet(S), S # {}
    PROVE  \E t \in S : \A u \in S : u <= t
<1> DEFINE Bad == {T \in FiniteSubsetsOf(Int) : T # {} /\ ~ \E t \in T : \A u \in T : u <= t}
<1> SUFFICES ASSUME Bad # {} PROVE FALSE
  BY DEF FiniteSubsetsOf
<1>1. PICK T \in Bad : \A U \in Bad : <<U, T>> \notin StrictSubsetOrdering(Int)
  <2> HIDE DEF Bad
  <2>1. Bad \subseteq FiniteSubsetsOf(Int)
    BY DEF Bad
  <2> QED
    BY <2>1, FS_StrictSubsetOrderingWellFounded, WFMin
<1>2. T \in SUBSET Int /\ IsFiniteSet(T) /\ T # {} /\ ~ \E t \in T : \A u \in T : u <= t
  BY DEF FiniteSubsetsOf
<1>3. PICK x \in T : TRUE
  BY <1>2
<1> DEFINE U == T \ {x}
<1>4. U \notin Bad
  BY <1>1, <1>2 DEF StrictSubsetOrdering
<1>5. U \in FiniteSubsetsOf(Int)
  BY <1>2, FS_RemoveElement DEF FiniteSubsetsOf
<1>6. CASE U = {}
  <2>1. T = {x}
    BY <1>6
  <2> QED
    BY <1>2, <2>1
<1>7. CASE U # {}
  <2>1. PICK t \in U : \A u \in U : u <= t
    BY <1>4, <1>5, <1>7
  <2>2. x \in Int /\ t \in Int /\ t \in T /\ \A u \in T : u \in Int /\ (u = x \/ u \in U)
    BY <1>2
  <2>3. CASE x <= t
    BY <1>2, <2>1, <2>2, <2>3
  <2>4. CASE t <= x
    BY <1>2, <2>1, <2>2, <2>4
  <2> QED
    BY <2>2, <2>3, <2>4
<1> QED
  BY <1>6, <1>7

LEMMA HasSmallest ==
    ASSUME NEW S \in SUBSET Int, IsFiniteSet(S), S # {}
    PROVE  \E t \in S : \A u \in S : t <= u
<1> DEFINE T == {-s : s \in S} f == [s \in S |-> -s]
<1>1. f \in [S -> T] /\ \A t \in T : \E s \in S : f[s] = t
  OBVIOUS
<1>2. IsFiniteSet(T)
  <2> HIDE DEF f, T
  <2>1. f \in Surjection(S, T)
    BY <1>1, Fun_IsSurj
  <2> QED
    BY <2>1, FS_Surjection
<1>3. T \in SUBSET Int /\ T # {}
  <2>1. \A s \in S : s \in Int /\ -s \in Int
    OBVIOUS
  <2>2. T \subseteq Int
    BY <2>1
  <2>3. PICK s \in S : TRUE
    OBVIOUS
  <2>4. -s \in T
    OBVIOUS
  <2> QED
    BY <2>2, <2>4
<1>4. PICK m \in T : \A u \in T : u <= m
  BY <1>2, <1>3, HasLargest
<1>5. PICK t \in S : m = -t
  OBVIOUS
<1>6. \A u \in S : -u <= -t
  BY <1>4, <1>5
<1>7. \A u \in S : t <= u
  BY <1>6
<1> QED
  BY <1>7

LEMMA LatestIs ==
    ASSUME NEW S \in SUBSET Int, IsFiniteSet(S), S # {}
    PROVE  Latest(S) \in S /\ \A u \in S : u <= Latest(S)
<1>1. \E t \in S : \A u \in S : u <= t
  BY HasLargest
<1> QED
  BY <1>1, Zenon DEF Latest

LEMMA EarliestIs ==
    ASSUME NEW S \in SUBSET Int, IsFiniteSet(S), S \ {NoTime} # {}
    PROVE  /\ Earliest(S) \in S /\ Earliest(S) # NoTime
           /\ \A u \in S \ {NoTime} : Earliest(S) <= u
<1> DEFINE T == S \ {NoTime}
<1>1. T \in SUBSET Int /\ IsFiniteSet(T) /\ T # {}
  BY FS_RemoveElement
<1>2. \E t \in T : \A u \in T : t <= u
  <2> HIDE DEF T
  <2> QED
    BY <1>1, HasSmallest
<1>3. Earliest(S) = CHOOSE t \in T : \A u \in T : t <= u
  BY DEF Earliest
<1>4. Earliest(S) \in T /\ \A u \in T : Earliest(S) <= u
  <2> HIDE DEF T
  <2> QED
    BY <1>2, <1>3, Zenon
<1> QED
  BY <1>4

\* Two times, as the aggregator compares them.
LEMMA EarlierOfTwo ==
    ASSUME NEW a \in Times, NEW b \in Nat
    PROVE  /\ Earliest({a, b}) \in Nat /\ Earliest({a, b}) <= b
           /\ Earliest({a, b}) = b \/ (Earliest({a, b}) = a /\ a # NoTime)
           /\ a # NoTime => Earliest({a, b}) <= a
<1>1. {a, b} \in SUBSET Int /\ {a, b} \ {NoTime} # {} /\ b # NoTime
  BY DEF Times, NoTime
<1>2. IsFiniteSet({a, b})
  <2>1. IsFiniteSet({a} \union {b})
    BY FS_Singleton, FS_AddElement
  <2>2. {a} \union {b} = {a, b}
    OBVIOUS
  <2> QED
    BY <2>1, <2>2
<1>3. /\ Earliest({a, b}) \in {a, b} /\ Earliest({a, b}) # NoTime
      /\ \A u \in {a, b} \ {NoTime} : Earliest({a, b}) <= u
  BY <1>1, <1>2, EarliestIs
<1> QED
  BY <1>1, <1>3 DEF Times

LEMMA LaterOfTwo ==
    ASSUME NEW a \in Times, NEW b \in Nat
    PROVE  /\ Latest({a, b}) \in Nat /\ b <= Latest({a, b})
           /\ a # NoTime => a <= Latest({a, b})
<1>1. {a, b} \in SUBSET Int /\ {a, b} # {}
  BY DEF Times, NoTime
<1>2. IsFiniteSet({a, b})
  <2>1. IsFiniteSet({a} \union {b})
    BY FS_Singleton, FS_AddElement
  <2>2. {a} \union {b} = {a, b}
    OBVIOUS
  <2> QED
    BY <2>1, <2>2
<1>3. /\ Latest({a, b}) \in {a, b} /\ \A u \in {a, b} : u <= Latest({a, b})
  BY <1>1, <1>2, LatestIs
<1> QED
  BY <1>1, <1>3 DEF Times, NoTime

-----------------------------------------------------------------------------
(* Ingestion, record by record *)

LEMMA SeenStep ==
    ASSUME SeenOk, NEW rec, RecordOk(rec), Ingest(rec)
    PROVE  /\ SeenOk' /\ seen' = seen \union {rec}
           /\ \A r, kind : SeenOf(r, kind)' = SeenOf(r, kind)
                             \union (IF rec.kind = kind /\ rec.run = r THEN {rec} ELSE {})
<1>1. seen' = seen \union {rec}
  BY DEF Ingest
<1>2. SeenOk'
  BY <1>1, FS_AddElement DEF SeenOk
<1>3. \A r, kind : SeenOf(r, kind)' = {s \in seen' : s.kind = kind /\ s.run = r}
  BY DEF SeenOf
<1>4. ASSUME NEW r, NEW kind
      PROVE  {s \in seen' : s.kind = kind /\ s.run = r} = SeenOf(r, kind)
               \union (IF rec.kind = kind /\ rec.run = r THEN {rec} ELSE {})
  BY <1>1 DEF SeenOf
<1> QED
  BY <1>1, <1>2, <1>3, <1>4

\* What each kind of record does to the entry of its run.
LEMMA StartEntry ==
    ASSUME TableOk, NEW rec, RecordOk(rec), IngestPipelineStart(rec)
    PROVE  /\ rec.kind = "start" /\ rec.run \in RunIds /\ rec.time \in Nat
           /\ aruns' \in [RunIds -> RunEntries]
           /\ \A r \in RunIds : r # rec.run => aruns'[r] = aruns[r]
           /\ LET old == aruns[rec.run] new == aruns'[rec.run] IN
                /\ new.known /\ new.sawStart /\ new.sawEnd = old.sawEnd /\ new.spec = Expected
                /\ new.start = Earliest({old.start, rec.time}) /\ new.end = old.end
                /\ new.nodes = old.nodes
<1>1. rec.kind = "start" /\ rec.run \in RunIds /\ rec.time \in Nat
  BY DEF IngestPipelineStart, RecordOk, RunKinds
<1>2. aruns[rec.run] \in RunEntries
  BY <1>1 DEF TableOk
<1>3. Earliest({aruns[rec.run].start, rec.time}) \in Times
  BY <1>1, <1>2, EarlierOfTwo DEF RunEntries, Times
<1> DEFINE new == [aruns[rec.run] EXCEPT !.known = TRUE, !.sawStart = TRUE, !.spec = Expected,
                                         !.start = Earliest({aruns[rec.run].start, rec.time})]
<1>4. aruns' = [aruns EXCEPT ![rec.run] = new]
  BY <1>1, <1>2 DEF IngestPipelineStart, TableOk, RunEntries
<1>5. /\ new \in RunEntries
      /\ new.known /\ new.sawStart /\ new.sawEnd = aruns[rec.run].sawEnd /\ new.spec = Expected
      /\ new.start = Earliest({aruns[rec.run].start, rec.time}) /\ new.end = aruns[rec.run].end
      /\ new.nodes = aruns[rec.run].nodes
  BY <1>2, <1>3 DEF RunEntries
<1> HIDE DEF new
<1> QED
  BY <1>1, <1>4, <1>5 DEF TableOk

LEMMA EndEntry ==
    ASSUME TableOk, NEW rec, RecordOk(rec), IngestPipelineEnd(rec)
    PROVE  /\ rec.kind = "end" /\ rec.run \in RunIds /\ rec.time \in Nat
           /\ aruns' \in [RunIds -> RunEntries]
           /\ \A r \in RunIds : r # rec.run => aruns'[r] = aruns[r]
           /\ LET old == aruns[rec.run] new == aruns'[rec.run] IN
                /\ new.known /\ new.sawStart = old.sawStart /\ new.sawEnd /\ new.spec = old.spec
                /\ new.start = old.start /\ new.end = Latest({old.end, rec.time})
                /\ new.nodes = old.nodes
<1>1. rec.kind = "end" /\ rec.run \in RunIds /\ rec.time \in Nat
  BY DEF IngestPipelineEnd, RecordOk, RunKinds
<1>2. aruns[rec.run] \in RunEntries
  BY <1>1 DEF TableOk
<1>3. Latest({aruns[rec.run].end, rec.time}) \in Times
  BY <1>1, <1>2, LaterOfTwo DEF RunEntries, Times
<1> DEFINE new == [aruns[rec.run] EXCEPT !.known = TRUE, !.sawEnd = TRUE,
                                         !.end = Latest({aruns[rec.run].end, rec.time})]
<1>4. aruns' = [aruns EXCEPT ![rec.run] = new]
  BY <1>1, <1>2 DEF IngestPipelineEnd, TableOk, RunEntries
<1>5. /\ new \in RunEntries
      /\ new.known /\ new.sawStart = aruns[rec.run].sawStart /\ new.sawEnd
      /\ new.spec = aruns[rec.run].spec
      /\ new.start = aruns[rec.run].start /\ new.end = Latest({aruns[rec.run].end, rec.time})
      /\ new.nodes = aruns[rec.run].nodes
  BY <1>2, <1>3 DEF RunEntries
<1> HIDE DEF new
<1> QED
  BY <1>1, <1>4, <1>5 DEF TableOk

LEMMA SerEntry ==
    ASSUME TableOk, NEW rec, RecordOk(rec), IngestSer(rec)
    PROVE  /\ rec.kind = "ser" /\ rec.run \in RunIds /\ rec.node \in NodeIds
           /\ aruns' \in [RunIds -> RunEntries]
           /\ \A r \in RunIds : r # rec.run => aruns'[r] = aruns[r]
           /\ LET old == aruns[rec.run] new == aruns'[rec.run] IN
                /\ new.known /\ new.sawStart = old.sawStart /\ new.sawEnd = old.sawEnd
                /\ new.spec = old.spec /\ new.start = old.start /\ new.end = old.end
                /\ \A n \in NodeIds : n # rec.node => new.nodes[n] = old.nodes[n]
                /\ new.nodes[rec.node].known
                /\ new.nodes[rec.node].first \in Nat /\ new.nodes[rec.node].last \in Nat
                /\ new.nodes[rec.node].first <= new.nodes[rec.node].last
                /\ new.nodes[rec.node].finished \in Nat \ {0}
<1>1. rec.kind = "ser" /\ rec.run \in RunIds /\ rec.node \in NodeIds /\ rec.time \in Nat \ {0}
      /\ rec.status \in Stati /\ rec.time - 1 \in Nat
  BY DEF IngestSer, RecordOk, RunKinds
<1> DEFINE old == aruns[rec.run]
           node == [known |-> TRUE,
                    first |-> Earliest({old.nodes[rec.node].first, rec.time - 1}),
                    last |-> Latest({old.nodes[rec.node].last, rec.time - 1}),
                    finished |-> rec.time, status |-> rec.status]
           new == [old EXCEPT !.known = TRUE, !.nodes[rec.node] = node]
<1>2. old \in RunEntries /\ old.nodes \in [NodeIds -> NodeEntries]
  BY <1>1 DEF TableOk, RunEntries
<1>3. old.nodes[rec.node] \in NodeEntries
  BY <1>1, <1>2
<1>4. /\ node.first \in Nat /\ node.last \in Nat /\ node.first <= node.last
      /\ node.finished \in Nat \ {0} /\ node.known
  <2>1. old.nodes[rec.node].first \in Times /\ old.nodes[rec.node].last \in Times
    BY <1>3 DEF NodeEntries
  <2>2. /\ node.first \in Nat /\ node.first <= rec.time - 1
        /\ node.last \in Nat /\ rec.time - 1 <= node.last
    BY <1>1, <2>1, EarlierOfTwo, LaterOfTwo
  <2>3. node.finished = rec.time /\ node.known
    OBVIOUS
  <2> HIDE DEF node
  <2> QED
    BY <1>1, <2>2, <2>3
<1>5. node \in NodeEntries
  BY <1>1, <1>4 DEF NodeEntries, Times
<1>6. aruns' = [aruns EXCEPT ![rec.run] = new]
  BY <1>1, <1>2 DEF IngestSer, TableOk, RunEntries, NodeEntries
<1> HIDE DEF node
<1>7. /\ new \in RunEntries
      /\ new.known /\ new.sawStart = old.sawStart /\ new.sawEnd = old.sawEnd
      /\ new.spec = old.spec /\ new.start = old.start /\ new.end = old.end
      /\ new.nodes = [old.nodes EXCEPT ![rec.node] = node]
  BY <1>1, <1>2, <1>5 DEF RunEntries
<1>8. new.nodes[rec.node] = node /\ \A n \in NodeIds : n # rec.node => new.nodes[n] = old.nodes[n]
  BY <1>1, <1>2, <1>7
<1> HIDE DEF new
<1>9. /\ aruns' \in [RunIds -> RunEntries] /\ aruns'[rec.run] = new
      /\ \A r \in RunIds : r # rec.run => aruns'[r] = aruns[r]
  BY <1>1, <1>6, <1>7 DEF TableOk
<1> QED
  BY <1>1, <1>4, <1>7, <1>8, <1>9

LEMMA MoreEntries ==
    ASSUME TableOk, NEW rec
    PROVE  alaunches \in [LaunchKeys -> LaunchEntries(seen \union {rec})]
<1>1. ASSUME NEW k \in LaunchKeys PROVE alaunches[k] \in LaunchEntries(seen \union {rec})
  <2>1. alaunches[k] \in LaunchEntries(seen)
    BY DEF TableOk
  <2> QED
    BY <2>1 DEF LaunchEntries
<1> QED
  BY <1>1 DEF TableOk

\* What each kind of record does to the entry of its launch.
LEMMA AttachEntry ==
    ASSUME TableOk, NEW rec, RecordOk(rec), IngestPipelineStart(rec)
    PROVE  /\ alaunches' \in [LaunchKeys -> LaunchEntries(seen \union {rec})]
           /\ \A k \in LaunchKeys : k # rec.launch => alaunches'[k] = alaunches[k]
           /\ rec.launch \in LaunchKeys =>
                LET old == alaunches[rec.launch] new == alaunches'[rec.launch] IN
                /\ new.known /\ new.sawStart = old.sawStart /\ new.sawEnd = old.sawEnd
                /\ new.pipelines = old.pipelines \union {rec.run}
<1>1. rec.run \in RunIds /\ NoLaunch \notin LaunchKeys /\ rec.launch \in LaunchKeys \union {NoLaunch}
  BY DEF IngestPipelineStart, RecordOk, RunKinds
<1>2. CASE rec.launch = NoLaunch
  BY <1>1, <1>2, MoreEntries DEF IngestPipelineStart
<1>3. CASE rec.launch \in LaunchKeys
  <2> DEFINE old == alaunches[rec.launch]
             new == [old EXCEPT !.known = TRUE, !.pipelines = old.pipelines \union {rec.run}]
  <2>1. old \in LaunchEntries(seen)
    BY <1>3 DEF TableOk
  <2>2. alaunches' = [alaunches EXCEPT ![rec.launch] = new]
    BY <1>1, <1>3, <2>1 DEF IngestPipelineStart, TableOk, LaunchEntries
  <2>3. /\ new \in LaunchEntries(seen \union {rec})
        /\ new.known /\ new.sawStart = old.sawStart /\ new.sawEnd = old.sawEnd
        /\ new.pipelines = old.pipelines \union {rec.run}
    BY <1>1, <2>1 DEF LaunchEntries
  <2> HIDE DEF new
  <2> QED
    BY <1>3, <2>2, <2>3, MoreEntries
<1> QED
  BY <1>1, <1>2, <1>3

LEMMA LaunchStartEntry ==
    ASSUME TableOk, NEW rec, RecordOk(rec), IngestLaunchStart(rec)
    PROVE  /\ rec.kind = "launchStart" /\ rec.launch \in LaunchKeys /\ aruns' = aruns
           /\ alaunches' \in [LaunchKeys -> LaunchEntries(seen \union {rec})]
           /\ \A k \in LaunchKeys : k # rec.launch => alaunches'[k] = alaunches[k]
           /\ LET old == alaunches[rec.launch] new == alaunches'[rec.launch] IN
                /\ new.known /\ new.sawStart /\ new.sawEnd = old.sawEnd
                /\ new.pipelines = old.pipelines
<1>1. rec.kind = "launchStart" /\ rec.launch \in LaunchKeys /\ aruns' = aruns
  BY DEF IngestLaunchStart, RecordOk
<1> DEFINE old == alaunches[rec.launch]
           new == [old EXCEPT !.known = TRUE, !.sawStart = TRUE, !.planned = rec.planned]
<1>2. old \in LaunchEntries(seen)
  BY <1>1 DEF TableOk
<1>3. alaunches' = [alaunches EXCEPT ![rec.launch] = new]
  BY <1>1, <1>2 DEF IngestLaunchStart, TableOk, LaunchEntries
<1>4. /\ new \in LaunchEntries(seen \union {rec})
      /\ new.known /\ new.sawStart /\ new.sawEnd = old.sawEnd /\ new.pipelines = old.pipelines
  BY <1>1, <1>2 DEF LaunchEntries
<1> HIDE DEF new
<1> QED
  BY <1>1, <1>3, <1>4, MoreEntries

LEMMA LaunchEndEntry ==
    ASSUME TableOk, NEW rec, RecordOk(rec), IngestLaunchEnd(rec)
    PROVE  /\ rec.kind = "launchEnd" /\ rec.launch \in LaunchKeys /\ aruns' = aruns
           /\ alaunches' \in [LaunchKeys -> LaunchEntries(seen \union {rec})]
           /\ \A k \in LaunchKeys : k # rec.launch => alaunches'[k] = alaunches[k]
           /\ LET old == alaunches[rec.launch] new == alaunches'[rec.launch] IN
                /\ new.known /\ new.sawStart = old.sawStart /\ new.sawEnd
                /\ new.pipelines = old.pipelines
<1>1. rec.kind = "launchEnd" /\ rec.launch \in LaunchKeys /\ aruns' = aruns
  BY DEF IngestLaunchEnd, RecordOk
<1> DEFINE old == alaunches[rec.launch]
           new == [old EXCEPT !.known = TRUE, !.sawEnd = TRUE]
<1>2. old \in LaunchEntries(seen)
  BY <1>1 DEF TableOk
<1>3. alaunches' = [alaunches EXCEPT ![rec.launch] = new]
  BY <1>1, <1>2 DEF IngestLaunchEnd, TableOk, LaunchEntries
<1>4. /\ new \in LaunchEntries(seen \union {rec})
      /\ new.known /\ new.sawStart = old.sawStart /\ new.sawEnd /\ new.pipelines = old.pipelines
  BY <1>1, <1>2 DEF LaunchEntries
<1> HIDE DEF new
<1> QED
  BY <1>1, <1>3, <1>4, MoreEntries

-----------------------------------------------------------------------------
(* The tables after a record *)

LEMMA IngestRun ==
    ASSUME AggInv, NEW rec, RecordOk(rec), Ingest(rec), NEW r \in RunIds
    PROVE  RunFollows(r)'
<1>1. TableOk /\ RunFollows(r) /\ SeenOk
  BY DEF AggInv
<1>2. /\ seen' = seen \union {rec}
      /\ \A kind : SeenOf(r, kind)' = SeenOf(r, kind)
           \union (IF rec.kind = kind /\ rec.run = r THEN {rec} ELSE {})
  BY <1>1, SeenStep
<1>3. /\ (\E s \in seen' : s.kind \in RunKinds /\ s.run = r)
           <=> (\E s \in seen : s.kind \in RunKinds /\ s.run = r) \/ (rec.kind \in RunKinds /\ rec.run = r)
      /\ SeenOf(r, "start")' # {} <=> SeenOf(r, "start") # {} \/ (rec.kind = "start" /\ rec.run = r)
      /\ SeenOf(r, "end")' # {} <=> SeenOf(r, "end") # {} \/ (rec.kind = "end" /\ rec.run = r)
      /\ \A n : n \in SeenNodes(r)' <=>
            n \in SeenNodes(r) \/ (rec.kind = "ser" /\ rec.run = r /\ rec.node = n)
  <2>1. (\E s \in seen' : s.kind \in RunKinds /\ s.run = r)
           <=> (\E s \in seen : s.kind \in RunKinds /\ s.run = r) \/ (rec.kind \in RunKinds /\ rec.run = r)
    BY <1>2
  <2>2. \A kind : SeenOf(r, kind)' # {} <=> SeenOf(r, kind) # {} \/ (rec.kind = kind /\ rec.run = r)
    BY <1>2
  <2>3. \A n : n \in SeenNodes(r)' <=>
            n \in SeenNodes(r) \/ (rec.kind = "ser" /\ rec.run = r /\ rec.node = n)
    BY <1>2 DEF SeenNodes
  <2> QED
    BY <2>1, <2>2, <2>3
<1>4. aruns'[r] = aruns[r] /\ ~(rec.kind \in RunKinds /\ rec.run = r) => RunFollows(r)'
  BY <1>1, <1>3 DEF RunFollows, RunKinds
<1>5. CASE IngestPipelineStart(rec)
  <2>1. CASE rec.run = r
    BY <1>1, <1>3, <1>5, <2>1, StartEntry DEF RunFollows, RunKinds
  <2> QED
    BY <1>1, <1>4, <1>5, <2>1, StartEntry
<1>6. CASE IngestPipelineEnd(rec)
  <2>1. CASE rec.run = r
    BY <1>1, <1>3, <1>6, <2>1, EndEntry DEF RunFollows, RunKinds
  <2> QED
    BY <1>1, <1>4, <1>6, <2>1, EndEntry
<1>7. CASE IngestSer(rec)
  <2>1. CASE rec.run = r
    <3>1. /\ rec.kind = "ser"
          /\ LET old == aruns[r] new == aruns'[r] IN
               /\ new.known /\ new.sawStart = old.sawStart /\ new.sawEnd = old.sawEnd
               /\ new.spec = old.spec
               /\ \A n \in NodeIds : n # rec.node => new.nodes[n] = old.nodes[n]
               /\ new.nodes[rec.node].known
      BY <1>1, <1>7, <2>1, SerEntry
    <3>2. \A n \in NodeIds : aruns'[r].nodes[n].known <=> n \in SeenNodes(r)'
      <4> SUFFICES ASSUME NEW n \in NodeIds
                   PROVE  aruns'[r].nodes[n].known <=> n \in SeenNodes(r)'
        OBVIOUS
      <4>1. CASE n = rec.node
        BY <1>3, <2>1, <3>1, <4>1
      <4>2. CASE n # rec.node
        BY <1>1, <1>3, <3>1, <4>2 DEF RunFollows
      <4> QED
        BY <4>1, <4>2
    <3> QED
      BY <1>1, <1>3, <2>1, <3>1, <3>2 DEF RunFollows, RunKinds
  <2> QED
    BY <1>1, <1>4, <1>7, <2>1, SerEntry
<1>8. CASE IngestLaunchStart(rec) \/ IngestLaunchEnd(rec)
  BY <1>1, <1>4, <1>8, LaunchStartEntry, LaunchEndEntry DEF RunKinds
<1> QED
  BY <1>5, <1>6, <1>7, <1>8 DEF Ingest

LEMMA IngestLaunch ==
    ASSUME AggInv, NEW rec, RecordOk(rec), Ingest(rec), NEW k \in LaunchKeys
    PROVE  LaunchFollows(k)'
<1>1. TableOk /\ LaunchFollows(k) /\ SeenOk
  BY DEF AggInv
<1>2. /\ seen' = seen \union {rec}
      /\ \A r, kind : SeenOf(r, kind)' = SeenOf(r, kind)
           \union (IF rec.kind = kind /\ rec.run = r THEN {rec} ELSE {})
  BY <1>1, SeenStep
<1> DEFINE Has(kinds) == \E s \in seen : s.kind \in kinds /\ s.launch = k
           Is(kinds) == rec.kind \in kinds /\ rec.launch = k
<1>3. \A kinds : (\E s \in seen' : s.kind \in kinds /\ s.launch = k) <=> Has(kinds) \/ Is(kinds)
  BY <1>2
<1>4. Attached(k)' = Attached(k)
        \union (IF rec.kind = "start" /\ rec.launch = k /\ rec.run \in RunIds THEN {rec.run} ELSE {})
  BY <1>2 DEF Attached
<1>5. Is({"launchStart"}) \/ Is({"launchEnd"}) <=> Is({"launchStart", "launchEnd"})
  OBVIOUS
<1> DEFINE Follows(entry, runs) ==
             /\ entry.known <=> runs # {} \/ Has({"launchStart", "launchEnd"}) \/ Is({"launchStart", "launchEnd"})
             /\ entry.sawStart <=> Has({"launchStart"}) \/ Is({"launchStart"})
             /\ entry.sawEnd <=> Has({"launchEnd"}) \/ Is({"launchEnd"})
             /\ entry.pipelines = runs
<1>6. ASSUME Follows(alaunches'[k], Attached(k)') PROVE LaunchFollows(k)'
  <2>1. (\E s \in seen' : s.kind \in {"launchStart", "launchEnd"} /\ s.launch = k)
          <=> Has({"launchStart", "launchEnd"}) \/ Is({"launchStart", "launchEnd"})
    BY <1>3
  <2>2. (\E s \in seen' : s.kind = "launchStart" /\ s.launch = k)
          <=> Has({"launchStart"}) \/ Is({"launchStart"})
    BY <1>2
  <2>3. (\E s \in seen' : s.kind = "launchEnd" /\ s.launch = k)
          <=> Has({"launchEnd"}) \/ Is({"launchEnd"})
    BY <1>2
  <2> HIDE DEF Has, Is
  <2> QED
    BY <1>6, <2>1, <2>2, <2>3 DEF LaunchFollows
<1>7. /\ alaunches[k].known <=> Attached(k) # {} \/ Has({"launchStart", "launchEnd"})
      /\ alaunches[k].sawStart <=> Has({"launchStart"})
      /\ alaunches[k].sawEnd <=> Has({"launchEnd"})
      /\ alaunches[k].pipelines = Attached(k)
  BY <1>1 DEF LaunchFollows
<1>8. CASE IngestPipelineStart(rec)
  <2>1. rec.kind = "start" /\ rec.run \in RunIds
    BY <1>1, <1>8, StartEntry
  <2>2. ~Is({"launchStart"}) /\ ~Is({"launchEnd"})
    BY <2>1
  <2>3. CASE rec.launch = k
    BY <1>1, <1>4, <1>5, <1>6, <1>7, <1>8, <2>1, <2>2, <2>3, AttachEntry
  <2>4. CASE rec.launch # k
    <3>1. alaunches'[k] = alaunches[k]
      BY <1>1, <1>8, <2>1, <2>4, AttachEntry
    <3>2. Attached(k)' = Attached(k)
      BY <1>4, <2>4
    <3> QED
      BY <1>5, <1>6, <1>7, <2>2, <3>1, <3>2
  <2> QED
    BY <2>3, <2>4
<1>9. CASE IngestPipelineEnd(rec) \/ IngestSer(rec)
  <2>1. alaunches' = alaunches /\ rec.kind \in {"end", "ser"}
    BY <1>9 DEF IngestPipelineEnd, IngestSer
  <2>2. ~Is({"launchStart"}) /\ ~Is({"launchEnd"})
    BY <2>1
  <2> QED
    BY <1>4, <1>5, <1>6, <1>7, <2>1, <2>2
<1>10. CASE IngestLaunchStart(rec)
  <2>1. rec.kind = "launchStart" /\ Attached(k)' = Attached(k) /\ ~Is({"launchEnd"})
    BY <1>1, <1>4, <1>10, LaunchStartEntry
  <2>2. CASE rec.launch = k
    BY <1>1, <1>5, <1>6, <1>7, <1>10, <2>1, <2>2, LaunchStartEntry
  <2>3. CASE rec.launch # k
    BY <1>1, <1>5, <1>6, <1>7, <1>10, <2>1, <2>3, LaunchStartEntry
  <2> QED
    BY <2>2, <2>3
<1>11. CASE IngestLaunchEnd(rec)
  <2>1. rec.kind = "launchEnd" /\ Attached(k)' = Attached(k) /\ ~Is({"launchStart"})
    BY <1>1, <1>4, <1>11, LaunchEndEntry
  <2>2. CASE rec.launch = k
    BY <1>1, <1>5, <1>6, <1>7, <1>11, <2>1, <2>2, LaunchEndEntry
  <2>3. CASE rec.launch # k
    BY <1>1, <1>5, <1>6, <1>7, <1>11, <2>1, <2>3, LaunchEndEntry
  <2> QED
    BY <2>2, <2>3
<1> QED
  BY <1>8, <1>9, <1>10, <1>11 DEF Ingest

LEMMA IngestTimes ==
    ASSUME AggInv, NEW rec, RecordOk(rec), Ingest(rec), NEW r \in RunIds
    PROVE  RunTimes(r)'
<1>1. TableOk /\ RunTimes(r) /\ SeenOk /\ aruns[r].start \in Times /\ aruns[r].end \in Times
  BY DEF AggInv, TableOk, RunEntries
<1>2. /\ rec.kind = "start" /\ rec.run = r =>
           SeenOf(r, "start")' = SeenOf(r, "start") \union {rec}
      /\ ~(rec.kind = "start" /\ rec.run = r) => SeenOf(r, "start")' = SeenOf(r, "start")
      /\ rec.kind = "end" /\ rec.run = r =>
           SeenOf(r, "end")' = SeenOf(r, "end") \union {rec}
      /\ ~(rec.kind = "end" /\ rec.run = r) => SeenOf(r, "end")' = SeenOf(r, "end")
  BY <1>1, SeenStep DEF SeenOf
<1>3. \A kind \in RunKinds : \A s \in SeenOf(r, kind) : s.time \in Nat
  BY <1>1 DEF SeenOk, SeenOf, RecordOk, RunKinds
<1>4. aruns'[r] = aruns[r] /\ ~(rec.kind \in RunKinds /\ rec.run = r) => RunTimes(r)'
  BY <1>1, <1>2 DEF RunTimes, InOrder, NodeTimes, RunKinds
<1>5. CASE IngestPipelineStart(rec)
  <2>1. CASE rec.run = r
    <3>1. /\ rec.kind = "start" /\ rec.time \in Nat
          /\ aruns'[r].start = Earliest({aruns[r].start, rec.time})
          /\ aruns'[r].end = aruns[r].end /\ aruns'[r].nodes = aruns[r].nodes
      BY <1>1, <1>5, <2>1, StartEntry
    <3>2. /\ aruns'[r].start \in Nat /\ aruns'[r].start <= rec.time
          /\ aruns[r].start # NoTime => aruns'[r].start <= aruns[r].start
      BY <1>1, <3>1, EarlierOfTwo
    <3>3. NodeTimes(aruns'[r])
      BY <1>1, <3>1 DEF RunTimes, NodeTimes
    <3>4. SeenOf(r, "start")' = SeenOf(r, "start") \union {rec} /\ SeenOf(r, "end")' = SeenOf(r, "end")
      BY <1>2, <2>1, <3>1
    <3>5. ASSUME NEW s \in SeenOf(r, "start")' PROVE aruns'[r].start <= s.time
      <4>1. CASE s = rec
        BY <3>2, <4>1
      <4>2. CASE s \in SeenOf(r, "start")
        <5>1. aruns[r].start \in Nat /\ aruns[r].start <= s.time /\ s.time \in Nat
          BY <1>1, <1>3, <4>2 DEF RunTimes, RunKinds
        <5> QED
          BY <3>2, <5>1 DEF NoTime
      <4> QED
        BY <3>4, <4>1, <4>2
    <3>6. \A s \in SeenOf(r, "end")' : aruns'[r].end \in Nat /\ s.time <= aruns'[r].end
      BY <1>1, <3>1, <3>4 DEF RunTimes
    <3>7. SeenOf(r, "end")' = {} /\ aruns'[r].end # NoTime => InOrder(aruns'[r])
      BY <1>1, <3>1, <3>2, <3>4 DEF RunTimes, InOrder, NoTime
    <3> QED
      BY <3>2, <3>3, <3>4, <3>5, <3>6, <3>7 DEF RunTimes, InOrder, NodeTimes
  <2> QED
    BY <1>1, <1>4, <1>5, <2>1, StartEntry
<1>6. CASE IngestPipelineEnd(rec)
  <2>1. CASE rec.run = r
    <3>1. /\ rec.kind = "end" /\ rec.time \in Nat
          /\ aruns'[r].end = Latest({aruns[r].end, rec.time})
          /\ aruns'[r].start = aruns[r].start /\ aruns'[r].nodes = aruns[r].nodes
      BY <1>1, <1>6, <2>1, EndEntry
    <3>2. /\ aruns'[r].end \in Nat /\ rec.time <= aruns'[r].end
          /\ aruns[r].end # NoTime => aruns[r].end <= aruns'[r].end
      BY <1>1, <3>1, LaterOfTwo
    <3>3. NodeTimes(aruns'[r])
      BY <1>1, <3>1 DEF RunTimes, NodeTimes
    <3>4. SeenOf(r, "end")' = SeenOf(r, "end") \union {rec} /\ SeenOf(r, "start")' = SeenOf(r, "start")
      BY <1>2, <2>1, <3>1
    <3>5. ASSUME NEW s \in SeenOf(r, "end")' PROVE s.time <= aruns'[r].end
      <4>1. CASE s = rec
        BY <3>2, <4>1
      <4>2. CASE s \in SeenOf(r, "end")
        <5>1. aruns[r].end \in Nat /\ s.time <= aruns[r].end /\ s.time \in Nat
          BY <1>1, <1>3, <4>2 DEF RunTimes, RunKinds
        <5> QED
          BY <3>2, <5>1 DEF NoTime
      <4> QED
        BY <3>4, <4>1, <4>2
    <3>6. \A s \in SeenOf(r, "start")' : aruns'[r].start \in Nat /\ aruns'[r].start <= s.time
      BY <1>1, <3>1, <3>4 DEF RunTimes
    <3>7. SeenOf(r, "start")' = {} /\ aruns'[r].start # NoTime => InOrder(aruns'[r])
      BY <1>1, <3>1, <3>2, <3>4 DEF RunTimes, InOrder, NoTime
    <3> QED
      BY <3>2, <3>3, <3>4, <3>5, <3>6, <3>7 DEF RunTimes, InOrder, NodeTimes
  <2> QED
    BY <1>1, <1>4, <1>6, <2>1, EndEntry
<1>7. CASE IngestSer(rec)
  <2>1. CASE rec.run = r
    <3>1. /\ rec.kind = "ser" /\ rec.node \in NodeIds
          /\ LET old == aruns[r] new == aruns'[r] IN
               /\ new.start = old.start /\ new.end = old.end
               /\ \A n \in NodeIds : n # rec.node => new.nodes[n] = old.nodes[n]
               /\ new.nodes[rec.node].first \in Nat /\ new.nodes[rec.node].last \in Nat
               /\ new.nodes[rec.node].first <= new.nodes[rec.node].last
               /\ new.nodes[rec.node].finished \in Nat \ {0}
      BY <1>1, <1>7, <2>1, SerEntry
    <3>2. NodeTimes(aruns'[r])
      BY <1>1, <3>1 DEF RunTimes, NodeTimes
    <3>3. SeenOf(r, "end")' = SeenOf(r, "end") /\ SeenOf(r, "start")' = SeenOf(r, "start")
      BY <1>2, <3>1
    <3> QED
      BY <1>1, <3>1, <3>2, <3>3 DEF RunTimes, InOrder, NodeTimes
  <2> QED
    BY <1>1, <1>4, <1>7, <2>1, SerEntry
<1>8. CASE IngestLaunchStart(rec) \/ IngestLaunchEnd(rec)
  BY <1>1, <1>4, <1>8, LaunchStartEntry, LaunchEndEntry DEF RunKinds
<1> QED
  BY <1>5, <1>6, <1>7, <1>8 DEF Ingest

LEMMA IngestStep ==
    ASSUME AggInv, NEW rec, RecordOk(rec), Ingest(rec)
    PROVE  AggInv'
<1>1. TableOk /\ SeenOk
  BY DEF AggInv
<1>2. TableOk'
  <2> USE SeenStep
  <2>1. CASE IngestPipelineStart(rec)
    BY <1>1, <2>1, StartEntry, AttachEntry DEF TableOk
  <2>2. CASE IngestPipelineEnd(rec)
    BY <1>1, <2>2, EndEntry, MoreEntries DEF TableOk, IngestPipelineEnd
  <2>3. CASE IngestSer(rec)
    BY <1>1, <2>3, SerEntry, MoreEntries DEF TableOk, IngestSer
  <2>4. CASE IngestLaunchStart(rec) \/ IngestLaunchEnd(rec)
    BY <1>1, <2>4, LaunchStartEntry, LaunchEndEntry DEF TableOk
  <2> QED
    BY <2>1, <2>2, <2>3, <2>4 DEF Ingest
<1>3. SeenOk'
  BY <1>1, SeenStep
<1> QED
  BY <1>2, <1>3, IngestRun, IngestTimes, IngestLaunch DEF AggInv

-----------------------------------------------------------------------------
(* Verdicts, and what asking for them writes *)

LEMMA FiniteImage ==
    ASSUME NEW K, IsFiniteSet(K), NEW f, f = [n \in K |-> f[n]]
    PROVE  IsFiniteSet({f[n] : n \in K})
<1> DEFINE T == {f[n] : n \in K}
<1>1. f \in [K -> T] /\ \A t \in T : \E n \in K : f[n] = t
  OBVIOUS
<1> HIDE DEF T
<1>2. f \in Surjection(K, T)
  BY <1>1, Fun_IsSurj
<1>3. IsFiniteSet(T)
  BY <1>2, FS_Surjection
<1> QED
  BY <1>3 DEF T

LEMMA KnownFinite ==
    ASSUME AggInv, NEW r \in RunIds
    PROVE  IsFiniteSet(Known(aruns[r])) /\ Known(aruns[r]) = SeenNodes(r)
<1> DEFINE S == SeenOf(r, "ser") f == [rec \in S |-> rec.node]
<1>1. IsFiniteSet(S)
  BY FS_Subset DEF AggInv, SeenOk, SeenOf
<1>2. IsFiniteSet({f[rec] : rec \in S})
  <2>1. f = [rec \in S |-> f[rec]]
    OBVIOUS
  <2> HIDE DEF f, S
  <2> QED
    BY <1>1, <2>1, FiniteImage
<1>3. SeenNodes(r) = {f[rec] : rec \in S}
  BY DEF SeenNodes
<1>4. SeenNodes(r) \subseteq NodeIds
  BY DEF AggInv, SeenOk, SeenNodes, SeenOf, RecordOk
<1>5. Known(aruns[r]) = SeenNodes(r)
  BY <1>4 DEF Known, AggInv, RunFollows
<1> QED
  BY <1>2, <1>3, <1>5

\* The times that are widened, over the nodes that are known.
LEMMA Widened ==
    ASSUME NEW r \in RunEntries, NodeTimes(r), IsFiniteSet(Known(r)), Known(r) # {}
    PROVE  LET starts == {r.start} \union {r.nodes[n].first : n \in Known(r)}
                                   \union {r.nodes[n].finished - 1 : n \in Known(r)}
               ends == {r.end} \union {r.nodes[n].last : n \in Known(r)}
                               \union {r.nodes[n].finished : n \in Known(r)}
           IN  /\ Earliest(starts) \in Nat /\ Latest(ends) \in Nat
               /\ Earliest(starts) <= Latest(ends)
               /\ r.start # NoTime => Earliest(starts) <= r.start
               /\ r.end # NoTime => r.end <= Latest(ends)
<1> DEFINE K == Known(r)
           F1 == {r.nodes[n].first : n \in K} F2 == {r.nodes[n].finished - 1 : n \in K}
           L1 == {r.nodes[n].last : n \in K} L2 == {r.nodes[n].finished : n \in K}
           starts == {r.start} \union F1 \union F2
           ends == {r.end} \union L1 \union L2
<1>1. \A n \in K : /\ r.nodes[n].first \in Nat /\ r.nodes[n].finished \in Nat
                   /\ r.nodes[n].finished - 1 \in Nat
                   /\ r.nodes[n].last \in Nat /\ r.nodes[n].first <= r.nodes[n].last
  BY DEF NodeTimes, Known
<1>2. r.start \in Times /\ r.end \in Times
  BY DEF RunEntries
<1>3. IsFiniteSet(F1) /\ IsFiniteSet(F2) /\ IsFiniteSet(L1) /\ IsFiniteSet(L2)
  <2> DEFINE f1 == [n \in K |-> r.nodes[n].first] f2 == [n \in K |-> r.nodes[n].finished - 1]
             l1 == [n \in K |-> r.nodes[n].last] l2 == [n \in K |-> r.nodes[n].finished]
  <2>1. /\ F1 = {f1[n] : n \in K} /\ F2 = {f2[n] : n \in K}
        /\ L1 = {l1[n] : n \in K} /\ L2 = {l2[n] : n \in K}
    OBVIOUS
  <2>2. /\ f1 = [n \in K |-> f1[n]] /\ f2 = [n \in K |-> f2[n]]
        /\ l1 = [n \in K |-> l1[n]] /\ l2 = [n \in K |-> l2[n]]
    OBVIOUS
  <2>3. IsFiniteSet(K)
    OBVIOUS
  <2> HIDE DEF f1, f2, l1, l2, K, F1, F2, L1, L2
  <2>4. IsFiniteSet({f1[n] : n \in K}) /\ IsFiniteSet({f2[n] : n \in K})
    BY <2>2, <2>3, FiniteImage
  <2>5. IsFiniteSet({l1[n] : n \in K}) /\ IsFiniteSet({l2[n] : n \in K})
    BY <2>2, <2>3, FiniteImage
  <2> QED
    BY <2>1, <2>4, <2>5
<1>4. PICK n \in K : TRUE
  OBVIOUS
<1>5. starts \in SUBSET Int /\ ends \in SUBSET Int
  BY <1>1, <1>2 DEF Times, NoTime
<1>6. r.nodes[n].first \in starts \ {NoTime} /\ r.nodes[n].last \in ends
  BY <1>1, <1>4 DEF NoTime
<1>7. IsFiniteSet(starts) /\ IsFiniteSet(ends)
  <2> HIDE DEF F1, F2, L1, L2
  <2>1. IsFiniteSet({r.start}) /\ IsFiniteSet({r.end})
    BY FS_Singleton
  <2>2. IsFiniteSet({r.start} \union F1) /\ IsFiniteSet({r.end} \union L1)
    BY <1>3, <2>1, FS_Union
  <2> QED
    BY <1>3, <2>2, FS_Union
<1>8. \A t \in starts \ {NoTime} : t \in Nat
  BY <1>1, <1>2 DEF Times
<1>9. r.start \in starts /\ r.end \in ends
  OBVIOUS
<1>10. /\ Earliest(starts) \in starts \ {NoTime}
       /\ \A u \in starts \ {NoTime} : Earliest(starts) <= u
  <2> HIDE DEF starts
  <2> QED
    BY <1>5, <1>6, <1>7, EarliestIs
<1>11. Latest(ends) \in ends /\ \A u \in ends : u <= Latest(ends)
  <2> HIDE DEF ends
  <2> QED
    BY <1>5, <1>6, <1>7, LatestIs
<1> HIDE DEF starts, ends
<1>12. Earliest(starts) \in Nat /\ Latest(ends) \in Int
  BY <1>5, <1>8, <1>10, <1>11
<1>13. r.nodes[n].first <= r.nodes[n].last /\ r.nodes[n].first \in Nat /\ r.nodes[n].last \in Nat
  BY <1>1, <1>4
<1>14. Earliest(starts) <= r.nodes[n].first /\ r.nodes[n].last <= Latest(ends)
  BY <1>6, <1>10, <1>11
<1>15. Latest(ends) \in Nat /\ Earliest(starts) <= Latest(ends)
  BY <1>12, <1>13, <1>14
<1>16. /\ r.start # NoTime => Earliest(starts) <= r.start
       /\ r.end # NoTime => r.end <= Latest(ends)
  BY <1>9, <1>10, <1>11
<1> QED
  BY <1>12, <1>15, <1>16 DEF starts, ends

LEMMA SynthesizedIs ==
    ASSUME NEW r \in RunEntries, NodeTimes(r), IsFiniteSet(Known(r))
    PROVE  LET s == Synthesized(r) IN
           /\ s \in RunEntries
           /\ s.known = r.known /\ s.sawStart = r.sawStart /\ s.sawEnd = r.sawEnd
           /\ s.spec = r.spec /\ s.nodes = r.nodes
           /\ r.start # NoTime => s.start \in Nat /\ s.start <= r.start
           /\ r.end # NoTime => s.end \in Nat /\ r.end <= s.end
           /\ \/ s.start = r.start /\ s.end = r.end
              \/ InOrder(s)
           /\ s.start # NoTime /\ s.end # NoTime =>
                InOrder(s) \/ (s = r /\ r.start # NoTime /\ r.end # NoTime)
<1>1. r.start \in Times /\ r.end \in Times
  BY DEF RunEntries
<1>2. CASE r.start # NoTime /\ r.end # NoTime
  BY <1>1, <1>2 DEF Synthesized, Times
<1>3. CASE r.start = NoTime \/ r.end = NoTime
  <2> DEFINE starts == {r.start} \union {r.nodes[n].first : n \in Known(r)}
                                 \union {r.nodes[n].finished - 1 : n \in Known(r)}
             ends == {r.end} \union {r.nodes[n].last : n \in Known(r)}
                             \union {r.nodes[n].finished : n \in Known(r)}
  <2>1. Synthesized(r) = [r EXCEPT !.start = Earliest(starts), !.end = Latest(ends)]
    BY <1>3 DEF Synthesized
  <2>2. CASE Known(r) # {}
    <3>1. /\ Earliest(starts) \in Nat /\ Latest(ends) \in Nat
          /\ Earliest(starts) <= Latest(ends)
          /\ r.start # NoTime => Earliest(starts) <= r.start
          /\ r.end # NoTime => r.end <= Latest(ends)
      BY <2>2, Widened
    <3> HIDE DEF starts, ends
    <3> QED
      BY <2>1, <3>1 DEF RunEntries, InOrder, Times
  <2>3. CASE Known(r) = {}
    <3>1. starts = {r.start} /\ ends = {r.end}
      BY <2>3
    <3>2. Latest({r.end}) = r.end
      <4>1. {r.end} \in SUBSET Int /\ {r.end} # {} /\ IsFiniteSet({r.end})
        <5>1. r.end \in Int
          BY <1>1 DEF Times, NoTime
        <5> QED
          BY <5>1, FS_Singleton
      <4> QED
        BY <4>1, LatestIs
    <3>3. Earliest({r.start}) = r.start
      <4>1. CASE r.start = NoTime
        BY <4>1 DEF Earliest
      <4>2. CASE r.start # NoTime
        <5>1. r.start \in Nat /\ {r.start} \ {NoTime} = {r.start}
          BY <1>1, <4>2 DEF Times
        <5>2. Earliest({r.start}) = CHOOSE t \in {r.start} : \A u \in {r.start} : t <= u
          BY <5>1 DEF Earliest
        <5> QED
          BY <5>1, <5>2
      <4> QED
        BY <4>1, <4>2
    <3>4. Synthesized(r) = r
      <4>1. [r EXCEPT !.start = r.start, !.end = r.end] = r
        BY DEF RunEntries
      <4> QED
        BY <2>1, <3>1, <3>2, <3>3, <4>1
    <3> QED
      BY <1>1, <1>3, <3>4 DEF Times
  <2> QED
    BY <2>2, <2>3
<1> QED
  BY <1>2, <1>3

\* A verdict is asked for: the entries of some runs are synthesized.
LEMMA FinalizeStep ==
    ASSUME AggInv, Finalize
    PROVE  AggInv'
<1>1. UNCHANGED <<alaunches, seen>>
  BY DEF Finalize, FinalizeRun, FinalizeLaunch, FinalizeAll
<1>2. TableOk /\ SeenOk
  BY DEF AggInv
<1>3. DOMAIN aruns' = RunIds /\ aruns' = [r \in RunIds |-> aruns'[r]]
  BY <1>2 DEF Finalize, FinalizeRun, FinalizeLaunch, FinalizeAll, TableOk
<1>4. \A r \in RunIds : aruns'[r] = aruns[r] \/ aruns'[r] = Synthesized(aruns[r])
  BY <1>2 DEF Finalize, FinalizeRun, FinalizeLaunch, FinalizeAll, TableOk
<1>5. ASSUME NEW r \in RunIds
      PROVE  /\ aruns[r] \in RunEntries /\ Synthesized(aruns[r]) \in RunEntries
             /\ NodeTimes(aruns[r]) /\ IsFiniteSet(Known(aruns[r]))
  <2>1. aruns[r] \in RunEntries /\ NodeTimes(aruns[r])
    BY DEF AggInv, TableOk, RunTimes
  <2>2. IsFiniteSet(Known(aruns[r]))
    BY KnownFinite
  <2> QED
    BY <2>1, <2>2, SynthesizedIs
<1>6. TableOk'
  <2>1. \A r \in RunIds : aruns'[r] \in RunEntries
    BY <1>4, <1>5
  <2> QED
    BY <1>1, <1>2, <1>3, <2>1 DEF TableOk
<1>7. ASSUME NEW r \in RunIds PROVE RunFollows(r)'
  <2>1. /\ aruns'[r].known = aruns[r].known /\ aruns'[r].sawStart = aruns[r].sawStart
        /\ aruns'[r].sawEnd = aruns[r].sawEnd /\ aruns'[r].spec = aruns[r].spec
        /\ aruns'[r].nodes = aruns[r].nodes
    BY <1>4, <1>5, SynthesizedIs
  <2>2. RunFollows(r)
    BY DEF AggInv
  <2> QED
    BY <1>1, <2>1, <2>2 DEF RunFollows, SeenOf, SeenNodes
<1>8. ASSUME NEW r \in RunIds PROVE RunTimes(r)'
  <2>1. RunTimes(r)
    BY DEF AggInv
  <2>2. CASE aruns'[r] = aruns[r]
    BY <1>1, <2>1, <2>2 DEF RunTimes, SeenOf, NodeTimes, InOrder
  <2>3. CASE aruns'[r] = Synthesized(aruns[r])
    <3> DEFINE old == aruns[r] new == aruns'[r]
    <3>1. /\ old \in RunEntries /\ new \in RunEntries /\ new.nodes = old.nodes
          /\ old.start # NoTime => new.start \in Nat /\ new.start <= old.start
          /\ old.end # NoTime => new.end \in Nat /\ old.end <= new.end
          /\ \/ new.start = old.start /\ new.end = old.end
             \/ InOrder(new)
      BY <1>5, <2>3, SynthesizedIs
    <3>2. UNCHANGED <<SeenOf(r, "start"), SeenOf(r, "end")>>
      BY <1>1 DEF SeenOf
    <3>3. \A rec \in SeenOf(r, "start") \union SeenOf(r, "end") : rec.time \in Nat
      BY <1>2 DEF SeenOk, SeenOf, RecordOk, RunKinds
    <3>4. NodeTimes(new)
      BY <2>1, <3>1 DEF RunTimes, NodeTimes
    <3>5. ASSUME NEW rec \in SeenOf(r, "start") PROVE new.start \in Nat /\ new.start <= rec.time
      <4>1. old.start \in Nat /\ old.start <= rec.time /\ old.start # NoTime /\ rec.time \in Nat
        BY <2>1, <3>3 DEF RunTimes, NoTime
      <4> QED
        BY <3>1, <4>1
    <3>6. ASSUME NEW rec \in SeenOf(r, "end") PROVE new.end \in Nat /\ rec.time <= new.end
      <4>1. old.end \in Nat /\ rec.time <= old.end /\ old.end # NoTime /\ rec.time \in Nat
        BY <2>1, <3>3 DEF RunTimes, NoTime
      <4> QED
        BY <3>1, <4>1
    <3>7. SeenOf(r, "start") = {} /\ new.start # NoTime => InOrder(new)
      BY <2>1, <3>1 DEF RunTimes, InOrder
    <3>8. SeenOf(r, "end") = {} /\ new.end # NoTime => InOrder(new)
      BY <2>1, <3>1 DEF RunTimes, InOrder
    <3> QED
      BY <3>2, <3>4, <3>5, <3>6, <3>7, <3>8 DEF RunTimes, NodeTimes, InOrder
  <2> QED
    BY <1>4, <2>2, <2>3
<1>9. ASSUME NEW k \in LaunchKeys PROVE LaunchFollows(k)'
  BY <1>1 DEF AggInv, LaunchFollows, Attached, SeenOf
<1>10. SeenOk'
  BY <1>1, <1>2 DEF SeenOk
<1> QED
  BY <1>6, <1>7, <1>8, <1>9, <1>10 DEF AggInv

LEMMA AggInit == InitAggregator => AggInv
<1> SUFFICES ASSUME InitAggregator PROVE AggInv
  OBVIOUS
<1> USE DEF InitAggregator
<1>1. NewNode \in NodeEntries /\ ~NewNode.known
  <2>1. "-" \in Stati /\ NoTime \in Times
    BY DEF Stati, Times
  <2> QED
    BY <2>1 DEF NewNode, NodeEntries
<1>2. NewRun \in RunEntries
  BY <1>1 DEF NewRun, RunEntries, Times
<1>3. NewLaunch \in LaunchEntries(seen)
  BY DEF NewLaunch, LaunchEntries
<1>4. TableOk
  BY <1>2, <1>3 DEF TableOk
<1>5. SeenOk
  BY FS_EmptySet DEF SeenOk
<1>6. \A r, kind : SeenOf(r, kind) = {}
  BY DEF SeenOf
<1>7. \A r : SeenNodes(r) = {}
  BY <1>6 DEF SeenNodes
<1>8. \A r \in RunIds : RunFollows(r)
  BY <1>1, <1>6, <1>7 DEF RunFollows, NewRun
<1>9. \A r \in RunIds : RunTimes(r)
  BY <1>1, <1>6 DEF RunTimes, NodeTimes, NewRun
<1>10. \A k \in LaunchKeys : LaunchFollows(k)
  BY <1>6 DEF LaunchFollows, Attached, NewLaunch
<1> QED
  BY <1>4, <1>5, <1>8, <1>9, <1>10 DEF AggInv

LEMMA AggStutter == AggInv /\ UNCHANGED aggVars => AggInv'
  BY DEF AggInv, aggVars, TableOk, SeenOk, RunFollows, RunTimes, LaunchFollows, NodeTimes, InOrder,
         SeenOf, SeenNodes, Attached

LEMMA AggNextInv == AggInv /\ [AggNext]_aggVars => AggInv'
  BY IngestStep, FinalizeStep, AggStutter DEF AggNext

-----------------------------------------------------------------------------
(* The theorems *)

LEMMA AggInvariant == AggSpec => []AggInv
  BY AggInit, AggNextInv, PTL DEF AggSpec

\* The aggregator's tables keep their shape: every run and launch has its entry, a run the
\* nodes of the pipeline, a launch only runs (TraceAggregator._runs and _launches).
LEMMA AggTypes == AggInv => TypeOK
<1> SUFFICES ASSUME AggInv PROVE TypeOK
  OBVIOUS
<1>1. ASSUME NEW r \in RunIds PROVE DOMAIN aruns[r].nodes = NodeIds /\ aruns[r].spec \in {{}, Expected}
  <2>1. aruns[r] \in RunEntries
    BY DEF AggInv, TableOk
  <2> QED
    BY <2>1 DEF RunEntries
<1>2. ASSUME NEW k \in LaunchKeys PROVE alaunches[k].pipelines \subseteq RunIds
  <2>1. alaunches[k] \in LaunchEntries(seen)
    BY DEF AggInv, TableOk
  <2> QED
    BY <2>1 DEF LaunchEntries
<1> QED
  BY <1>1, <1>2 DEF AggInv, TableOk, TypeOK

\* The verdict on a run says what its records say.
LEMMA RunVerdictFollows ==
    ASSUME AggInv, NEW r \in RunIds
    PROVE  RunVerdictExact(r)
<1>1. /\ aruns[r] \in RunEntries /\ NodeTimes(aruns[r]) /\ RunFollows(r)
      /\ IsFiniteSet(Known(aruns[r])) /\ Known(aruns[r]) = SeenNodes(r)
  BY KnownFinite DEF AggInv, TableOk, RunTimes
<1> DEFINE old == aruns[r] s == Synthesized(old)
           declared == IF SeenOf(r, "start") = {} THEN {} ELSE Expected
<1>2. /\ s.sawStart = old.sawStart /\ s.sawEnd = old.sawEnd
      /\ s.spec = old.spec /\ s.nodes = old.nodes
  BY <1>1, SynthesizedIs
<1>3. Known(s) = SeenNodes(r)
  BY <1>1, <1>2 DEF Known
<1>4. /\ old.sawStart <=> SeenOf(r, "start") # {}
      /\ old.sawEnd <=> SeenOf(r, "end") # {}
      /\ old.spec = declared
      /\ ~old.known => /\ SeenOf(r, "start") = {} /\ SeenOf(r, "end") = {}
                       /\ SeenNodes(r) = {}
  BY <1>1 DEF RunFollows, SeenOf, SeenNodes, RunKinds
<1> DEFINE verdict == RunVerdict(old)
<1>5. verdict.status = IF ~old.known THEN "invalid" ELSE StatusOf(s)
  BY DEF RunVerdict
<1>6. verdict.missing = IF ~old.known THEN {} ELSE IF s.spec = {} THEN {} ELSE s.spec \ Known(s)
  BY DEF RunVerdict
<1>7. verdict.orphan = IF ~old.known THEN {} ELSE IF s.spec = {} THEN {} ELSE Known(s) \ s.spec
  BY DEF RunVerdict
<1> HIDE DEF s, old, verdict
<1>8. verdict.status = (IF HasEdges(r) THEN "complete"
                        ELSE IF SeenOf(r, "start") \union SeenOf(r, "end") # {}
                        THEN "partial" ELSE "invalid")
  BY <1>2, <1>4, <1>5 DEF StatusOf, HasEdges
<1>9. verdict.missing = declared \ SeenNodes(r)
  BY <1>2, <1>3, <1>4, <1>6
<1>10. verdict.orphan = IF declared = {} THEN {} ELSE SeenNodes(r) \ declared
  BY <1>2, <1>3, <1>4, <1>7
<1> QED
  BY <1>8, <1>9, <1>10 DEF RunVerdictExact, verdict, old

\* The verdict on a launch says what its records say.
LEMMA LaunchVerdictFollows ==
    ASSUME AggInv, NEW k \in LaunchKeys
    PROVE  LaunchVerdictExact(k)
<1>1. LaunchFollows(k)
  BY DEF AggInv
<1> DEFINE l == alaunches[k]
           stati == {RunVerdict(aruns[r]).status : r \in l.pipelines}
           verdict == LaunchVerdict(k)
<1>2. l.pipelines = Attached(k) /\ Attached(k) \subseteq RunIds
  BY <1>1 DEF LaunchFollows, Attached
<1>3. \A r \in Attached(k) : RunVerdict(aruns[r]).status = "complete" <=> HasEdges(r)
  BY <1>2, RunVerdictFollows DEF RunVerdictExact
<1>4. stati \subseteq {"complete"} <=> \A r \in Attached(k) : HasEdges(r)
  BY <1>2, <1>3
<1>5. verdict.status = IF ~l.known THEN "invalid"
                       ELSE IF ~l.sawStart /\ l.pipelines # {} THEN "invalid"
                       ELSE IF l.sawStart /\ l.sawEnd
                       THEN IF stati \subseteq {"complete"} THEN "complete" ELSE "partial"
                       ELSE "partial"
  BY DEF LaunchVerdict
<1>6. verdict.total = IF ~l.known THEN 0 ELSE Cardinality(l.pipelines)
  BY DEF LaunchVerdict
<1>7. /\ l.known <=> \/ Attached(k) # {}
                     \/ \E rec \in seen : rec.kind \in {"launchStart", "launchEnd"} /\ rec.launch = k
      /\ l.sawStart <=> \E rec \in seen : rec.kind = "launchStart" /\ rec.launch = k
      /\ l.sawEnd <=> \E rec \in seen : rec.kind = "launchEnd" /\ rec.launch = k
  BY <1>1 DEF LaunchFollows
<1>8. l.sawStart => l.known
  BY <1>7
<1> HIDE DEF l, stati, verdict
<1>9. verdict.status = "complete" <=> l.sawStart /\ l.sawEnd /\ \A r \in Attached(k) : HasEdges(r)
  BY <1>4, <1>5, <1>8
<1>10. verdict.total = Cardinality(Attached(k))
  BY <1>2, <1>6, <1>7, FS_EmptySet
<1> QED
  BY <1>7, <1>9, <1>10 DEF LaunchVerdictExact, verdict

\* "Merge a single Semantiva trace record, tolerating out-of-order inputs": verdicts depend on
\* the set of the ingested records only, not on their order, their repetition or the verdicts
\* asked for in between (TraceAggregator.ingest, finalize_run, finalize_launch).
LEMMA VerdictsFollow == AggInv => VerdictsFollowRecords
  BY RunVerdictFollows, LaunchVerdictFollows DEF VerdictsFollowRecords

\* The times of the records of one kind.
LEMMA TimesFinite ==
    ASSUME AggInv, NEW r, NEW kind
    PROVE  IsFiniteSet({rec.time : rec \in SeenOf(r, kind)})
<1> DEFINE S == SeenOf(r, kind) f == [rec \in S |-> rec.time]
<1>1. IsFiniteSet(S)
  BY FS_Subset DEF AggInv, SeenOk, SeenOf
<1>2. f = [rec \in S |-> f[rec]] /\ {f[rec] : rec \in S} = {rec.time : rec \in SeenOf(r, kind)}
  OBVIOUS
<1>3. IsFiniteSet({f[rec] : rec \in S})
  <2> HIDE DEF f, S
  <2> QED
    BY <1>1, <1>2, FiniteImage
<1> QED
  BY <1>2, <1>3

\* A run that is said to end before it starts has records of both of its edges that say so.
LEMMA Accused ==
    ASSUME AggInv, NEW r \in RunIds, TimeProblem(Synthesized(aruns[r]))
    PROVE  /\ Starts(r) # {} /\ Ends(r) # {}
           /\ Earliest(Starts(r)) \in Starts(r) /\ Earliest(Starts(r)) # NoTime
           /\ Latest(Ends(r)) \in Ends(r) /\ Latest(Ends(r)) # NoTime
           /\ Earliest(Starts(r)) > Latest(Ends(r))
<1> DEFINE old == aruns[r] s == Synthesized(old)
<1>1. /\ old \in RunEntries /\ NodeTimes(old) /\ RunTimes(r) /\ IsFiniteSet(Known(old))
  BY KnownFinite DEF AggInv, TableOk, RunTimes
<1>2. s.start # NoTime /\ s.end # NoTime /\ s.start > s.end
  BY DEF TimeProblem
<1>3. InOrder(s) \/ (s = old /\ old.start # NoTime /\ old.end # NoTime)
  <2> HIDE DEF old
  <2> QED
    BY <1>1, <1>2, SynthesizedIs
<1>4. old.start # NoTime /\ old.end # NoTime /\ old.start > old.end
      /\ old.start \in Nat /\ old.end \in Nat
  <2>1. ~InOrder(s)
    BY <1>2 DEF InOrder
  <2>2. s = old /\ old.start # NoTime /\ old.end # NoTime
    BY <1>3, <2>1
  <2> HIDE DEF old, s
  <2> QED
    BY <1>1, <1>2, <2>2 DEF RunEntries, Times
<1>5. ~InOrder(old)
  BY <1>4 DEF InOrder
<1>6. SeenOf(r, "start") # {} /\ SeenOf(r, "end") # {}
  BY <1>1, <1>4, <1>5 DEF RunTimes
<1>7. \A kind \in {"start", "end"} : \A rec \in SeenOf(r, kind) : rec.time \in Nat
  BY DEF AggInv, SeenOk, SeenOf, RecordOk, RunKinds
<1>8. /\ Starts(r) # {} /\ Starts(r) \in SUBSET Int /\ NoTime \notin Starts(r)
      /\ Ends(r) # {} /\ Ends(r) \in SUBSET Int /\ \A t \in Ends(r) : t # NoTime
  BY <1>6, <1>7 DEF Starts, Ends, NoTime
<1>9. IsFiniteSet(Starts(r)) /\ IsFiniteSet(Ends(r))
  BY TimesFinite DEF Starts, Ends
<1>10. /\ Earliest(Starts(r)) \in Starts(r) /\ Earliest(Starts(r)) # NoTime
       /\ Latest(Ends(r)) \in Ends(r)
  <2>1. Starts(r) \ {NoTime} # {}
    BY <1>8
  <2> QED
    BY <1>8, <1>9, <2>1, EarliestIs, LatestIs
<1>11. old.start <= Earliest(Starts(r)) /\ Latest(Ends(r)) <= old.end
  BY <1>1, <1>10 DEF RunTimes, Starts, Ends
<1>12. Earliest(Starts(r)) > Latest(Ends(r)) /\ Latest(Ends(r)) # NoTime
  BY <1>4, <1>8, <1>10, <1>11
<1> QED
  BY <1>8, <1>10, <1>12

\* Asking for verdicts early never makes a run end before it starts when asking once, at the end,
\* would not, whatever the clock did.
LEMMA EarlyVerdicts == AggInv => EarlyVerdictsNeverAccuse
<1> SUFFICES ASSUME AggInv, NEW r \in RunIds, TimeProblem(Synthesized(aruns[r]))
             PROVE  TimeProblem(AskedOnce(r))
  BY DEF EarlyVerdictsNeverAccuse
<1>1. AskedOnce(r) = [start |-> Earliest(Starts(r)), end |-> Latest(Ends(r))]
  BY Accused DEF AskedOnce
<1> QED
  BY <1>1, Accused DEF TimeProblem

\* No run is said to end before it starts if the records of its edges do not say so: neither
\* synthesized times nor early verdicts invent such a problem.
LEMMA OrderedTimes ==
    ASSUME AggInv, NEW r \in RunIds,
           \A s \in SeenOf(r, "start"), e \in SeenOf(r, "end") : s.time <= e.time
    PROVE  ~TimeProblem(Synthesized(aruns[r]))
<1> SUFFICES ASSUME TimeProblem(Synthesized(aruns[r])) PROVE FALSE
  OBVIOUS
<1>1. PICK s \in SeenOf(r, "start") : s.time = Earliest(Starts(r))
  BY Accused DEF Starts
<1>2. PICK e \in SeenOf(r, "end") : e.time = Latest(Ends(r))
  BY Accused DEF Ends
<1>3. s.time \in Nat /\ e.time \in Nat
  BY DEF AggInv, SeenOk, SeenOf, RecordOk, RunKinds
<1> QED
  BY <1>1, <1>2, <1>3, Accused

\* The same three facts, of an aggregator that is given any records and asked at any time.
THEOREM AggregatorFollows ==
    AggSpec => [](TypeOK /\ VerdictsFollowRecords /\ EarlyVerdictsNeverAccuse)
  BY AggInvariant, AggTypes, VerdictsFollow, EarlyVerdicts, PTL

================================================================================
