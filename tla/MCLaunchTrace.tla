----------------------------- MODULE MCLaunchTrace -----------------------------
(* Instances of LaunchTrace for TLC. Most plans only expand a run space      *)
(* (run_space.dry_run); a few run it, once or twice.                         *)
EXTENDS LaunchTrace

\* Value lists over the keys 1 and 2, and sources over the keys 3 and 4.
Contexts == {NoEntries, 1 :> <<>>, 1 :> <<11>>, 1 :> <<11, 12>>,
             1 :> <<11, 12>> @@ 2 :> <<21>>, 1 :> <<11, 12>> @@ 2 :> <<21, 22>>}

Src(format, mode, header, rws, select, rename) ==
    [format |-> format, mode |-> mode, header |-> header, rows |-> rws,
     columns |-> 3 :> <<31, 32>> @@ 4 :> <<41>>, select |-> select, rename |-> rename]

Even2   == <<3 :> 31 @@ 4 :> 41, 3 :> 32 @@ 4 :> 42>>
Ragged  == <<3 :> 31 @@ 4 :> 41, 3 :> 32>>
Crooked == <<3 :> 31, 4 :> 41>>
Keep == NoEntries
Modes == {"by_position", "combinatorial"}

Sources == {NoSource}
    \union {Src("rows", m, {}, Even2, {}, Keep) : m \in Modes}
    \union {Src("rows", "by_position", {}, rws, {}, Keep) : rws \in {Ragged, Crooked, <<>>}}
    \union {Src("rows", "by_position", {}, Even2, sel, ren) :
               sel \in {{}, {3}, {3, 5}}, ren \in {4 :> 3, 4 :> 1, 3 :> 2}}
    \union {Src("csv", m, {3, 4}, Ragged, {}, Keep) : m \in Modes}
    \union {Src("columns", m, {}, <<>>, {}, Keep) : m \in Modes}
    \union {Src("malformed", "by_position", {}, <<>>, {}, Keep),
            Src("rows", "zip", {}, Even2, {}, Keep)}

OneBlock == [mode : Modes \union {"zip"}, context : Contexts, source : Sources]
Few == {[mode |-> m, context |-> c, source |-> NoSource] : m \in Modes, c \in Contexts}
    \union {[mode |-> m, context |-> NoEntries, source |-> Src("rows", m, {}, Even2, {}, ren)] :
               m \in Modes, ren \in {Keep, 4 :> 1}}

RunSpaces ==
    [combine : {"by_position", "zip"}, blocks : {<<b>> : b \in OneBlock}, max_runs : {3}]
    \union [combine : Modes, blocks : {<<b, c>> : b, c \in Few}, max_runs : {3, 9}]
    \union [combine : Modes, blocks : {<<>>}, max_runs : {0}]

Invoke == [specs |-> <<>>, fault |-> "none", validate |-> FALSE, dry |-> FALSE, required |-> {},
           context |-> {}, provided |-> FALSE, keyed |-> FALSE, attempt |-> 1,
           single |-> FALSE, stepped |-> FALSE, inspected |-> FALSE,
           killable |-> TRUE, rereads |-> 0]

\* n runs from values, and one run from a file of which each version has another value.
Listed(n) == [combine |-> "combinatorial", max_runs |-> 9, blocks |->
    <<[mode |-> "by_position", context |-> 1 :> [i \in 1 .. n |-> 10 + i], source |-> NoSource]>>]
FromFile(v) == [combine |-> "combinatorial", max_runs |-> 9, blocks |->
    <<[mode |-> "by_position", context |-> NoEntries,
       source |-> Src("rows", "by_position", {}, <<3 :> 30 + v>>, {}, Keep)]>>]
Versions == <<FromFile(1), FromFile(2), FromFile(3)>>
Uneven == [combine |-> "by_position", max_runs |-> 9, blocks |->
    <<[mode |-> "by_position", context |-> NoEntries,
       source |-> Src("csv", "by_position", {3, 4}, Ragged, {}, Keep)]>>]

\* Read back by the aggregator: a launch of two runs, killed at any time or with a
\* clock that is set back; an attempt and a second one, which has a number of its
\* own or the number of the first: the first is killed at any time, or verdicts are
\* asked for early.
Two == [Invoke EXCEPT !.specs = <<Listed(2)>>]
Torn    == <<[Two EXCEPT !.single = TRUE, !.provided = TRUE, !.inspected = TRUE, !.rereads = 1]>>
Stepped == <<[Two EXCEPT !.stepped = TRUE, !.inspected = TRUE, !.killable = FALSE]>>
Retry(a, killed) ==
    <<[Invoke EXCEPT !.specs = <<Listed(1)>>, !.keyed = TRUE, !.killable = killed],
      [Invoke EXCEPT !.specs = <<Listed(1)>>, !.keyed = TRUE, !.attempt = a,
                     !.inspected = ~killed, !.killable = FALSE]>>

\* Not read back: launches that read a file, and some that are refused.
FileTwice == <<[Invoke EXCEPT !.specs = Versions, !.keyed = TRUE, !.killable = FALSE],
               [Invoke EXCEPT !.specs = Versions, !.keyed = TRUE, !.attempt = 2]>>
Gaps == <<[Invoke EXCEPT !.specs = <<Uneven>>, !.required = {3, 4}]>>
Simple == [Invoke EXCEPT !.specs = <<Listed(1)>>]

Executed == <<Torn, Stepped, <<Two>>, Retry(1, TRUE), Retry(1, FALSE), Retry(2, TRUE),
              FileTwice, Gaps,
              <<[Simple EXCEPT !.required = {2}]>>, <<[Simple EXCEPT !.fault = "file"]>>,
              <<[Simple EXCEPT !.fault = "override"]>>,
              <<[Simple EXCEPT !.fault = "components"]>>,
              <<[Simple EXCEPT !.fault = "components", !.validate = TRUE]>>,
              <<[Simple EXCEPT !.attempt = 0]>>>>

AllPlans ==
    [p \in [space : RunSpaces] \union [number : DOMAIN Executed] |->
        IF "number" \in DOMAIN p THEN Executed[p.number]
        ELSE <<[Invoke EXCEPT !.specs = <<p.space>>, !.dry = TRUE, !.required = {3},
                              !.context = {3}]>>]
================================================================================
