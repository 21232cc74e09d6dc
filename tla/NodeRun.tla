-------------------------------- MODULE NodeRun --------------------------------
(***************************************************************************)
(* A pipeline is inspected, instantiated and run node by node; what the    *)
(* inspection foretold is compared with what happens. The context is one   *)
(* object that the nodes write in place: a node that fails leaves in it    *)
(* what it wrote before.                                                   *)
(*                                                                         *)
(* Other behaviours are calls by a program on a context collection.        *)
(***************************************************************************)
EXTENDS Nodes

CONSTANTS Definitions,    \* the node definitions that pipelines are made of
          Inputs,         \* pipelines (sequences of indices of Definitions), each with
                          \* the context and the data that it is given
          Collections,    \* the collections on which a program makes calls
          CallKeys, CallValues, MaxCalls

IsInput(in) ==
    /\ in.pipe \in Seq(DOMAIN Definitions) /\ in.pipe # <<>> /\ IsContext(in.ctx)
    /\ in.data.type \in Types /\ in.data.size \in Nat

ASSUME NodeRunAssumption ==
    /\ \A i \in DOMAIN Definitions : IsDefinition(Definitions[i])
    /\ \A in \in Inputs : IsInput(in)
    /\ \A c \in Collections : IsContext(c) /\ c.kind = "collection"
    /\ \A v \in CallValues : IsValue(v)
    /\ MaxCalls \in Nat

VARIABLES pipe,     \* the definitions of the pipeline; none for calls on a collection
          nodes,    \* what the factory makes of them, for the inspection and for the run
          step,     \* inspect, instantiate, run, refused, failed, done or call
          report,   \* of the inspection
          at,       \* the node that runs next; for calls, their number
          data, ctx,
          trail,    \* keys of the context after each node (history)
          last      \* what the last node or call did (history)

vars == <<pipe, nodes, step, report, at, data, ctx, trail, last>>

\* A pipeline of definitions as the configuration has them; others are made by a program.
FromConfiguration == \A i \in DOMAIN pipe : pipe[i].via = "config"

NoReport == [valid |-> FALSE, supplied |-> FALSE]
NoLast == [op |-> "none", error |-> "none", missing |-> {}, calls |-> <<>>, passed |-> TRUE,
           sources |-> <<>>, before |-> Single(NoKeys)]

Init ==
    /\ report = NoReport /\ at = 1 /\ trail = <<>> /\ last = NoLast
    /\ \/ /\ \E known \in {Definitions}, in \in Inputs :
               /\ pipe = [i \in DOMAIN in.pipe |-> known[in.pipe[i]]]
               /\ ctx = in.ctx /\ data = in.data
          /\ step = "inspect"
       \/ /\ pipe = <<>> /\ ctx \in Collections /\ data = NoData /\ step = "call"
    /\ nodes = [i \in DOMAIN pipe |-> Factory(pipe[i])]
-----------------------------------------------------------------------------
(* The pipeline *)

\* build_pipeline_inspection and validate_pipeline, and whether the payload has
\* the required context keys.
Inspect ==
    /\ step = "inspect" /\ FromConfiguration
    /\ LET found == Inspection(nodes)
       IN  report' = [valid |-> found.valid, supplied |-> found.required \subseteq Keys(ctx)]
    /\ step' = "instantiate"
    /\ UNCHANGED <<pipe, nodes, at, data, ctx, trail, last>>

\* _instantiate_nodes: the first definition that is refused ends the run.
Instantiate ==
    /\ step = "instantiate" \/ (step = "inspect" /\ ~FromConfiguration)
    /\ step' = IF \E i \in DOMAIN nodes : nodes[i].error # "none" THEN "refused" ELSE "run"
    /\ UNCHANGED <<pipe, nodes, report, at, data, ctx, trail, last>>

\* One turn of the loop of execute(), with what its trace record says beforehand.
RunNode ==
    /\ step = "run"
    /\ \E node \in {nodes[at]}, r \in {Process(nodes[at], data, ctx)} :
          /\ ctx' = r.ctx
          /\ data' = IF r.error = "none" THEN r.data ELSE data
          /\ trail' = Append(trail, Keys(r.ctx))
          /\ last' = [op |-> "node", error |-> r.error, missing |-> r.missing,
                      calls |-> r.calls, passed |-> KeysPresent(node, ctx),
                      sources |-> Sources(node, ctx), before |-> ctx]
          /\ IF r.error # "none" THEN step' = "failed" /\ at' = at
             ELSE IF at = Len(pipe) THEN step' = "done" /\ at' = at
             ELSE step' = step /\ at' = at + 1
    /\ UNCHANGED <<pipe, nodes, report>>
-----------------------------------------------------------------------------
(* Calls on a collection *)

Call(op, result) ==
    /\ step = "call" /\ at <= MaxCalls
    /\ ctx' = result.ctx
    /\ last' = [NoLast EXCEPT !.op = op, !.error = result.error]
    /\ at' = at + 1
    /\ UNCHANGED <<pipe, nodes, step, report, data, trail>>

AppendContext == \E k \in CallKeys, v \in CallValues : Call("append", AppendItem(ctx, Only(k, v)))
Set     == \E k \in CallKeys, v \in CallValues : Call("set", UpdateContext(ctx, k, v))
SetItem == \E i \in 1 .. Len(ctx.items) + 1, k \in CallKeys, v \in CallValues :
               Call("setItem", SetItemValue(ctx, i, k, v))
DeleteKey  == \E k \in CallKeys : Call("delete", DeleteContext(ctx, k))
DeleteItem == \E i \in 1 .. Len(ctx.items) + 1, k \in CallKeys :
                  Call("deleteItem", DeleteItemValue(ctx, i, k))
ClearAll == Call("clear", Clear(ctx))
WriteView == \E i \in DOMAIN ctx.items, k \in CallKeys, v \in CallValues :
                 Call("slice", WriteSlice(ctx, i, k, v))
DeleteInView == \E i \in DOMAIN ctx.items, k \in CallKeys :
                    Call("deleteInSlice", DeleteInSlice(ctx, i, k))

Next ==
    \/ Inspect \/ Instantiate \/ RunNode
    \/ AppendContext \/ Set \/ SetItem \/ DeleteKey \/ DeleteItem \/ ClearAll
    \/ WriteView \/ DeleteInView

Spec == Init /\ [][Next]_vars
-----------------------------------------------------------------------------
(* Properties *)

TypeOK ==
    /\ DOMAIN nodes = DOMAIN pipe
    /\ step = "run" => nodes[at].kind \in
         {"operation", "probe", "source", "sink", "payloadSource", "context", "contextData", "injector"}
    /\ step \in {"inspect", "instantiate", "run", "refused", "failed", "done", "call"}
    /\ at \in 1 .. (IF step = "call" THEN MaxCalls + 1 ELSE Len(pipe))
    /\ data.type \in Types /\ data.size \in Nat
    /\ IsContext(ctx)
    /\ \A i \in DOMAIN last.calls : \A k \in DOMAIN last.calls[i] : last.calls[i][k].kind \in Kinds
    /\ Len(trail) <= Len(pipe)

(* A validated pipeline that is given the required context keys lacks a      *)
(* parameter at run time only in three cases: the key is created by this     *)
(* node or a later one (required_context_keys leaves out created keys        *)
(* whatever the order); this node and an earlier one both delete it; or an   *)
(* earlier node says that it creates the key and did not write it (user      *)
(* code, a renamer of None, a sweep of a probe).                             *)
MissingExplained ==
    step = "failed" /\ report.valid /\ report.supplied => \A k \in last.missing :
        \/ \E j \in at .. Len(pipe) : k \in Created(nodes[j])
        \/ k \in Suppressed(nodes[at]) /\ \E j \in 1 .. at - 1 : k \in Suppressed(nodes[j])
        \/ \E j \in 1 .. at - 1 : k \in Created(nodes[j]) /\ k \notin trail[j]

(* A validated pipeline meets data of a wrong type only at its first node,   *)
(* or behind a context processor, where the validator does not look.         *)
TypeErrorsExplained ==
    step = "failed" /\ report.valid /\ last.error = "gate" =>
        at = 1 \/ IsContextNode(nodes[at - 1])

(* A node that runs adds no key to the context that its class does not say   *)
(* it creates and takes none away that it does not say it suppresses, even   *)
(* when it fails half-way (the observers refuse other keys).                 *)
EffectsDeclared ==
    FromConfiguration /\ last.op = "node" =>
        LET node == nodes[Len(trail)] IN
        /\ Keys(ctx) \ Keys(last.before) \subseteq Created(node)
        /\ Keys(last.before) \ Keys(ctx) \subseteq Suppressed(node)

(* For a single context, the trace foretells the run: when its check of the  *)
(* required keys passes no parameter is missing, and when it fails the node  *)
(* fails; a source that it names for a parameter is the one that was used.   *)
(* For a collection the check fails for every node that has required keys    *)
(* (to_dict has entries of its own), whatever the run does.                  *)
PreCheckForetells ==
    FromConfiguration /\ last.op = "node" =>
        LET node == nodes[Len(trail)]
            args == Parameters(node.class, node.config, last.before).args
        IN  IF last.before.kind = "collection" THEN last.passed <=> RequiredKeys(node) = {}
            ELSE /\ last.passed => last.missing = {}
                 /\ ~last.passed => last.error \in {"missing", "gate"}
                 /\ \A n \in DOMAIN last.sources \intersect node.class.names :
                      args[n] = IF last.sources[n] = "node" THEN node.config[n]
                                ELSE last.before.global[n]

(* A sweep that completes has called its element once for each combination   *)
(* of the values, or once for each position of the longest list; only with   *)
(* broadcast may the lists differ in length. The calls draw every combination*)
(* of the variables that are used, or the values at their positions. The     *)
(* parameters that are not bound are those of the node, as many items come   *)
(* out as calls were made, and the values are in the context - except after  *)
(* a sweep of a probe.                                                       *)
SweepExact ==
    last.op = "node" /\ last.error = "none" /\ nodes[Len(trail)].class.does.kind = "sweep" =>
        LET node == nodes[Len(trail)]
            d    == node.class.does
            args == Parameters(node.class, node.config, last.before).args
            seqs == Materialize(d.vars, args)
            n    == Len(last.calls)
            used == {d.exprs[p] : p \in DOMAIN d.exprs}
            value(i, v) == last.calls[i][CHOOSE p \in DOMAIN d.exprs : d.exprs[p] = v]
            drawn(i) == [v \in used |-> value(i, v)]
        IN  /\ IF d.mode = "combinatorial"
               THEN /\ n = ProductOver([v \in DOMAIN seqs |-> Len(seqs[v])], DOMAIN seqs)
                    /\ {drawn(i) : i \in 1 .. n} =
                         {f \in [used -> UNION {Range(seqs[v]) : v \in used}] :
                            \A v \in used : f[v] \in Range(seqs[v])}
               ELSE /\ d.broadcast \/ \A v \in DOMAIN seqs : Len(seqs[v]) = n
                    /\ \E v \in DOMAIN seqs : Len(seqs[v]) = n
                    /\ \A v \in DOMAIN seqs : Len(seqs[v]) <= n
                    /\ \A i \in 1 .. n, v \in used :
                         value(i, v) = seqs[v][((i - 1) % Len(seqs[v])) + 1]
            /\ \A i \in 1 .. n, p \in d.free : last.calls[i][p] = args[p]
            /\ node.class.cls # "probe" =>
                 /\ data = [type |-> node.class.out, size |-> n]
                 /\ \A v \in DOMAIN seqs :
                      ValuesKey(v) \notin ItemKeys(ctx) =>
                        GetValue(ctx, ValuesKey(v)) = Value(List(seqs[v]))

(* A key becomes a conflict of a collection only when a context that has it  *)
(* is appended or when a slice is written. As long as there is no conflict   *)
(* the three ways to read agree: values, items and slices.                   *)
CollectionCoherent ==
    [][/\ step = "call" /\ last'.op \notin {"append", "slice"} =>
            Conflicts(ctx') \subseteq Conflicts(ctx)
       /\ ctx'.kind = "collection" /\ Conflicts(ctx') = {} =>
            \A i \in DOMAIN ctx'.items :
                /\ GetItem(ctx', i) = Value(Slice(ctx', i))
                /\ \A k \in Keys(ctx') :
                     LET v == GetValue(ctx', k) IN
                     /\ v.error = "none"
                     /\ At(Slice(ctx', i), k) =
                          IF k \in DOMAIN ctx'.global THEN v.value
                          ELSE IF v.value = None THEN None ELSE v.value.of[i]
      ]_vars
================================================================================
