--------------------------------- MODULE Nodes ---------------------------------
(***************************************************************************)
(* The nodes of a pipeline: how a node definition becomes a node           *)
(* (pipeline/nodes/_pipeline_node_factory.py, node_preprocess.py), what a  *)
(* node does to a payload (pipeline/nodes/nodes.py), what the inspection   *)
(* of a pipeline foretells without running it (inspection/builder.py,      *)
(* validator.py), and what the trace says of a node before it runs         *)
(* (orchestrator.py).                                                      *)
(***************************************************************************)
EXTENDS Processors

NoData  == [type |-> "NoData", size |-> 0]
Nothing == [type |-> "None", size |-> 0]        \* Python's None

NoKey == 0
Unresolved == [cls |-> "unresolved"]

\* A node definition; "via" tells the pipeline factory from the two class methods
\* of _PipelineNodeFactory that only a program calls.
Def(class, params, key, derive) ==
    [via |-> "config", class |-> class, params |-> params, key |-> key, to |-> NoKey,
     derive |-> derive]
InjectorDef(class, params, key) ==
    [Def(class, params, key, NoSweep) EXCEPT !.via = "injector"]
ContextDataDef(class, from, to) ==
    [Def(class, NoKeys, from, NoSweep) EXCEPT !.via = "contextData", !.to = to]

IsDefinition(nd) ==
    /\ nd.via \in {"config", "injector", "contextData"}
    /\ nd.class = Unresolved \/ IsClass(nd.class)
    /\ IsMapping(nd.params)
    /\ nd.derive = NoSweep \/ IsSweep(nd.derive)

Node(kind, class, nd) ==
    [error |-> "none", kind |-> kind, class |-> class, config |-> nd.params,
     key |-> nd.key, to |-> nd.to]
NoNode(why) == [error |-> why]

Initialised(kind, class, nd) ==
    LET why == ConfigError(class, nd.params)
    IN  IF why = "none" THEN Node(kind, class, nd) ELSE NoNode(why)

\* _pipeline_node_factory, after preprocess_node_config; classes are resolved by name.
FromConfig(nd) ==
    LET swept == nd.derive # NoSweep
        why   == IF nd.class.cls = "unresolved" THEN "unknown"
                 ELSE IF swept THEN SweepError(nd.class, nd.derive) ELSE "none"
        class == IF swept THEN SweepClass(nd.class, nd.derive) ELSE nd.class
    IN  CASE why # "none" -> NoNode(why)
          [] class.cls = "operation" /\ nd.key # NoKey -> NoNode("value")
          [] class.cls = "probe" /\ nd.key = NoKey -> NoNode("configuration")
          [] class.cls = "other" -> NoNode("value")
          [] OTHER -> Initialised(class.cls, class, nd)

Factory(nd) ==
    CASE nd.via = "config" -> FromConfig(nd)
      [] nd.via = "injector" ->
           IF nd.class.cls # "operation" \/ nd.key = NoKey THEN NoNode("value")
           ELSE Initialised("injector", nd.class, nd)
      [] nd.via = "contextData" ->
           IF nd.class.cls \notin {"operation", "probe"} \/ NoKey \in {nd.key, nd.to}
           THEN NoNode("value") ELSE Node("contextData", nd.class, nd)

IsContextNode(node) == node.kind \in {"context", "contextData"}

Created(node) == node.class.created \union (IF node.kind = "probe" THEN {node.key} ELSE {})
Suppressed(node) == IF node.kind = "context" THEN node.class.suppressed ELSE {}
-----------------------------------------------------------------------------
(* What a node does to a payload: an error or none, the names that no one  *)
(* provides, the data, the context and the calls made of user code.        *)

Result(why, data, ctx, calls) ==
    [error |-> why, missing |-> {}, data |-> data, ctx |-> ctx, calls |-> calls]
Refused(p, data, ctx) == [Result(p.error, data, ctx, <<>>) EXCEPT !.missing = p.missing]

\* The data stay, and the context is what the last write left.
Passed(after, data, calls) == Result(after.error, data, after.ctx, calls)

\* Operations, sources and sinks write through the node, which observes the payload.
ItemResult(c, data, made) ==
    Passed(made, IF made.error # "none" \/ c.cls = "sink" THEN data
                 ELSE Output(c, Len(made.calls)), made.calls)

\* _ProbeContextInjectorNode: in a collection, the results go to the items.
Inject(node, ctx, result) ==
    IF ctx.kind = "single" THEN <<Setting(node.key, result)>>
    ELSE IF result.kind # "list" THEN <<Failing("type")>>
    ELSE [i \in DOMAIN result.of |-> SettingItem(i, node.key, result.of[i])]

ProbeNodeResult(node, data, made) ==
    LET result == ProbeResult(node.class, Len(made.calls))
    IN  IF made.error # "none" THEN Passed(made, data, made.calls)
        ELSE Passed(Perform(Inject(node, made.ctx, result), made.ctx), data, made.calls)

\* _DataOperationContextInjectorProbeNode keeps the data and publishes the result.
InjectorResult(node, data, made) ==
    IF made.error # "none" THEN Passed(made, data, made.calls)
    ELSE Passed(UpdateContext(made.ctx, node.key, Scalar(90)), data, made.calls)

\* The payload source writes into a context of its own, then the keys are merged
\* one after the other; one that is there already is an error.
Merge(own) == [i \in DOMAIN own |-> Adding(own[i][1], own[i][2])]

PayloadSourceResult(c, data, ctx, args) ==
    LET loaded == Perform(Calls(c, <<args>>), Single(NoKeys))
        after  == Perform(Merge(c.does.writes), ctx)
    IN  IF loaded.error # "none" THEN Result(loaded.error, data, ctx, loaded.calls)
        ELSE Passed(after, IF after.error = "none" THEN Output(c, 1) ELSE data, loaded.calls)

\* _ContextDataProcessorNode: the data are a value of the context.
ContextDataResult(node, data, ctx) ==
    CASE KeysError(ctx) # "none" -> Result(KeysError(ctx), data, ctx, <<>>)
      [] KeysError(ctx) = "none" /\ node.key \notin Keys(ctx) ->
           [Result("missing", data, ctx, <<>>) EXCEPT !.missing = {node.key}]
      [] OTHER -> Passed(UpdateContext(ctx, node.to, Scalar(91)), data,
                         <<Only(node.key, GetValue(ctx, node.key).value)>>)

\* The updates and deletions that the logic of a context processor asks for.
Update(k, v) == [key |-> k, value |-> v, deletes |-> FALSE]
Delete(k)    == [key |-> k, value |-> None, deletes |-> TRUE]
Requests(d, args) ==
    CASE d.kind = "script" -> d.requests
      [] d.kind = "rename" -> IF args[d.from] = None THEN <<>>
                              ELSE <<Update(d.to, args[d.from]), Delete(d.from)>>
      [] d.kind = "delete" -> IF args[d.key] = None THEN <<>> ELSE <<Delete(d.key)>>
      [] d.kind = "template" -> <<Update(d.to, Scalar(80))>>

\* _ContextProcessorNode: each request is checked against what the class declares.
Checked(c, requests) ==
    [i \in DOMAIN requests |->
        LET r == requests[i]
        IN  IF r.deletes THEN Deleting(r.key, c.suppressed) ELSE Updating(r.key, r.value, c.created)]

\* _process_single_item_with_context, with the parameters that the node found
ProcessWith(p, node, data, ctx) ==
    LET c    == node.class
        made == Perform(Run(c, p.args, data.size), ctx)
    IN  CASE p.error # "none" -> Refused(p, data, ctx)
          [] p.error = "none" /\ node.kind = "context" ->
               Passed(Perform(Checked(c, Requests(c.does, p.args)), ctx), data, <<p.args>>)
          [] p.error = "none" /\ node.kind = "payloadSource" ->
               PayloadSourceResult(c, data, ctx, p.args)
          [] p.error = "none" /\ node.kind = "probe" -> ProbeNodeResult(node, data, made)
          [] p.error = "none" /\ node.kind = "injector" -> InjectorResult(node, data, made)
          [] OTHER -> ItemResult(c, data, made)

\* _PayloadProcessor.process and _DataNode._process
Process(node, given, ctx) ==
    LET data == IF given = Nothing /\ ~IsContextNode(node) /\ node.class.in = "NoData"
                THEN NoData ELSE given
    IN  CASE node.kind = "contextData" -> ContextDataResult(node, data, ctx)
          [] ~IsContextNode(node) /\ ~Sub(data.type, node.class.in) ->
               Result("gate", data, ctx, <<>>)
          [] OTHER -> ProcessWith(Parameters(node.class, node.config, ctx), node, data, ctx)
-----------------------------------------------------------------------------
(* Inspection: the same nodes, walked with the sets of keys only           *)

NotInspected == [made |-> {}, deleted |-> {}, required |-> {}, created |-> {}, errors |-> FALSE]

\* The parameters known of a class, and those among them the context must provide.
Details(c) == IF DOMAIN c.params = {} THEN c.names ELSE DOMAIN c.params
Needs(node, w) ==
    {n \in Details(node.class) :
        Origin(n, node.class, node.config, w.made, w.deleted) \in {"context", "required"}}
    \union node.class.hook
Configured(node, w) ==
    DOMAIN node.config \union
    {n \in Details(node.class) :
        Origin(n, node.class, node.config, w.made, w.deleted) = "default"}

InspectNodeLoosely(w, node) ==                \* mutant: deleted keys are not remembered
    IF node.error # "none" THEN [w EXCEPT !.errors = TRUE]
    ELSE [w EXCEPT !.made = @ \union Created(node),
                   !.required = @ \union Needs(node, w),
                   !.created = @ \union Created(node)]

\* build_pipeline_inspection for one node
InspectNode(w, node) ==
    IF node.error # "none" THEN [w EXCEPT !.errors = TRUE]
    ELSE LET deleted == (w.deleted \ Created(node)) \union Suppressed(node)
             gone    == (Needs(node, w) \intersect deleted) \ Suppressed(node)
         IN  [made     |-> w.made \union Created(node),
              deleted  |-> deleted,
              required |-> w.required \union Needs(node, w),
              created  |-> w.created \union Created(node),
              errors   |-> w.errors \/ ~(gone \subseteq Configured(node, w))]

CompatibleBackwards(a, b) ==                  \* mutant: the types are compared the wrong way round
    a.error = "none" /\ b.error = "none" /\ ~IsContextNode(a) /\ ~IsContextNode(b)
        => Sub(b.class.in, a.class.out)

\* _validate_data_flow_compatibility: a node without types is skipped.
Compatible(a, b) ==
    a.error = "none" /\ b.error = "none" /\ ~IsContextNode(a) /\ ~IsContextNode(b)
        => Sub(a.class.out, b.class.in)

Inspection(nodes) ==
    LET walked[i \in 0 .. Len(nodes)] ==
            IF i = 0 THEN NotInspected ELSE InspectNode(walked[i - 1], nodes[i])
        w == walked[Len(nodes)]
    IN  [required |-> w.required \ w.created,
         valid    |-> ~w.errors
                      /\ \A i \in 1 .. Len(nodes) - 1 : Compatible(nodes[i], nodes[i + 1])]
-----------------------------------------------------------------------------
(* What the trace record of a node says of its parameters, before it runs  *)

\* _required_keys_for: the names without a value in the definition and without default.
RequiredKeysOfAll(node) == node.class.names \ DOMAIN node.config     \* mutant: with defaults too
RequiredKeys(node) ==
    {n \in node.class.names \ DOMAIN node.config : ~HasDefault(node.class, n)}

\* The check "required_keys_present" of _build_pre_checks.
KeysPresent(node, ctx) == RequiredKeys(node) \subseteq View(ctx)

\* _resolve_params_with_sources
Sources(node, ctx) ==
    [n \in DOMAIN node.config \union (RequiredKeys(node) \intersect View(ctx)) |->
        IF n \in DOMAIN node.config THEN "node" ELSE "context"]
================================================================================
