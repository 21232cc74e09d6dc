------------------------------- MODULE Processors -------------------------------
(***************************************************************************)
(* Processor classes: what the framework knows of the code a node runs     *)
(* (data_processors.py, context_processors.py), the classes it makes       *)
(* itself - renamers, deleters and templates (context_processors/          *)
(* factory.py), slicers (data_slicer_factory.py), data sources and sinks   *)
(* (io_operation_factory.py), parameter sweeps (node_preprocess.py,        *)
(* parametric_sweep_factory.py) - and how the parameters of a call are     *)
(* found (pipeline/_param_resolution.py).                                  *)
(*                                                                         *)
(* A class is a record: what it derives from, its data types, its          *)
(* parameters with their defaults, the names it asks for, the keys it says *)
(* it creates and suppresses, and what its code does to a context. Names   *)
(* of keys, parameters and variables are numbers; the results of user code *)
(* are opaque scalars.                                                     *)
(***************************************************************************)
EXTENDS Contexts, Enumeration

Required == [kind |-> "required", n |-> 0, of |-> <<>>]    \* no default

Sub(t, u) == t = u \/ u = "Any" \/ (t = "Fine" /\ u = "Item")

Code(writes) == [kind |-> "code", writes |-> writes]

\* A closed signature: the names asked for are the parameters.
Class(cls, in, out, params, created, does) ==
    [cls |-> cls, in |-> in, out |-> out, params |-> params, names |-> DOMAIN params,
     open |-> FALSE, dynamic |-> FALSE, created |-> created, suppressed |-> {},
     hook |-> {}, sliced |-> FALSE, does |-> does]

Operation(in, out, params, created, writes) ==
    Class("operation", in, out, params, created, Code(writes))
Probe(in, params) == Class("probe", in, in, params, {}, Code(<<>>))

\* _IOOperationFactory: a source takes no data, a sink gives back what it was given.
DataSource(out, params) == Class("source", "NoData", out, params, {}, Code(<<>>))
DataSink(in, params)    == Class("sink", in, in, params, {}, Code(<<>>))
PayloadSource(out, params, injected, held) ==
    Class("payloadSource", "NoData", out, params, injected, Code(held))

\* ContextProcessor, with the updates and deletions that its code asks for.
ContextProcessor(params, created, suppressed, does) ==
    [Class("context", "Any", "Any", params, created, does) EXCEPT !.suppressed = suppressed]

Generated(names, created, suppressed, does) ==
    [ContextProcessor(NoKeys, created, suppressed, does) EXCEPT
        !.names = names, !.open = TRUE, !.dynamic = TRUE]
Renamer(from, to)   == Generated({from}, {to}, {from},
                                 [kind |-> "rename", from |-> from, to |-> to])
Deleter(k)          == Generated({k}, {}, {k}, [kind |-> "delete", key |-> k])
Template(keys, to)  == Generated(keys, {to}, {}, [kind |-> "template", to |-> to])

\* slice(): the class, for each item of a collection; a node of a probe gives back
\* what it was given.
Sliced(c) == [c EXCEPT !.sliced = TRUE, !.in = "Items", !.out = "Items"]
\* What user code may say of itself. A probe and a sink give back what they were
\* given, a data source has no way to declare a key, and no parameter is named like an
\* entry of to_dict().
Types == {"None", "NoData", "Item", "Fine", "Items"}
IsWork(does, names) ==
    \/ /\ does.kind = "script" /\ IsSequence(does.requests)
       /\ \A i \in DOMAIN does.requests : IsValue(does.requests[i].value)
    \/ does.kind = "rename" /\ does.from \in names
    \/ does.kind = "delete" /\ does.key \in names
    \/ does.kind = "template"
IsClass(c) ==
    /\ c = [cls |-> c.cls, in |-> c.in, out |-> c.out, params |-> c.params, names |-> c.names,
            open |-> c.open, dynamic |-> c.dynamic, created |-> c.created,
            suppressed |-> c.suppressed, hook |-> c.hook, sliced |-> c.sliced, does |-> c.does]
    /\ c.cls \in {"operation", "probe", "source", "sink", "payloadSource", "context", "other"}
    /\ \A n \in DOMAIN c.params : c.params[n] = Required \/ IsValue(c.params[n])
    /\ DOMAIN c.params \in {c.names, {}} /\ c.names \intersect Entries = {}
    /\ c.cls \in {"probe", "sink"} => c.out = c.in
    /\ c.cls = "source" => c.created = {}
    /\ IF c.cls = "context" THEN IsWork(c.does, c.names)
       ELSE /\ c.out \in Types /\ c.does.kind = "code" /\ IsSequence(c.does.writes)
            /\ \A i \in DOMAIN c.does.writes : IsValue(c.does.writes[i][2])
-----------------------------------------------------------------------------
(* Parameters *)

\* classify_unknown_config_params: an open signature is refused, or takes anything.
ConfigError(c, config) ==
    IF c.open THEN IF c.dynamic THEN "none" ELSE "value"
    ELSE IF DOMAIN config \subseteq DOMAIN c.params THEN "none" ELSE "parameter"

HasParameter(c, name) == name \in DOMAIN c.params      \* mutant: no default is one, too

HasDefault(c, name) == name \in DOMAIN c.params /\ c.params[name] # Required

\* resolve_runtime_value
Resolve(name, c, config, ctx) ==
    IF name \in DOMAIN config THEN Value(config[name])
    ELSE IF KeysError(ctx) # "none" THEN NoValue(KeysError(ctx))
    ELSE IF name \in Keys(ctx) THEN GetValue(ctx, name)
    ELSE IF HasDefault(c, name) THEN Value(c.params[name])
    ELSE NoValue("missing")

\* inspect_origin
Origin(name, c, config, made, deleted) ==
    IF name \in DOMAIN config THEN "config"
    ELSE IF name \in made \ deleted THEN "context"
    ELSE IF HasDefault(c, name) THEN "default" ELSE "required"

\* _get_processor_parameters: the call, or the names that nothing provides.
Parameters(c, config, ctx) ==
    LET found   == [name \in c.names |-> Resolve(name, c, config, ctx)]
        failing == {name \in c.names : found[name].error # "none"}
    IN  [error   |-> IF failing = {} THEN "none"
                     ELSE found[CHOOSE name \in failing : TRUE].error,
         missing |-> {name \in failing : found[name].error = "missing"},
         args    |-> [name \in c.names \ failing |-> found[name].value]]
-----------------------------------------------------------------------------
(* Parameter sweeps *)

NoSweep == [mode |-> "none"]

ValuesKey(v) == v + 10           \* the key of f"{var}_values"

\* What a configuration may ask for.
IsSpec(s) ==
    /\ s.form = "range" => s.steps \in Int /\ s.lo \in Int /\ s.hi \in Int
    /\ s.form \in {"list", "values"} =>
         IsSequence(s.of) /\ \A i \in DOMAIN s.of : s.of[i].kind \in Kinds
    /\ s.form = "from" => s.key \notin Entries
IsSweep(s) ==
    /\ IsFiniteSet(DOMAIN s.vars) /\ DOMAIN s.vars \subseteq Int
    /\ \A v \in DOMAIN s.vars : IsSpec(s.vars[v])

\* RangeSpec: numbers in equal steps; on a log scale these are the exponents.
RangeError(s) ==
    IF s.steps <= 0 \/ s.scale \notin {"linear", "log"} THEN "value" ELSE "none"
Points(s) ==
    LET gaps == IF s.endpoint THEN Max({s.steps - 1, 1}) ELSE s.steps
    IN  [i \in 1 .. s.steps |-> Scalar(s.lo + ((i - 1) * (s.hi - s.lo)) \div gaps)]

\* _convert_var_specs: a list of two numbers is a range of ten steps.
IsPair(s) == Len(s.of) = 2 /\ \A i \in 1 .. 2 : s.of[i].kind = "scalar"
Converted(s) ==
    IF s.form = "list" /\ IsPair(s)
    THEN [form |-> "range", lo |-> s.of[1].n, hi |-> s.of[2].n, steps |-> 10,
          scale |-> "linear", endpoint |-> TRUE]
    ELSE IF s.form = "list" THEN [form |-> "values", of |-> s.of] ELSE s
SpecError(s) ==
    CASE s.form = "range" -> RangeError(s)
      [] s.form = "values" -> IF s.of = <<>> THEN "value" ELSE "none"
      [] s.form = "string" -> "type"
      [] s.form = "from" -> "none"
      [] OTHER -> "value"

Asked(vars) == {v \in DOMAIN vars : vars[v].form = "from"}

\* What preprocess_node_config and ParametricSweepFactory.create refuse.
SweepError(element, s) ==
    LET vars == [v \in DOMAIN s.vars |-> Converted(s.vars[v])]
        asks == {vars[v].key : v \in Asked(vars)}
        bad  == {v \in DOMAIN vars : SpecError(vars[v]) # "none"}
    IN  IF DOMAIN vars = {} \/ s.mode \notin {"combinatorial", "by_position"} THEN "value"
        ELSE IF bad # {} THEN SpecError(vars[CHOOSE v \in bad : TRUE])
        ELSE IF element.cls \notin {"source", "operation", "probe"} THEN "value"
        ELSE IF (element.cls = "probe") # (s.collection = "none") THEN "value"
        ELSE IF s.collection \notin {"none", "Items"} THEN "value"
        ELSE IF \E p \in DOMAIN s.exprs : s.exprs[p] \notin DOMAIN vars THEN "value"
        ELSE IF ~(DOMAIN s.exprs \subseteq DOMAIN element.params) THEN "type"
        ELSE IF Cardinality(asks) # Cardinality(Asked(vars))
                \/ asks \intersect (DOMAIN element.params \ DOMAIN s.exprs) # {} THEN "value"
        ELSE "none"

SweepClass(element, s) ==
    LET vars  == [v \in DOMAIN s.vars |-> Converted(s.vars[v])]
        asks  == {vars[v].key : v \in Asked(vars)}
        free  == Restrict(element.params, DOMAIN element.params \ DOMAIN s.exprs)
        params == Over(free, [k \in asks |-> Required])
        values == {ValuesKey(v) : v \in DOMAIN vars}
    IN  [element EXCEPT !.out     = IF element.cls = "probe" THEN @ ELSE s.collection,
                        !.params  = params,
                        !.names   = DOMAIN params,
                        !.open    = TRUE,
                        !.dynamic = TRUE,
                        !.created = values \union (IF element.cls = "source" THEN {} ELSE @),
                        !.hook    = IF element.cls = "source" THEN {} ELSE asks,
                        !.sliced  = FALSE,
                        !.does    = [kind |-> "sweep", element |-> element, vars |-> vars,
                                     exprs |-> s.exprs, mode |-> s.mode,
                                     broadcast |-> s.broadcast, free |-> DOMAIN free]]

\* _materialize_sequences: the values of each variable.
SequenceOf(s, args) ==
    CASE s.form = "range"  -> Points(s)
      [] s.form = "values" -> s.of
      [] s.form = "from"   -> args[s.key].of
MaterializeError(vars, args) ==
    IF \E v \in Asked(vars) : args[vars[v].key].kind # "list" THEN "type"
    ELSE IF \E v \in Asked(vars) : args[vars[v].key].of = <<>> THEN "value" ELSE "none"
Materialize(vars, args) == [v \in DOMAIN vars |-> SequenceOf(vars[v], args)]

Lengths(seqs) == {Len(seqs[v]) : v \in DOMAIN seqs}
ByPosition(seqs, n) == [i \in 1 .. n |->
    [v \in DOMAIN seqs |-> seqs[v][((i - 1) % Len(seqs[v])) + 1]]]

\* The product, the first name in the order of the sorted ones varying slowest.
Product(seqs) ==
    LET names == Reverse(Sorted(DOMAIN seqs))
        place(v) == CHOOSE j \in DOMAIN names : names[j] = v
        block[j \in 0 .. Len(names)] ==      \* combinations of the j fastest
            IF j = 0 THEN 1 ELSE block[j - 1] * Len(seqs[names[j]])
    IN  [i \in 1 .. block[Len(names)] |->
            [v \in DOMAIN seqs |->
                seqs[v][(((i - 1) \div block[place(v) - 1]) % Len(seqs[v])) + 1]]]

IterateShortest(seqs, mode, broadcast) ==     \* mutant: positions stop at the shortest list
    [error |-> "none",
     steps |-> IF mode = "by_position" THEN ByPosition(seqs, Min(Lengths(seqs)))
               ELSE Product(seqs)]

\* _iterate_sweep
Iterate(seqs, mode, broadcast) ==
    IF mode = "combinatorial" THEN [error |-> "none", steps |-> Product(seqs)]
    ELSE IF ~broadcast /\ Cardinality(Lengths(seqs)) # 1
    THEN [error |-> "value", steps |-> <<>>]
    ELSE [error |-> "none", steps |-> ByPosition(seqs, Max(Lengths(seqs)))]
-----------------------------------------------------------------------------
(* What the code of a data processor does to the context of its observer   *)

WriteAny(c, w) == Setting(w[1], w[2])        \* mutant: any key may be written

\* _notify_context_update refuses a key that the class does not declare.
Write(c, w) == Updating(w[1], w[2], c.created)

\* One call for each element of a sequence of arguments, with the writes it makes.
Calls(c, argss) ==
    LET width == Len(c.does.writes) + 1
    IN  [n \in 1 .. Len(argss) * width |->
            LET j == (n - 1) % width
            IN  IF j = 0 THEN Calling(argss[((n - 1) \div width) + 1])
                ELSE Write(c, c.does.writes[j])]

\* _publish_created_context: one set_value for each variable.
Publish(seqs) ==
    LET names == Reverse(Sorted(DOMAIN seqs))
    IN  [j \in DOMAIN names |-> Setting(ValuesKey(names[j]), List(seqs[names[j]]))]

SweepArgs(d, args, step) ==
    Over([p \in DOMAIN d.exprs |-> step[d.exprs[p]]], Restrict(args, d.free))

\* A sweep of a probe publishes nothing: no observer is given to it.
RunSweep(c, args) ==
    LET d     == c.does
        bad   == MaterializeError(d.vars, args)
        seqs  == Materialize(d.vars, args)
        iter  == Iterate(seqs, d.mode, d.broadcast)
        argss == [i \in DOMAIN iter.steps |-> SweepArgs(d, args, iter.steps[i])]
    IN  IF bad # "none" THEN <<Failing(bad)>>
        ELSE IF iter.error # "none" THEN <<Failing(iter.error)>>
        ELSE Calls(d.element, argss) \o (IF c.cls = "probe" THEN <<>> ELSE Publish(seqs))

\* process()
Run(c, args, size) ==
    IF c.does.kind = "sweep" THEN RunSweep(c, args)
    ELSE Calls(c, [i \in 1 .. (IF c.sliced THEN size ELSE 1) |-> args])

\* What is returned: data with as many items as calls, and the result of a probe.
MakesMany(c)      == c.sliced \/ c.does.kind = "sweep"
Output(c, n)      == [type |-> c.out, size |-> IF MakesMany(c) THEN n ELSE 1]
ProbeResult(c, n) == LET one(i) == Scalar(70 + i)
                     IN  IF MakesMany(c) THEN List([i \in 1 .. n |-> one(i)]) ELSE one(1)
================================================================================
