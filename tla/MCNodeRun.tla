------------------------------- MODULE MCNodeRun -------------------------------
(* Instances of NodeRun for TLC: some fifty node definitions over the keys   *)
(* a, b and c; all pipelines of one or two nodes, and those of three that    *)
(* are made of the definitions in Chained, with a few contexts and data.     *)
EXTENDS NodeRun

a == 1
b == 2
c == 3
x == 1
y == 2
V(n) == Scalar(n)
Nums(s) == List([i \in DOMAIN s |-> V(s[i])])
One(k, v) == k :> v
NoParams == NoKeys

Plain(params, created, writes) == Operation("Item", "Item", params, created, writes)
Def0(class) == Def(class, NoKeys, NoKey, NoSweep)

Listed(s)   == [form |-> "list", of |-> [i \in DOMAIN s |-> V(s[i])]]
Chosen(s)   == [form |-> "values", of |-> [i \in DOMAIN s |-> V(s[i])]]
Spaced(lo, hi, n, end) ==
    [form |-> "range", lo |-> lo, hi |-> hi, steps |-> n, scale |-> "linear", endpoint |-> end]
From(k)     == [form |-> "from", key |-> k]

Sweep(over, exprs, mode, broadcast, collection) ==
    [vars |-> over, exprs |-> exprs, mode |-> mode, broadcast |-> broadcast,
     collection |-> collection]
XY == a :> x @@ b :> y
Two(c1, c2) == x :> c1 @@ y :> c2

\* Elements of sweeps: operations of two or three parameters, one of which has a default.
AB  == Plain(a :> Required @@ b :> Required, {}, <<>>)
ABC == Plain(a :> Required @@ b :> Required @@ c :> V(9), {c}, <<<<c, V(40)>>>>)
SourceAB == DataSource("Item", a :> Required @@ b :> Required)
ProbeAB  == Probe("Item", a :> Required @@ b :> Required)
Swept(class, key, s) == Def(class, NoKeys, key, s)
Grid(s) == Swept(AB, NoKey, s)

NeedsA == Plain(One(a, Required), {}, <<>>)
Script(created, suppressed, requests) ==
    ContextProcessor(NoParams, created, suppressed, [kind |-> "script", requests |-> requests])

\* Definitions that are about keys.
Chained == <<
    Def0(NeedsA),
    Def0(Plain(One(a, V(5)), {}, <<>>)),
    Def0(Plain(NoParams, {b}, <<<<b, V(50)>>>>)),
    Def0(Plain(One(b, Required), {a}, <<>>)),
    Def0(Plain(NoParams, {a}, <<<<a, None>>>>)),
    Def0(Renamer(a, b)), Def0(Deleter(a)), Def0(Template({a, b}, c)),
    Def(Probe("Item", NoParams), NoKeys, b, NoSweep),
    Swept(ProbeAB, c, Sweep(Two(Chosen(<<1, 2>>), Chosen(<<3>>)), XY, "combinatorial", FALSE, "none")),
    Swept(ABC, NoKey, Sweep(x :> From(a), a :> x, "combinatorial", FALSE, "Items"))>>

Others == <<
    \* types
    Def0(Operation("Item", "Fine", NoParams, {}, <<>>)),
    Def0(Operation("Fine", "Item", NoParams, {}, <<>>)),
    Def0(DataSource("Item", One(a, V(5)))), Def0(DataSink("Item", One(b, Required))),
    Def0(PayloadSource("Item", NoParams, {a, b}, <<<<b, V(60)>>, <<a, V(61)>>>>)),
    Def0(PayloadSource("Item", NoParams, {}, <<<<b, V(60)>>>>)),
    Def0(Sliced(Plain(One(b, Required), {a}, <<<<a, V(51)>>>>))),
    Def(Sliced(Probe("Item", NoParams)), NoKeys, c, NoSweep),
    \* keys
    Def(NeedsA, One(a, V(3)), NoKey, NoSweep),
    Def0(Plain(NoParams, {b}, <<<<b, V(50)>>, <<c, V(52)>>>>)),
    Def(Renamer(a, b), One(a, V(4)), NoKey, NoSweep), Def0(Renamer(a, a)),
    Def0(Script({b}, {a}, <<Update(b, V(62)), Delete(a)>>)),
    Def0(Script({}, {a}, <<Delete(a), Update(b, V(62))>>)),
    \* sweeps
    Grid(Sweep(Two(Listed(<<1, 2, 3>>), Spaced(0, 8, 2, FALSE)), XY, "combinatorial", FALSE, "Items")),
    Grid(Sweep(Two(Chosen(<<1, 2, 3>>), Spaced(0, 4, 2, TRUE)), XY, "by_position", TRUE, "Items")),
    Grid(Sweep(Two(Chosen(<<1, 2, 3>>), Chosen(<<4, 5>>)), XY, "by_position", FALSE, "Items")),
    Grid(Sweep(x :> Listed(<<1, 10>>), a :> x, "combinatorial", FALSE, "Items")),
    Grid(Sweep(Two(Chosen(<<1, 2>>), Chosen(<<4, 5>>)), a :> x, "combinatorial", FALSE, "Items")),
    Swept(SourceAB, NoKey, Sweep(Two(Chosen(<<1, 2>>), Chosen(<<4, 5>>)), XY, "by_position", FALSE, "Items")),
    Swept(SourceAB, NoKey, Sweep(x :> From(c), a :> x, "combinatorial", FALSE, "Items")),
    Swept(Plain(One(a, Required), {}, <<<<c, V(53)>>>>), NoKey,
          Sweep(x :> Chosen(<<1, 2>>), a :> x, "combinatorial", FALSE, "Items")),
    \* made by a program
    InjectorDef(NeedsA, NoKeys, b), InjectorDef(NeedsA, NoKeys, NoKey),
    ContextDataDef(NeedsA, a, c), ContextDataDef(DataSink("Item", NoParams), a, c)>>

\* Definitions that are refused, alone.
Refusals == <<
    Def0(Unresolved), Def0(Class("other", "Item", "Item", NoParams, {}, Code(<<>>))),
    Def(NeedsA, NoKeys, b, NoSweep), Def(Probe("Item", NoParams), NoKeys, NoKey, NoSweep),
    Def(NeedsA, One(c, V(3)), NoKey, NoSweep),
    Def0([NeedsA EXCEPT !.open = TRUE])>> \o
    [i \in 1 .. 5 |-> Grid(Sweep(x :> <<Listed(<<>>), Spaced(0, 1, 0, TRUE), [form |-> "string"],
                                       [form |-> "other"],
                                       [Spaced(0, 1, 2, TRUE) EXCEPT !.scale = "sqrt"]>>[i],
                                 a :> x, "combinatorial", FALSE, "Items"))] \o <<
    Grid(Sweep(NoKeys, NoKeys, "combinatorial", FALSE, "Items")),
    Grid(Sweep(x :> Chosen(<<1>>), a :> x, "zip", FALSE, "Items")),
    Grid(Sweep(x :> Chosen(<<1>>), a :> x, "combinatorial", FALSE, "none")),
    Grid(Sweep(x :> Chosen(<<1>>), a :> x, "combinatorial", FALSE, "other")),
    Grid(Sweep(x :> Chosen(<<1>>), a :> y, "combinatorial", FALSE, "Items")),
    Grid(Sweep(x :> Chosen(<<1>>), c :> x, "combinatorial", FALSE, "Items")),
    Grid(Sweep(Two(From(c), From(c)), XY, "combinatorial", FALSE, "Items")),
    Grid(Sweep(x :> From(b), a :> x, "combinatorial", FALSE, "Items")),
    Swept(ProbeAB, c, Sweep(x :> Chosen(<<1>>), a :> x, "combinatorial", FALSE, "Items")),
    Swept(DataSink("Item", NoParams), NoKey,
          Sweep(x :> Chosen(<<1>>), NoKeys, "combinatorial", FALSE, "Items"))>>

AllDefinitions == Chained \o Others \o Refusals
Usable == 1 .. Len(Chained \o Others)

AllContexts == {
    Single(NoKeys), Single(One(a, V(21))), Single(a :> V(21) @@ b :> V(22)),
    Single(a :> Nums(<<23, 24>>) @@ c :> Nums(<<25>>)), Single(a :> None @@ c :> List(<<>>)),
    Collection(One(a, V(21)), <<One(b, V(26)), One(b, V(27))>>),
    Collection(NoKeys, <<One(a, V(28)), NoKeys>>)}

AllData == {NoData, Nothing, [type |-> "Item", size |-> 1], [type |-> "Items", size |-> 2]}

Item == [type |-> "Item", size |-> 1]
Given(pipes, contexts, datas) == [pipe : pipes, ctx : contexts, data : datas]

AllInputs ==
    Given({<<i>> : i \in DOMAIN AllDefinitions}, AllContexts, AllData)
    \union Given({<<i, j>> : i, j \in Usable}, AllContexts, AllData \ {Nothing})
    \union Given({<<i, j, k>> : i, j, k \in DOMAIN Chained}, AllContexts, {Item})

AllCollections == {
    Collection(NoKeys, <<NoKeys, NoKeys>>), Collection(One(a, V(1)), <<One(a, V(1))>>),
    Collection(NoKeys, <<>>)}
CKeys == {a, b}
CValues == {None, V(1), V(2)}
================================================================================
