------------------------------ MODULE MCRegistry ------------------------------
(* An instance of Registry for TLC: two threads, a default module, two        *)
(* modules that define a class of the same name, and one that may be broken.  *)
EXTENDS Registry, TLC

CONSTANTS w1, w2, dflt, ma, mb, broken, x, y, z

Workers == Permutations(Threads)

MCOffers == dflt :> {x} @@ ma :> {y} @@ mb :> {y, z} @@ broken :> {z}
MCSortedList ==
    [S \in SUBSET Modules |-> LET In(m) == m \in S IN SelectSeq(<<ma, mb, broken, dflt>>, In)]
MCDefaults == <<dflt>>

Hook(form, modules) == [form |-> form, modules |-> modules]
MCHooks == <<Hook("module", <<mb>>), Hook("entry", <<ma>>), Hook("missing", <<>>),
             Hook("swallowed", <<ma>>), Hook("raises", <<ma>>), Hook("entryRaises", <<mb>>)>>

Profile(defaults, modules, extensions) ==
    [defaults |-> defaults, modules |-> modules, extensions |-> extensions]
MCProfiles == {
    Profile(TRUE, <<mb, ma>>, {}), Profile(FALSE, <<broken>>, {5}), Profile(FALSE, <<>>, {1, 2}),
    Profile(FALSE, <<>>, {3, 4}), Profile(FALSE, <<>>, {6})}

Symbol(names, slice, from) == [names |-> names, slice |-> slice, from |-> from]
MCSymbols == {Symbol({x}, FALSE, None), Symbol({y, z}, TRUE, None), Symbol({z}, FALSE, broken)}
================================================================================
