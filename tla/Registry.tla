-------------------------------- MODULE Registry --------------------------------
(***************************************************************************)
(* The registry of processor classes, one per process, and the threads that*)
(* use it: workers that apply the profile of each job and then resolve the *)
(* names in its pipeline, and the callers that capture profiles            *)
(* (registry/processor_registry.py, bootstrap.py, plugin_registry.py,      *)
(* resolve.py, builtin_resolvers.py). Nothing is locked but the import of  *)
(* a module, by Python: every test, mark and store of a dictionary is a    *)
(* step of its own.                                                        *)
(*                                                                         *)
(* A class is known by its name and the module that defines it. Extensions *)
(* are numbers, for they are loaded in sorted order. What an extension's   *)
(* hook does is to register modules.                                       *)
(***************************************************************************)
EXTENDS Naturals, Sequences

CONSTANTS
    Threads, Modules, Names, None,
    Offers,       \* the names of the classes that a module defines
    Fragile,      \* modules whose import may fail
    SortedList,   \* of a set of modules: the sequence of them in the order of their names
    Defaults,     \* DEFAULT_MODULES, a sequence
    Extensions,   \* what may be asked for as an extension; numbers
    Hooks,        \* of an extension: the form of its hook, and the modules it registers
    Profiles,     \* load_defaults, modules (a sequence) and extensions (a set)
    Symbols,      \* names looked up together, whether as a slice, and "module:Class"
    MaxOps        \* operations of a thread

Forms == {"module",          \* importable, with a class or a function that registers
          "raises",          \* importable, with a function register() that raises
          "swallowed",       \* importable, with an extension class that raises
          "entry",           \* an entry point only
          "entryRaises",     \* an entry point whose hook raises
          "missing"}

ASSUME RegistryAssumption ==
    /\ None \notin Modules
    /\ Offers \in [Modules -> SUBSET Names]
    /\ SortedList \in [SUBSET Modules -> Seq(Modules)]
    /\ \A S \in SUBSET Modules : {SortedList[S][i] : i \in DOMAIN SortedList[S]} = S
    /\ Defaults \in Seq(Modules)
    /\ Extensions \subseteq Nat
    /\ Hooks \in [Extensions -> [form : Forms, modules : Seq(Modules)]]
    /\ Profiles \subseteq [defaults : BOOLEAN, modules : Seq(Modules),
                           extensions : SUBSET Extensions]
    /\ Symbols \subseteq [names : SUBSET Names, slice : BOOLEAN, from : Modules \union {None}]

VARIABLES
    processors,      \* _processors: the module whose class a name stands for, or None
    marked,          \* _registered_modules
    moduleHistory,   \* _module_history
    defaultsLoaded,  \* _defaults_loaded
    loaded,          \* _LOADED_EXTENSIONS
    imported,        \* sys.modules
    importing,       \* the import lock of each module: a thread or None
    pc, todo, then, mod, left, exts, rest, ext, sym,   \* where each thread is
    result,          \* how its last operation ended
    begun,           \* the operations it began
    served,          \* the modules that register_modules went over for it (history)
    failed,          \* the modules whose import failed (history)
    taken            \* a profile that was captured and applied to an empty registry (history)

registry == <<processors, marked, moduleHistory, defaultsLoaded, loaded>>
python   == <<imported, importing>>
request  == <<exts, rest, sym>>
frame    == <<todo, then, mod, left, ext, request>>
history  == <<served, failed, taken>>
vars     == <<registry, python, pc, frame, result, begun, history>>

Elements(s) == {s[i] : i \in DOMAIN s}
Bound == {n \in Names : processors[n] # None}
Least(S) == CHOOSE e \in S : \A f \in S : e <= f

NotTaken == [stage |-> "none", modules |-> {}, processors |-> [n \in Names |-> None]]

Init ==
    /\ processors = [n \in Names |-> None]
    /\ marked = {} /\ moduleHistory = <<>> /\ defaultsLoaded = FALSE /\ loaded = {}
    /\ imported = {} /\ importing = [m \in Modules |-> None]
    /\ pc = [t \in Threads |-> "idle"]
    /\ todo = [t \in Threads |-> <<>>]
    /\ then = [t \in Threads |-> "idle"]
    /\ mod = [t \in Threads |-> None]
    /\ left = [t \in Threads |-> {}]
    /\ exts = [t \in Threads |-> {}] /\ rest = [t \in Threads |-> {}]
    /\ ext = [t \in Threads |-> None] /\ sym = [t \in Threads |-> None]
    /\ result = [t \in Threads |-> "none"]
    /\ begun = [t \in Threads |-> 0]
    /\ served = [t \in Threads |-> {}] /\ failed = {}
    /\ taken = NotTaken

Goto(t, where)   == pc' = [pc EXCEPT ![t] = where]
Finish(t, how)   ==
    /\ Goto(t, "idle")
    /\ result' = [result EXCEPT ![t] = how]
    /\ exts' = [exts EXCEPT ![t] = {}] /\ rest' = [rest EXCEPT ![t] = {}]
    /\ sym' = [sym EXCEPT ![t] = None]
Continue(t, where) == Goto(t, where) /\ UNCHANGED <<result, request>>
Idle == \A t \in Threads : pc[t] = "idle"

\* A replayed profile has the process for itself, until it has been applied.
Begin(t) ==
    /\ pc[t] = "idle" /\ begun[t] < MaxOps
    /\ begun' = [begun EXCEPT ![t] = @ + 1]
    /\ result' = [result EXCEPT ![t] = "none"]

Alone == taken.stage # "replaying"
-----------------------------------------------------------------------------
(* apply_profile, resolve_symbol, current_profile, clear                   *)

RegisterThen(t, modules, where) ==
    /\ todo' = [todo EXCEPT ![t] = modules]
    /\ then' = [then EXCEPT ![t] = where]
    /\ Goto(t, "modules")

Apply(t, p) ==
    /\ RegisterThen(t, (IF p.defaults THEN Defaults ELSE <<>>) \o p.modules, "extensions")
    /\ exts' = [exts EXCEPT ![t] = p.extensions]
    /\ rest' = [rest EXCEPT ![t] = p.extensions]
    /\ UNCHANGED <<mod, left, ext, sym>>

ApplyProfile(t) ==
    /\ Begin(t) /\ Alone
    /\ \E p \in Profiles : Apply(t, p)
    /\ taken' = NotTaken
    /\ UNCHANGED <<registry, python, served, failed>>

DefaultsNeverLoaded == ~defaultsLoaded /\ Bound = {}    \* mutant: any class will do

\* ensure_default_modules
DefaultsMissing == ~defaultsLoaded \/ Bound = {}

ResolveSymbol(t) ==
    /\ Begin(t) /\ Alone
    /\ \E s \in Symbols : sym' = [sym EXCEPT ![t] = s]
    /\ IF DefaultsMissing THEN RegisterThen(t, Defaults, "flag")
       ELSE Goto(t, "lookup") /\ UNCHANGED <<todo, then>>
    /\ taken' = NotTaken
    /\ UNCHANGED <<registry, python, mod, left, exts, rest, ext, served, failed>>

Emptied ==
    /\ processors' = [n \in Names |-> None]
    /\ marked' = {} /\ moduleHistory' = <<>> /\ defaultsLoaded' = FALSE /\ loaded' = {}
    /\ served' = [t \in Threads |-> {}] /\ failed' = {}

\* clear(), which tests call between two uses; the modules stay imported.
Clear(t) ==
    /\ Begin(t) /\ Idle /\ Emptied
    /\ taken' = NotTaken
    /\ UNCHANGED <<python, pc, frame>>

\* current_profile(), and apply_profile() of it where nothing is registered yet.
Replay(t) ==
    /\ Begin(t) /\ Idle /\ Alone
    /\ Emptied
    /\ Apply(t, [defaults |-> TRUE, modules |-> SortedList[Elements(moduleHistory)],
                 extensions |-> {}])
    /\ taken' = [stage |-> "replaying", modules |-> marked,
                 processors |-> processors]
    /\ UNCHANGED python
-----------------------------------------------------------------------------
(* register_modules                                                        *)

Skip(t) ==
    /\ served' = [served EXCEPT ![t] = @ \union {Head(todo[t])}]
    /\ todo' = [todo EXCEPT ![t] = Tail(@)]
    /\ mod' = [mod EXCEPT ![t] = None]

\* "if module_name in cls._registered_modules"
TestMarked(t) ==
    /\ pc[t] = "modules" /\ todo[t] # <<>>
    /\ IF Head(todo[t]) \in marked
       THEN Skip(t) /\ UNCHANGED pc
       ELSE /\ mod' = [mod EXCEPT ![t] = Head(todo[t])]
            /\ Goto(t, "mark")
            /\ UNCHANGED <<served, todo>>
    /\ UNCHANGED <<registry, python, then, left, exts, rest, ext, sym, result, begun, failed,
                   taken>>

MarkIfNew(t) ==                      \* mutant: the history has first imports only
    /\ pc[t] = "mark"
    /\ marked' = marked \union {mod[t]}
    /\ moduleHistory' = IF mod[t] \in imported THEN moduleHistory
                        ELSE Append(moduleHistory, mod[t])
    /\ Goto(t, "import")
    /\ UNCHANGED <<processors, defaultsLoaded, loaded, python, frame, result, begun, history>>

\* Another thread may have marked the module in between: both go on.
Mark(t) ==
    /\ pc[t] = "mark"
    /\ marked' = marked \union {mod[t]}
    /\ moduleHistory' = Append(moduleHistory, mod[t])
    /\ Goto(t, "import")
    /\ UNCHANGED <<processors, defaultsLoaded, loaded, python, frame, result, begun, history>>

\* importlib.import_module: a thread waits for another one that imports the module.
Import(t) ==
    /\ pc[t] = "import" /\ importing[mod[t]] = None
    /\ IF mod[t] \in imported
       THEN /\ Goto(t, "publish") /\ left' = [left EXCEPT ![t] = Offers[mod[t]]]
            /\ UNCHANGED importing
       ELSE /\ Goto(t, "loading") /\ importing' = [importing EXCEPT ![mod[t]] = t]
            /\ UNCHANGED left
    /\ UNCHANGED <<registry, imported, todo, then, mod, exts, rest, ext, sym, result, begun,
                   history>>

Imported(t) ==
    /\ pc[t] = "loading"
    /\ imported' = imported \union {mod[t]}
    /\ importing' = [importing EXCEPT ![mod[t]] = None]
    /\ left' = [left EXCEPT ![t] = Offers[mod[t]]]
    /\ Goto(t, "publish")
    /\ UNCHANGED <<registry, todo, then, mod, exts, rest, ext, sym, result, begun, history>>

\* A warning; the module stays marked.
ImportFails(t) ==
    /\ pc[t] = "loading" /\ mod[t] \in Fragile
    /\ importing' = [importing EXCEPT ![mod[t]] = None]
    /\ failed' = failed \union {mod[t]}
    /\ Skip(t)
    /\ Goto(t, "modules")
    /\ UNCHANGED <<registry, imported, then, left, exts, rest, ext, sym, result, begun, taken>>

\* One of the classes; the code goes by name, and nothing depends on the order.
PublishClass(t) ==
    /\ pc[t] = "publish"
    /\ \E n \in left[t] :
         /\ processors' = [processors EXCEPT ![n] = mod[t]]
         /\ left' = [left EXCEPT ![t] = @ \ {n}]
    /\ UNCHANGED <<marked, moduleHistory, defaultsLoaded, loaded, python, pc, todo, then, mod,
                   exts, rest, ext, sym, result, begun, history>>

Published(t) ==
    /\ pc[t] = "publish" /\ left[t] = {}
    /\ Skip(t)
    /\ Goto(t, "modules")
    /\ UNCHANGED <<registry, python, then, left, exts, rest, ext, sym, result, begun, failed,
                   taken>>

Registered(t) ==
    /\ pc[t] = "modules" /\ todo[t] = <<>>
    /\ Goto(t, then[t])
    /\ then' = [then EXCEPT ![t] = "idle"]
    /\ UNCHANGED <<registry, python, todo, mod, left, ext, request, result, begun, history>>
-----------------------------------------------------------------------------
(* resolve_symbol, after the default modules                               *)

SetFlag(t) ==
    /\ pc[t] = "flag"
    /\ defaultsLoaded' = TRUE
    /\ Goto(t, "lookup")
    /\ UNCHANGED <<processors, marked, moduleHistory, loaded, python, frame, result, begun,
                   history>>

\* Whoever finds the flag set relies on the default modules, too. "module:Class" is no
\* name of a class.
Lookup(t) ==
    /\ pc[t] = "lookup"
    /\ IF sym[t].from # None THEN Continue(t, "fetch")
       ELSE IF sym[t].names \subseteq Bound THEN Finish(t, "found")
       ELSE IF sym[t].slice THEN Finish(t, "key")
       ELSE Finish(t, "unknown")
    /\ served' = [served EXCEPT ![t] = @ \union Elements(Defaults)]
    /\ UNCHANGED <<registry, python, todo, then, mod, left, ext, begun, failed, taken>>

\* The module of "module:Class" is imported, and not registered.
Fetch(t) ==
    LET m == sym[t].from IN
    /\ \/ /\ pc[t] = "fetch" /\ importing[m] = None
          /\ IF m \in imported THEN Continue(t, "fetched") /\ UNCHANGED importing
             ELSE Continue(t, "fetching") /\ importing' = [importing EXCEPT ![m] = t]
          /\ UNCHANGED imported
       \/ /\ pc[t] = "fetching"
          /\ importing' = [importing EXCEPT ![m] = None]
          /\ \/ imported' = imported \union {m} /\ Continue(t, "fetched")
             \/ m \in Fragile /\ Finish(t, "import") /\ UNCHANGED imported
    /\ UNCHANGED <<registry, todo, then, mod, left, ext, begun, history>>

RegisterProcessor(t) ==
    /\ pc[t] = "fetched"
    /\ processors' = [n \in Names |-> IF n \in sym[t].names THEN sym[t].from ELSE processors[n]]
    /\ Finish(t, "found")
    /\ UNCHANGED <<marked, moduleHistory, defaultsLoaded, loaded, python, todo, then, mod, left,
                   ext, begun, history>>
-----------------------------------------------------------------------------
(* load_extensions: first as modules, then as entry points                 *)

NextExtension(t, e) == exts[t] # {} /\ e = Least(exts[t])
Done(t, e)  == exts' = [exts EXCEPT ![t] = @ \ {e}]
Solved(t, e) == rest' = [rest EXCEPT ![t] = @ \ {e}]
CallHook(t, e, where) ==
    /\ ext' = [ext EXCEPT ![t] = e]
    /\ RegisterThen(t, Hooks[e].modules, where)

SkipLoaded(t) ==                     \* mutant: what is loaded already is not resolved
    /\ pc[t] = "extensions"
    /\ \E e \in exts[t] :
         /\ NextExtension(t, e)
         /\ IF Hooks[e].form \in {"module", "raises", "swallowed"} /\ e \notin loaded
            THEN CallHook(t, e, "hooked") /\ UNCHANGED exts
            ELSE Done(t, e) /\ UNCHANGED <<pc, todo, then, ext>>
    /\ UNCHANGED <<registry, python, mod, left, rest, sym, result, begun, history>>

LoadExtension(t) ==
    /\ pc[t] = "extensions"
    /\ \E e \in exts[t] :
         /\ NextExtension(t, e)
         /\ IF e \in loaded
            THEN Done(t, e) /\ Solved(t, e) /\ UNCHANGED <<pc, todo, then, ext>>
            ELSE IF Hooks[e].form \in {"module", "raises", "swallowed"}
            THEN CallHook(t, e, "hooked") /\ UNCHANGED <<exts, rest>>
            ELSE Done(t, e) /\ UNCHANGED <<rest, pc, todo, then, ext>>
    /\ UNCHANGED <<registry, python, mod, left, sym, result, begun, history>>

Hooked(t) ==
    /\ pc[t] = "hooked"
    /\ CASE Hooks[ext[t]].form = "raises" -> Finish(t, "register") /\ UNCHANGED loaded
         [] Hooks[ext[t]].form = "module" ->
                /\ Goto(t, "extensions") /\ Done(t, ext[t]) /\ Solved(t, ext[t])
                /\ loaded' = loaded \union {ext[t]} /\ UNCHANGED <<result, sym>>
         [] OTHER ->
                /\ Goto(t, "extensions") /\ Done(t, ext[t])
                /\ UNCHANGED <<loaded, rest, result, sym>>
    /\ ext' = [ext EXCEPT ![t] = None]
    /\ UNCHANGED <<processors, marked, moduleHistory, defaultsLoaded, python, todo, then, mod,
                   left, begun, history>>

\* What is not resolved is looked for among the entry points.
Remaining(t) ==
    /\ pc[t] = "extensions" /\ exts[t] = {}
    /\ IF rest[t] = {} THEN Finish(t, "ok")
       ELSE /\ exts' = [exts EXCEPT ![t] = rest[t]]
            /\ Goto(t, "entries") /\ UNCHANGED <<result, rest, sym>>
    /\ taken' = [taken EXCEPT !.stage = IF @ = "replaying" THEN "replayed" ELSE @]
    /\ UNCHANGED <<registry, python, todo, then, mod, left, ext, begun, served, failed>>

LoadEntryPoint(t) ==
    /\ pc[t] = "entries"
    /\ \E e \in exts[t] :
         /\ NextExtension(t, e)
         /\ IF Hooks[e].form \in {"entry", "entryRaises"} /\ e \notin loaded
            THEN CallHook(t, e, "entered") /\ UNCHANGED exts
            ELSE Done(t, e) /\ UNCHANGED <<pc, todo, then, ext>>
    /\ UNCHANGED <<registry, python, mod, left, rest, sym, result, begun, history>>

Entered(t) ==
    /\ pc[t] = "entered"
    /\ IF Hooks[ext[t]].form = "entryRaises"
       THEN Finish(t, "register") /\ UNCHANGED loaded
       ELSE /\ loaded' = loaded \union {ext[t]}
            /\ Goto(t, "entries") /\ Done(t, ext[t]) /\ Solved(t, ext[t])
            /\ UNCHANGED <<result, sym>>
    /\ ext' = [ext EXCEPT ![t] = None]
    /\ UNCHANGED <<processors, marked, moduleHistory, defaultsLoaded, python, todo, then, mod,
                   left, begun, history>>

LoadedAll(t) ==
    /\ pc[t] = "entries" /\ exts[t] = {}
    /\ Finish(t, IF rest[t] = {} THEN "ok" ELSE "missing")
    /\ UNCHANGED <<registry, python, todo, then, mod, left, ext, begun, history>>
-----------------------------------------------------------------------------
Step(t) ==
    \/ ApplyProfile(t) \/ ResolveSymbol(t) \/ Clear(t) \/ Replay(t)
    \/ TestMarked(t) \/ Mark(t) \/ Import(t) \/ Imported(t) \/ ImportFails(t)
    \/ PublishClass(t) \/ Published(t) \/ Registered(t)
    \/ SetFlag(t) \/ Lookup(t) \/ Fetch(t) \/ RegisterProcessor(t)
    \/ LoadExtension(t) \/ Hooked(t) \/ Remaining(t) \/ LoadEntryPoint(t) \/ Entered(t)
    \/ LoadedAll(t)

Next == \E t \in Threads : Step(t)
Spec == Init /\ [][Next]_vars
-----------------------------------------------------------------------------
(* Properties *)

Handling(t, m) == mod[t] = m /\ pc[t] \in {"import", "loading", "publish"}

(* A thread that register_modules has served - its profile is applied, or it *)
(* is about to look a name up - can rely on each of the modules: the classes *)
(* are there, unless the import failed, which is not tried again, or another *)
(* thread that marked the module first has not finished with it.             *)
PromiseKept ==
    \A t \in Threads : \A m \in served[t] :
        \/ m \in failed
        \/ Offers[m] \subseteq Bound
        \/ \E u \in Threads : Handling(u, m)

(* No refusal is without a cause. A name that a module served to this thread *)
(* offers is unknown only for the reasons of PromiseKept; and an extension is*)
(* missing only if it has no hook that returns, or if it is an entry point   *)
(* that another thread loaded while this one was looking for it.             *)
RefusalsExplained ==
    [][\A t \in Threads : pc[t] # "idle" /\ pc'[t] = "idle" =>
          /\ result'[t] \in {"unknown", "key"} =>
               \A m \in served'[t] :
                   (sym[t].names \ Bound) \intersect Offers[m] # {} =>
                       m \in failed \/ (\E u \in Threads \ {t} : Handling(u, m))
          /\ result'[t] = "missing" =>
               \A e \in rest[t] :
                   \/ Hooks[e].form \in {"missing", "swallowed"}
                   \/ (Hooks[e].form = "entry" /\ e \in loaded)]_vars

(* "Capture the current registry state as a profile": applied where nothing *)
(* is registered, it gives the names that the registered modules offer the   *)
(* classes they stood for, unless two modules define a class of one name     *)
(* (they are applied in sorted order, not in theirs) or an import fails.     *)
ProfileReproduces ==
    taken.stage = "replayed" =>
        \A n \in Names :
            LET by == {m \in taken.modules \union Elements(Defaults) :
                          n \in Offers[m] /\ m \notin failed}
            IN  taken.processors[n] \in by =>
                  /\ processors[n] \in by
                  /\ by = {taken.processors[n]} => processors[n] = taken.processors[n]
================================================================================
