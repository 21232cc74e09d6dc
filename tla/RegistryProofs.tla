---------------------------- MODULE RegistryProofs ----------------------------
(***************************************************************************)
(* What a thread can rely on in Registry, for any number of threads, any   *)
(* modules, extensions, profiles and symbols: PromiseKept, and the reasons *)
(* of a refusal.                                                           *)
(***************************************************************************)
EXTENDS Registry, SequenceTheorems, TLAPS

Holding == {"import", "loading", "publish"}
Working == {"modules", "mark"} \union Holding

\* What a thread is at: register_modules is a part of it.
Phase(t) == IF pc[t] \in Working THEN then[t] ELSE pc[t]

Places == Working \union {"idle", "flag", "lookup", "fetch", "fetching", "fetched",
                          "extensions", "hooked", "entries", "entered"}
Outcomes == {"none", "found", "key", "unknown", "import", "register", "ok", "missing"}

RegistryType ==
    /\ processors \in [Names -> Modules \union {None}]
    /\ marked \subseteq Modules /\ failed \subseteq Modules
    /\ moduleHistory \in Seq(Modules) /\ defaultsLoaded \in BOOLEAN
    /\ loaded \subseteq Extensions
    /\ served \in [Threads -> SUBSET Modules]

CallType ==
    /\ pc \in [Threads -> Places]
    /\ todo \in [Threads -> Seq(Modules)]
    /\ then \in [Threads -> {"idle", "extensions", "flag", "hooked", "entered"}]
    /\ mod \in [Threads -> Modules \union {None}]
    /\ left \in [Threads -> SUBSET Names]

RequestType ==
    /\ exts \in [Threads -> SUBSET Extensions] /\ rest \in [Threads -> SUBSET Extensions]
    /\ ext \in [Threads -> Extensions \union {None}]
    /\ sym \in [Threads -> Symbols \union {None}]
    /\ result \in [Threads -> Outcomes]

TypeOK == RegistryType /\ CallType /\ RequestType

\* Where a thread is inside register_modules.
Place(t) ==
    /\ pc[t] \in {"mark"} \union Holding => todo[t] # <<>> /\ mod[t] = Head(todo[t])
    /\ pc[t] \in Holding => mod[t] \in marked
    /\ pc[t] = "publish" => Offers[mod[t]] \ left[t] \subseteq Bound

\* register_modules returns to somewhere; and a thread that resolves a symbol finds the
\* default modules marked, or has yet to go over them.
Resolving(t) ==
    /\ Phase(t) = "idle" => pc[t] = "idle"
    /\ Phase(t) = "flag" =>
         Elements(Defaults) \subseteq
             marked \union (IF pc[t] = "flag" THEN {} ELSE Elements(todo[t]))
    /\ Phase(t) = "lookup" => Elements(Defaults) \subseteq marked
    /\ Phase(t) \in {"flag", "lookup", "fetch", "fetching", "fetched"} => sym[t] \in Symbols
    /\ Phase(t) \in {"fetch", "fetching", "fetched"} => sym[t].from # None

ModuleForms == {"module", "raises", "swallowed"}
EntryForms  == {"entry", "entryRaises"}

\* A thread that loads extensions: what is not resolved was not there to be loaded.
Loading(t) ==
    /\ Phase(t) = "hooked"  => ext[t] \in exts[t] /\ Hooks[ext[t]].form \in ModuleForms
    /\ Phase(t) = "entered" => ext[t] \in exts[t] /\ Hooks[ext[t]].form \in EntryForms
    /\ Phase(t) \in {"extensions", "hooked"} =>
         \A e \in rest[t] \ exts[t] : Hooks[e].form \notin {"module", "raises"}
    /\ Phase(t) \in {"entries", "entered"} =>
         /\ \A e \in rest[t] : Hooks[e].form \notin {"module", "raises"}
         /\ \A e \in rest[t] \ exts[t] : Hooks[e].form \in EntryForms => e \in loaded

Ready(m) == m \in failed \/ Offers[m] \subseteq Bound \/ \E u \in Threads : Handling(u, m)

\* What holds of the registry itself.
RegistryOk ==
    /\ \A m \in marked : Ready(m)
    /\ defaultsLoaded => Elements(Defaults) \subseteq marked
    /\ \A e \in loaded : Hooks[e].form \in {"module", "entry"}
    /\ \A t \in Threads : served[t] \subseteq marked

IInv == /\ TypeOK /\ RegistryOk
        /\ \A t \in Threads : Place(t) /\ Resolving(t) /\ Loading(t)

-----------------------------------------------------------------------------
\* The modules that remain, after the first of them.
LEMMA TailElements ==
    ASSUME NEW s \in Seq(Modules), s # <<>>
    PROVE  /\ Head(s) \in Modules /\ Tail(s) \in Seq(Modules)
           /\ Elements(s) \subseteq {Head(s)} \union Elements(Tail(s))
<1>1. Head(s) \in Modules /\ Tail(s) \in Seq(Modules)
  OBVIOUS
<1>2. ASSUME NEW i \in DOMAIN s
      PROVE  s[i] \in {Head(s)} \union Elements(Tail(s))
  <2>1. CASE i = 1
    BY <2>1
  <2>2. CASE i # 1
    <3>1. i - 1 \in DOMAIN Tail(s) /\ Tail(s)[i - 1] = s[i]
      BY <2>2
    <3> QED
      BY <3>1 DEF Elements
  <2> QED
    BY <2>1, <2>2
<1> QED
  BY <1>1, <1>2 DEF Elements

\* The members of a sequence of modules are modules.
LEMMA ElementsType ==
    ASSUME NEW s \in Seq(Modules)
    PROVE  Elements(s) \subseteq Modules
  BY DEF Elements

-----------------------------------------------------------------------------
(* A step of one thread. *)

USE DEF IInv, Goto, registry, python, request, frame, history

\* What no step but clear() and the begin of a replay does: the registry forgets.
Grows == /\ marked \subseteq marked' /\ Bound \subseteq Bound'
         /\ loaded \subseteq loaded' /\ failed \subseteq failed'

Others(t) ==
    \A u \in Threads \ {t} :
        /\ pc'[u] = pc[u] /\ todo'[u] = todo[u] /\ then'[u] = then[u] /\ mod'[u] = mod[u]
        /\ left'[u] = left[u] /\ exts'[u] = exts[u] /\ rest'[u] = rest[u]
        /\ ext'[u] = ext[u] /\ sym'[u] = sym[u] /\ served'[u] = served[u]

\* The other threads are where they were.
LEMMA Elsewhere ==
    ASSUME NEW t \in Threads, NEW u \in Threads \ {t}, Grows, Others(t),
           Place(u), Resolving(u), Loading(u)
    PROVE  Place(u)' /\ Resolving(u)' /\ Loading(u)'
<1>1. Phase(u)' = Phase(u)
  BY DEF Phase, Others
<1>2. Place(u)'
  BY DEF Place, Others, Grows
<1>3. Resolving(u)'
  BY <1>1 DEF Resolving, Others, Grows
<1>4. Loading(u)'
  BY <1>1 DEF Loading, Others, Grows
<1> QED
  BY <1>2, <1>3, <1>4

\* A module stays ready while t goes on, unless t leaves it.
LEMMA ReadyStays ==
    ASSUME NEW t \in Threads, NEW m, Ready(m), Grows, Others(t),
           Handling(t, m) => Ready(m)'
    PROVE  Ready(m)'
<1>1. CASE m \in failed \/ Offers[m] \subseteq Bound
  BY <1>1 DEF Ready, Grows
<1>2. ASSUME NEW u \in Threads \ {t}, Handling(u, m)
      PROVE  Ready(m)'
  BY <1>2 DEF Handling, Others, Ready
<1> QED
  BY <1>1, <1>2 DEF Ready

\* So only t, and what it adds to the registry, are to be looked at.
LEMMA OneThread ==
    ASSUME NEW t \in Threads, IInv, TypeOK', Grows, Others(t),
           Place(t)', Resolving(t)', Loading(t)',
           \A m \in marked : Handling(t, m) => Ready(m)',
           \A m \in marked' \ marked : Ready(m)',
           defaultsLoaded' => defaultsLoaded \/ Elements(Defaults) \subseteq marked',
           \A e \in loaded' \ loaded : Hooks[e].form \in {"module", "entry"},
           served'[t] \subseteq marked'
    PROVE  IInv'
<1>1. \A m \in marked' : Ready(m)'
  BY ReadyStays DEF IInv, RegistryOk
<1>2. \A u \in Threads : served'[u] \subseteq marked'
  <2> SUFFICES ASSUME NEW u \in Threads \ {t} PROVE served'[u] \subseteq marked'
    OBVIOUS
  <2> QED
    BY DEF IInv, RegistryOk, Others, Grows
<1>3. RegistryOk'
  BY <1>1, <1>2 DEF IInv, RegistryOk, Grows
<1>4. \A u \in Threads : Place(u)' /\ Resolving(u)' /\ Loading(u)'
  BY Elsewhere DEF IInv
<1> QED
  BY <1>3, <1>4 DEF IInv

\* The modules of a profile are yet to be gone over.
LEMMA ApplyProfileStep ==
    ASSUME NEW t \in Threads, IInv, ApplyProfile(t)
    PROVE  IInv'
<1> USE DEF ApplyProfile, Begin, Apply, RegisterThen
<1>1. TypeOK'
  <2>1. RegistryType'
    BY DEF TypeOK, RegistryType
  <2>2. CallType'
    BY RegistryAssumption DEF TypeOK, CallType, RegistryAssumption, Places, Working
  <2>3. RequestType'
    BY RegistryAssumption DEF TypeOK, RequestType, Outcomes, RegistryAssumption
  <2> QED
    BY <2>1, <2>2, <2>3 DEF TypeOK
<1>2. Grows /\ Others(t)
  BY DEF Grows, Others, Bound
<1>3. Place(t)'
  BY DEF TypeOK, CallType, Place, Holding
<1>4. Resolving(t)'
  BY DEF TypeOK, CallType, Resolving, Phase
<1>5. Loading(t)'
  BY DEF TypeOK, CallType, RequestType, Loading, Phase
<1>6. \A m \in marked : Handling(t, m) => Ready(m)'
  BY DEF Handling
<1>7. UNCHANGED <<marked, loaded, defaultsLoaded>>
  OBVIOUS
<1>8. served'[t] \subseteq marked'
  BY DEF RegistryOk
<1> QED
  BY <1>1, <1>2, <1>3, <1>4, <1>5, <1>6, <1>7, <1>8, OneThread

\* With the flag set the defaults are marked; otherwise they are yet to be gone over.
LEMMA ResolveSymbolStep ==
    ASSUME NEW t \in Threads, IInv, ResolveSymbol(t)
    PROVE  IInv'
<1> USE DEF ResolveSymbol, Begin, RegisterThen
<1>1. TypeOK'
  <2>1. RegistryType'
    BY DEF TypeOK, RegistryType
  <2>2. CallType'
    <3>1. CASE DefaultsMissing
      <4>1. Defaults \in Seq(Modules)
        BY RegistryAssumption DEF RegistryAssumption
      <4> QED
        BY <3>1, <4>1 DEF TypeOK, CallType, Places, Working
    <3>2. CASE ~(DefaultsMissing)
      BY <3>2 DEF TypeOK, CallType, Places
    <3> QED
      BY <3>1, <3>2
  <2>3. RequestType'
    BY DEF TypeOK, RequestType, Outcomes
  <2> QED
    BY <2>1, <2>2, <2>3 DEF TypeOK
<1>2. Grows /\ Others(t)
  BY DEF TypeOK, CallType, Grows, Others, Bound
<1>3. Place(t)'
  BY DEF TypeOK, CallType, Place, Holding
<1>4. Resolving(t)'
  <2>1. sym'[t] \in Symbols
    BY DEF TypeOK, RequestType
  <2>2. CASE DefaultsMissing
    <3>1. pc'[t] = "modules" /\ then'[t] = "flag" /\ todo'[t] = Defaults
      BY <2>2 DEF TypeOK, CallType
    <3> QED
      BY <2>1, <3>1 DEF Resolving, Phase
  <2>3. CASE ~DefaultsMissing
    <3>1. pc'[t] = "lookup" /\ Elements(Defaults) \subseteq marked'
      BY <2>3 DEF TypeOK, CallType, RegistryOk, DefaultsMissing
    <3> QED
      BY <2>1, <3>1 DEF Resolving, Phase, Working, Holding
  <2> QED
    BY <2>2, <2>3
<1>5. Loading(t)'
  BY DEF TypeOK, CallType, Loading, Phase, Holding, Working
<1>6. \A m \in marked : Handling(t, m) => Ready(m)'
  BY DEF Handling
<1>7. UNCHANGED <<marked, loaded, defaultsLoaded>>
  OBVIOUS
<1>8. served'[t] \subseteq marked'
  BY DEF RegistryOk
<1> QED
  BY <1>1, <1>2, <1>3, <1>4, <1>5, <1>6, <1>7, <1>8, OneThread

\* A marked module is passed over.
LEMMA TestMarkedStep ==
    ASSUME NEW t \in Threads, IInv, TestMarked(t)
    PROVE  IInv'
<1> USE DEF TestMarked, Skip
<1>1. TypeOK'
  <2>0. Head(todo[t]) \in Modules /\ Tail(todo[t]) \in Seq(Modules)
    BY DEF TypeOK, CallType
  <2>1. RegistryType'
    <3>1. CASE Head(todo[t]) \in marked
      BY <3>1, <2>0 DEF TypeOK, RegistryType
    <3>2. CASE ~(Head(todo[t]) \in marked)
      BY <3>2 DEF TypeOK, RegistryType
    <3> QED
      BY <3>1, <3>2
  <2>2. CallType'
    <3>1. CASE Head(todo[t]) \in marked
      BY <3>1, <2>0 DEF TypeOK, CallType
    <3>2. CASE ~(Head(todo[t]) \in marked)
      BY <3>2, <2>0 DEF TypeOK, CallType, Places, Working
    <3> QED
      BY <3>1, <3>2
  <2>3. RequestType'
    BY DEF TypeOK, RequestType
  <2> QED
    BY <2>1, <2>2, <2>3 DEF TypeOK
<1>2. Grows /\ Others(t)
  BY DEF TypeOK, RegistryType, CallType, Grows, Others, Bound
<1>3. Place(t)'
  BY DEF TypeOK, CallType, Place, Holding
<1>4. Resolving(t)'
  <2>1. Elements(todo[t]) \subseteq {Head(todo[t])} \union Elements(Tail(todo[t]))
    BY TailElements DEF TypeOK, CallType
  <2>2. CASE Head(todo[t]) \in marked
    <3>1. Phase(t)' = Phase(t) /\ pc'[t] = "modules" /\ todo'[t] = Tail(todo[t])
      BY <2>2 DEF TypeOK, CallType, Phase
    <3> QED
      BY <2>1, <2>2, <3>1 DEF Resolving
  <2>3. CASE Head(todo[t]) \notin marked
    <3>1. Phase(t)' = Phase(t) /\ pc'[t] = "mark" /\ todo'[t] = todo[t]
      BY <2>3 DEF TypeOK, CallType, Phase, Working
    <3> QED
      BY <3>1 DEF Resolving
  <2> QED
    BY <2>2, <2>3
<1>5. Loading(t)'
  BY DEF TypeOK, CallType, Loading, Phase, Working
<1>6. \A m \in marked : Handling(t, m) => Ready(m)'
  BY DEF Handling
<1>7. UNCHANGED <<marked, loaded, defaultsLoaded>>
  OBVIOUS
<1>8. served'[t] \subseteq marked'
  BY DEF TypeOK, RegistryType, RegistryOk
<1> QED
  BY <1>1, <1>2, <1>3, <1>4, <1>5, <1>6, <1>7, <1>8, OneThread

\* A module is marked by a thread that handles it.
LEMMA MarkStep ==
    ASSUME NEW t \in Threads, IInv, Mark(t)
    PROVE  IInv'
<1> USE DEF Mark
<1>1. TypeOK'
  <2>1. RegistryType'
    BY TailElements DEF TypeOK, RegistryType, CallType, Place
  <2>2. CallType'
    BY DEF TypeOK, CallType, Holding, Places, Working
  <2>3. RequestType'
    BY DEF TypeOK, RequestType
  <2> QED
    BY <2>1, <2>2, <2>3 DEF TypeOK
<1>2. Grows /\ Others(t)
  BY DEF Grows, Others, Bound
<1>3. Place(t)'
  BY DEF Place
<1>4. Resolving(t)'
  BY DEF Resolving, Phase, Working
<1>5. Loading(t)'
  BY DEF Loading, Phase, Working
<1>6. \A m \in marked : Handling(t, m) => Ready(m)'
  BY DEF Handling
<1>7. \A m \in marked' \ marked : Ready(m)'
  BY DEF TypeOK, CallType, Handling, Ready
<1>8. defaultsLoaded' => defaultsLoaded \/ Elements(Defaults) \subseteq marked'
  OBVIOUS
<1>9. \A e \in loaded' \ loaded : Hooks[e].form \in {"module", "entry"}
  OBVIOUS
<1>10. served'[t] \subseteq marked'
  BY DEF RegistryOk
<1> QED
  BY <1>1, <1>2, <1>3, <1>4, <1>5, <1>6, <1>7, <1>8, <1>9, <1>10, OneThread

\* Nothing of the module is published yet.
LEMMA ImportStep ==
    ASSUME NEW t \in Threads, IInv, Import(t)
    PROVE  IInv'
<1> USE DEF Import
<1>1. TypeOK'
  <2>1. RegistryType'
    BY DEF TypeOK, RegistryType
  <2>0. mod[t] \in Modules
    BY DEF TypeOK, CallType, Place, Holding
  <2>2. CallType'
    <3>1. CASE mod[t] \in imported
      <4>1. Offers[mod[t]] \subseteq Names
        BY <2>0, RegistryAssumption DEF RegistryAssumption
      <4> QED
        BY <3>1, <4>1 DEF TypeOK, CallType, Places, Working, Holding
    <3>2. CASE ~(mod[t] \in imported)
      BY <3>2 DEF TypeOK, CallType, Places, Working, Holding
    <3> QED
      BY <3>1, <3>2
  <2>3. RequestType'
    BY DEF TypeOK, RequestType
  <2> QED
    BY <2>1, <2>2, <2>3 DEF TypeOK
<1>2. Grows /\ Others(t)
  BY DEF TypeOK, CallType, Grows, Others, Bound
<1>3. Place(t)'
  BY DEF TypeOK, CallType, Place, Holding
<1>4. Resolving(t)'
  BY DEF TypeOK, CallType, Resolving, Phase, Holding, Working
<1>5. Loading(t)'
  BY DEF TypeOK, CallType, Loading, Phase, Holding, Working
<1>6. \A m \in marked : Handling(t, m) => Ready(m)'
  BY DEF TypeOK, CallType, Handling, Ready
<1>7. UNCHANGED <<marked, loaded, defaultsLoaded>>
  OBVIOUS
<1>8. served'[t] \subseteq marked'
  BY DEF RegistryOk
<1> QED
  BY <1>1, <1>2, <1>3, <1>4, <1>5, <1>6, <1>7, <1>8, OneThread

\* Nothing of the module is published yet.
LEMMA ImportedStep ==
    ASSUME NEW t \in Threads, IInv, Imported(t)
    PROVE  IInv'
<1> USE DEF Imported
<1>1. TypeOK'
  <2>1. RegistryType'
    BY DEF TypeOK, RegistryType
  <2>2. CallType'
    BY RegistryAssumption DEF TypeOK, RegistryType, CallType, Place, Holding, RegistryAssumption, Places, Working
  <2>3. RequestType'
    BY DEF TypeOK, RequestType
  <2> QED
    BY <2>1, <2>2, <2>3 DEF TypeOK
<1>2. Grows /\ Others(t)
  BY DEF Grows, Others, Bound
<1>3. Place(t)'
  BY DEF TypeOK, CallType, Place, Holding
<1>4. Resolving(t)'
  BY DEF Resolving, Phase, Holding, Working
<1>5. Loading(t)'
  BY DEF Loading, Phase, Holding, Working
<1>6. \A m \in marked : Handling(t, m) => Ready(m)'
  BY DEF Handling, Ready
<1>7. UNCHANGED <<marked, loaded, defaultsLoaded>>
  OBVIOUS
<1>8. served'[t] \subseteq marked'
  BY DEF RegistryOk
<1> QED
  BY <1>1, <1>2, <1>3, <1>4, <1>5, <1>6, <1>7, <1>8, OneThread

\* The module is left, and counted as failed.
LEMMA ImportFailsStep ==
    ASSUME NEW t \in Threads, IInv, ImportFails(t)
    PROVE  IInv'
<1> USE DEF ImportFails, Skip
<1>1. TypeOK'
  <2>1. RegistryType'
    BY DEF TypeOK, RegistryType, Place, Holding
  <2>2. CallType'
    BY DEF TypeOK, CallType, Place, Holding, Places, Working
  <2>3. RequestType'
    BY DEF TypeOK, RequestType
  <2> QED
    BY <2>1, <2>2, <2>3 DEF TypeOK
<1>2. Grows /\ Others(t)
  BY DEF Grows, Others, Bound
<1>3. Place(t)'
  BY DEF TypeOK, CallType, Place, Holding
<1>4. Resolving(t)'
  <2>1. /\ Elements(todo[t]) \subseteq {Head(todo[t])} \union Elements(Tail(todo[t]))
        /\ Head(todo[t]) \in marked
    BY TailElements DEF TypeOK, CallType, Place, Holding
  <2>2. Phase(t)' = Phase(t) /\ pc'[t] = "modules" /\ todo'[t] = Tail(todo[t])
    BY DEF TypeOK, CallType, Phase, Working, Holding
  <2> QED
    BY <2>1, <2>2 DEF Resolving
<1>5. Loading(t)'
  BY DEF Loading, Phase, Holding, Working
<1>6. \A m \in marked : Handling(t, m) => Ready(m)'
  BY DEF Handling, Ready
<1>7. UNCHANGED <<marked, loaded, defaultsLoaded>>
  OBVIOUS
<1>8. served'[t] \subseteq marked'
  BY DEF RegistryOk, Place, Holding
<1> QED
  BY <1>1, <1>2, <1>3, <1>4, <1>5, <1>6, <1>7, <1>8, OneThread

\* A class more of the module is there.
LEMMA PublishClassStep ==
    ASSUME NEW t \in Threads, IInv, PublishClass(t)
    PROVE  IInv'
<1> USE DEF PublishClass
<1>1. TypeOK'
  <2>1. RegistryType'
    BY DEF TypeOK, RegistryType, CallType
  <2>2. CallType'
    BY DEF TypeOK, CallType
  <2>3. RequestType'
    BY DEF TypeOK, RequestType
  <2> QED
    BY <2>1, <2>2, <2>3 DEF TypeOK
<1>n. PICK n \in left[t] : /\ processors' = [processors EXCEPT ![n] = mod[t]]
                            /\ left' = [left EXCEPT ![t] = @ \ {n}]
  OBVIOUS
<1>m. mod[t] \in Modules /\ mod[t] # None
  <2>1. mod[t] = Head(todo[t]) /\ todo[t] \in Seq(Modules) /\ todo[t] # <<>>
    BY DEF TypeOK, CallType, Place, Holding
  <2> QED
    BY <2>1, RegistryAssumption DEF RegistryAssumption
<1>b. Bound' = Bound \union {n}
  BY <1>n, <1>m DEF TypeOK, RegistryType, CallType, Bound
<1>2. Grows /\ Others(t)
  BY <1>n, <1>b DEF Grows, Others
<1>3. Place(t)'
  BY <1>n, <1>b DEF Place
<1>4. Resolving(t)'
  BY DEF Resolving, Phase
<1>5. Loading(t)'
  BY DEF Loading, Phase
<1>6. \A m \in marked : Handling(t, m) => Ready(m)'
  BY DEF Handling, Ready
<1>7. UNCHANGED <<marked, loaded, defaultsLoaded>>
  OBVIOUS
<1>8. served'[t] \subseteq marked'
  BY DEF RegistryOk
<1> QED
  BY <1>1, <1>2, <1>3, <1>4, <1>5, <1>6, <1>7, <1>8, OneThread

\* The module is left with all of its classes published.
LEMMA PublishedStep ==
    ASSUME NEW t \in Threads, IInv, Published(t)
    PROVE  IInv'
<1> USE DEF Published, Skip
<1>1. TypeOK'
  <2>1. RegistryType'
    BY DEF TypeOK, RegistryType, Place, Holding
  <2>2. CallType'
    BY DEF TypeOK, CallType, Place, Holding, Places, Working
  <2>3. RequestType'
    BY DEF TypeOK, RequestType
  <2> QED
    BY <2>1, <2>2, <2>3 DEF TypeOK
<1>2. Grows /\ Others(t)
  BY DEF Grows, Others, Bound
<1>3. Place(t)'
  BY DEF TypeOK, CallType, Place, Holding
<1>4. Resolving(t)'
  <2>1. /\ Elements(todo[t]) \subseteq {Head(todo[t])} \union Elements(Tail(todo[t]))
        /\ Head(todo[t]) \in marked
    BY TailElements DEF TypeOK, CallType, Place, Holding
  <2>2. Phase(t)' = Phase(t) /\ pc'[t] = "modules" /\ todo'[t] = Tail(todo[t])
    BY DEF TypeOK, CallType, Phase, Working, Holding
  <2> QED
    BY <2>1, <2>2 DEF Resolving
<1>5. Loading(t)'
  BY DEF Loading, Phase, Holding, Working
<1>6. \A m \in marked : Handling(t, m) => Ready(m)'
  BY DEF Place, Handling, Ready, Bound
<1>7. UNCHANGED <<marked, loaded, defaultsLoaded>>
  OBVIOUS
<1>8. served'[t] \subseteq marked'
  BY DEF RegistryOk, Place, Holding
<1> QED
  BY <1>1, <1>2, <1>3, <1>4, <1>5, <1>6, <1>7, <1>8, OneThread

\* All modules were gone over.
LEMMA RegisteredStep ==
    ASSUME NEW t \in Threads, IInv, Registered(t)
    PROVE  IInv'
<1> USE DEF Registered
<1>1. TypeOK'
  <2>1. RegistryType'
    BY DEF TypeOK, RegistryType
  <2>2. CallType'
    BY DEF TypeOK, CallType, Places
  <2>3. RequestType'
    BY DEF TypeOK, RequestType
  <2> QED
    BY <2>1, <2>2, <2>3 DEF TypeOK
<1>2. Grows /\ Others(t)
  BY DEF Grows, Others, Bound
<1>3. Place(t)'
  BY DEF TypeOK, CallType, Place, Holding
<1>4. Resolving(t)'
  <2>1. Phase(t)' = Phase(t)
    BY DEF TypeOK, CallType, Phase, Working, Holding
  <2>2. Elements(todo[t]) = {}
    BY DEF Elements
  <2> QED
    BY <2>1, <2>2 DEF Resolving
<1>5. Loading(t)'
  BY DEF Loading, Phase, Working
<1>6. \A m \in marked : Handling(t, m) => Ready(m)'
  BY DEF Handling
<1>7. UNCHANGED <<marked, loaded, defaultsLoaded>>
  OBVIOUS
<1>8. served'[t] \subseteq marked'
  BY DEF RegistryOk
<1> QED
  BY <1>1, <1>2, <1>3, <1>4, <1>5, <1>6, <1>7, <1>8, OneThread

\* The flag is set by a thread for which the defaults are marked.
LEMMA SetFlagStep ==
    ASSUME NEW t \in Threads, IInv, SetFlag(t)
    PROVE  IInv'
<1> USE DEF SetFlag
<1>1. TypeOK'
  <2>1. RegistryType'
    BY DEF TypeOK, RegistryType
  <2>2. CallType'
    BY DEF TypeOK, CallType, Places
  <2>3. RequestType'
    BY DEF TypeOK, RequestType
  <2> QED
    BY <2>1, <2>2, <2>3 DEF TypeOK
<1>2. Grows /\ Others(t)
  BY DEF Grows, Others, Bound
<1>3. Place(t)'
  BY DEF Place, Holding
<1>4. Resolving(t)'
  BY DEF Resolving, Phase, Holding, Working
<1>5. Loading(t)'
  BY DEF Loading, Phase, Holding, Working
<1>6. \A m \in marked : Handling(t, m) => Ready(m)'
  BY DEF Handling
<1>7. \A m \in marked' \ marked : Ready(m)'
  OBVIOUS
<1>8. defaultsLoaded' => defaultsLoaded \/ Elements(Defaults) \subseteq marked'
  BY DEF Resolving, Phase, Working, Holding
<1>9. \A e \in loaded' \ loaded : Hooks[e].form \in {"module", "entry"}
  OBVIOUS
<1>10. served'[t] \subseteq marked'
  BY DEF RegistryOk
<1> QED
  BY <1>1, <1>2, <1>3, <1>4, <1>5, <1>6, <1>7, <1>8, <1>9, <1>10, OneThread

\* A thread looks a name up only when the defaults are marked.
LEMMA LookupStep ==
    ASSUME NEW t \in Threads, IInv, Lookup(t)
    PROVE  IInv'
<1> USE DEF Lookup, Continue, Finish
<1>1. TypeOK'
  <2>1. RegistryType'
    BY ElementsType, RegistryAssumption DEF TypeOK, RegistryType, RegistryAssumption
  <2>2. CallType'
    <3>1. pc' = [pc EXCEPT ![t] = "fetch"] \/ pc' = [pc EXCEPT ![t] = "idle"]
      OBVIOUS
    <3> QED
      BY <3>1 DEF TypeOK, CallType, Places
  <2>3. RequestType'
    BY DEF TypeOK, RequestType, Outcomes
  <2> QED
    BY <2>1, <2>2, <2>3 DEF TypeOK
<1>2. Grows /\ Others(t)
  BY DEF TypeOK, CallType, RequestType, Grows, Others, Bound
<1>3. Place(t)'
  BY DEF TypeOK, CallType, Place, Holding
<1>4. Resolving(t)'
  BY DEF TypeOK, CallType, Resolving, Phase, Holding, Working
<1>5. Loading(t)'
  BY DEF TypeOK, CallType, Loading, Phase, Holding, Working
<1>6. \A m \in marked : Handling(t, m) => Ready(m)'
  BY DEF Handling
<1>7. UNCHANGED <<marked, loaded, defaultsLoaded>>
  OBVIOUS
<1>8. served'[t] \subseteq marked'
  BY DEF RegistryType, RegistryOk, Resolving, Phase, Holding, Working
<1> QED
  BY <1>1, <1>2, <1>3, <1>4, <1>5, <1>6, <1>7, <1>8, OneThread

\* The registry is not concerned.
LEMMA FetchStep ==
    ASSUME NEW t \in Threads, IInv, Fetch(t)
    PROVE  IInv'
<1> USE DEF Fetch, Continue, Finish
<1>1. TypeOK'
  <2>1. RegistryType'
    BY DEF TypeOK, RegistryType
  <2>2. CallType'
    BY DEF TypeOK, CallType, Places
  <2>3. RequestType'
    BY DEF TypeOK, RequestType, Outcomes
  <2> QED
    BY <2>1, <2>2, <2>3 DEF TypeOK
<1>2. Grows /\ Others(t)
  BY DEF TypeOK, CallType, RequestType, Grows, Others, Bound
<1>3. Place(t)'
  BY DEF TypeOK, CallType, Place, Holding
<1>4. Resolving(t)'
  BY DEF TypeOK, CallType, Resolving, Phase, Holding, Working
<1>5. Loading(t)'
  BY DEF TypeOK, CallType, Loading, Phase, Holding, Working
<1>6. \A m \in marked : Handling(t, m) => Ready(m)'
  BY DEF Handling
<1>7. UNCHANGED <<marked, loaded, defaultsLoaded>>
  OBVIOUS
<1>8. served'[t] \subseteq marked'
  BY DEF RegistryOk
<1> QED
  BY <1>1, <1>2, <1>3, <1>4, <1>5, <1>6, <1>7, <1>8, OneThread

\* A name may get another class, but none loses its class.
LEMMA RegisterProcessorStep ==
    ASSUME NEW t \in Threads, IInv, RegisterProcessor(t)
    PROVE  IInv'
<1> USE DEF RegisterProcessor, Finish
<1>0. sym[t] \in Symbols /\ sym[t].from \in Modules /\ sym[t].from # None
  BY RegistryAssumption DEF RegistryAssumption, Resolving, Phase, Working, Holding
<1>1. TypeOK'
  <2>1. RegistryType'
    BY <1>0 DEF TypeOK, RegistryType
  <2>2. CallType'
    BY DEF TypeOK, CallType, Places
  <2>3. RequestType'
    BY DEF TypeOK, RequestType, Outcomes
  <2> QED
    BY <2>1, <2>2, <2>3 DEF TypeOK
<1>2. Grows /\ Others(t)
  <2>1. Bound \subseteq Bound'
    BY <1>0 DEF Bound
  <2> QED
    BY <2>1 DEF Grows, Others
<1>3. Place(t)'
  BY DEF Place, Holding
<1>4. Resolving(t)'
  BY DEF TypeOK, CallType, Resolving, Phase, Holding, Working
<1>5. Loading(t)'
  BY DEF Loading, Phase, Holding, Working
<1>6. \A m \in marked : Handling(t, m) => Ready(m)'
  BY DEF Handling
<1>7. UNCHANGED <<marked, loaded, defaultsLoaded>>
  OBVIOUS
<1>8. served'[t] \subseteq marked'
  BY DEF RegistryOk
<1> QED
  BY <1>1, <1>2, <1>3, <1>4, <1>5, <1>6, <1>7, <1>8, OneThread

\* An extension that is no module remains.
LEMMA LoadExtensionStep ==
    ASSUME NEW t \in Threads, IInv, LoadExtension(t)
    PROVE  IInv'
<1> USE DEF LoadExtension, NextExtension, Done, Solved, CallHook, RegisterThen
<1>0. exts[t] \subseteq Extensions
  BY DEF TypeOK, RequestType
<1>e. PICK e \in exts[t] :
         IF e \in loaded
         THEN Done(t, e) /\ Solved(t, e) /\ UNCHANGED <<pc, todo, then, ext>>
         ELSE IF Hooks[e].form \in {"module", "raises", "swallowed"}
         THEN CallHook(t, e, "hooked") /\ UNCHANGED <<exts, rest>>
         ELSE Done(t, e) /\ UNCHANGED <<rest, pc, todo, then, ext>>
  OBVIOUS
<1>h. Hooks[e].modules \in Seq(Modules)
  BY <1>0, RegistryAssumption DEF RegistryAssumption
<1>1. TypeOK'
  <2>1. RegistryType'
    BY DEF TypeOK, RegistryType
  <2>2. CallType'
    <3>1. CASE UNCHANGED <<pc, todo, then>>
      BY <3>1 DEF TypeOK, CallType
    <3>2. CASE CallHook(t, e, "hooked")
      BY <3>2, <1>h DEF TypeOK, CallType, Places, Working
    <3> QED
      BY <1>e, <3>1, <3>2
  <2>3. RequestType'
    <3>1. CASE CallHook(t, e, "hooked") /\ UNCHANGED <<exts, rest>>
      BY <1>0, <3>1 DEF TypeOK, RequestType
    <3>2. CASE Done(t, e) /\ (Solved(t, e) \/ UNCHANGED rest) /\ UNCHANGED ext
      BY <3>2 DEF TypeOK, RequestType
    <3> QED
      BY <1>e, <3>1, <3>2
  <2> QED
    BY <2>1, <2>2, <2>3 DEF TypeOK
<1>2. Grows /\ Others(t)
  BY DEF TypeOK, CallType, RequestType, Grows, Others, Bound
<1>3. Place(t)'
  BY DEF TypeOK, CallType, Place, Holding
<1>4. Resolving(t)'
  BY DEF TypeOK, CallType, Resolving, Phase
<1>5. Loading(t)'
  <2>0. \A f \in rest[t] \ exts[t] : Hooks[f].form \notin {"module", "raises"}
    BY DEF Loading, Phase, Working, Holding
  <2>1. CASE Hooks[e].form \in ModuleForms /\ e \notin loaded
    <3>1. /\ pc'[t] = "modules" /\ then'[t] = "hooked" /\ ext'[t] = e
          /\ exts'[t] = exts[t] /\ rest'[t] = rest[t]
      BY <1>e, <2>1 DEF TypeOK, CallType, RequestType, ModuleForms
    <3> QED
      BY <2>0, <2>1, <3>1 DEF Loading, Phase
  <2>2. CASE e \in loaded
    <3>1. pc'[t] = "extensions" /\ exts'[t] = exts[t] \ {e} /\ rest'[t] = rest[t] \ {e}
      BY <1>e, <2>2 DEF TypeOK, RequestType
    <3> QED
      BY <2>0, <3>1 DEF Loading, Phase, Working, Holding
  <2>3. CASE Hooks[e].form \notin ModuleForms /\ e \notin loaded
    <3>1. pc'[t] = "extensions" /\ exts'[t] = exts[t] \ {e} /\ rest'[t] = rest[t]
      BY <1>e, <2>3 DEF TypeOK, RequestType, ModuleForms
    <3> QED
      BY <2>0, <2>3, <3>1 DEF Loading, Phase, Working, Holding, ModuleForms
  <2> QED
    BY <2>1, <2>2, <2>3
<1>6. \A m \in marked : Handling(t, m) => Ready(m)'
  BY DEF Handling
<1>7. UNCHANGED <<marked, loaded, defaultsLoaded>>
  OBVIOUS
<1>8. served'[t] \subseteq marked'
  BY DEF RegistryOk
<1> QED
  BY <1>1, <1>2, <1>3, <1>4, <1>5, <1>6, <1>7, <1>8, OneThread

\* A hook has returned, raised, or raised unseen.
LEMMA HookedStep ==
    ASSUME NEW t \in Threads, IInv, Hooked(t)
    PROVE  IInv'
<1> USE DEF Hooked, Done, Solved, Finish
<1>1. TypeOK'
  <2>1. RegistryType'
    <3>1. ext[t] \in Extensions
      BY DEF TypeOK, RequestType, Loading, Phase, Working, Holding
    <3> QED
      BY <3>1 DEF TypeOK, RegistryType
  <2>2. CallType'
    BY DEF TypeOK, CallType, Places
  <2>3. RequestType'
    BY DEF TypeOK, RequestType, Outcomes
  <2> QED
    BY <2>1, <2>2, <2>3 DEF TypeOK
<1>2. Grows /\ Others(t)
  BY DEF TypeOK, CallType, RequestType, Grows, Others, Bound
<1>3. Place(t)'
  BY DEF TypeOK, CallType, Place, Holding
<1>4. Resolving(t)'
  BY DEF TypeOK, CallType, Resolving, Phase, Holding, Working
<1>5. Loading(t)'
  BY DEF TypeOK, CallType, RequestType, RegistryOk, Loading, Phase, Holding, Working
<1>6. \A m \in marked : Handling(t, m) => Ready(m)'
  BY DEF Handling
<1>7. \A m \in marked' \ marked : Ready(m)'
  OBVIOUS
<1>8. defaultsLoaded' => defaultsLoaded \/ Elements(Defaults) \subseteq marked'
  OBVIOUS
<1>9. \A e \in loaded' \ loaded : Hooks[e].form \in {"module", "entry"}
  OBVIOUS
<1>10. served'[t] \subseteq marked'
  BY DEF RegistryOk
<1> QED
  BY <1>1, <1>2, <1>3, <1>4, <1>5, <1>6, <1>7, <1>8, <1>9, <1>10, OneThread

\* What is not resolved is looked for again.
LEMMA RemainingStep ==
    ASSUME NEW t \in Threads, IInv, Remaining(t)
    PROVE  IInv'
<1> USE DEF Remaining, Finish
<1>1. TypeOK'
  <2>1. RegistryType'
    BY DEF TypeOK, RegistryType
  <2>2. CallType'
    BY DEF TypeOK, CallType, Places
  <2>3. RequestType'
    BY DEF TypeOK, RequestType, Outcomes
  <2> QED
    BY <2>1, <2>2, <2>3 DEF TypeOK
<1>2. Grows /\ Others(t)
  BY DEF TypeOK, CallType, RequestType, Grows, Others, Bound
<1>3. Place(t)'
  <2>1. pc'[t] \in {"idle", "entries"}
    BY DEF TypeOK, CallType
  <2> QED
    BY <2>1 DEF Place, Holding
<1>4. Resolving(t)'
  BY DEF TypeOK, CallType, Resolving, Phase, Holding, Working
<1>5. Loading(t)'
  BY DEF TypeOK, CallType, RequestType, Loading, Phase, Holding, Working, EntryForms
<1>6. \A m \in marked : Handling(t, m) => Ready(m)'
  BY DEF Handling
<1>7. UNCHANGED <<marked, loaded, defaultsLoaded>>
  OBVIOUS
<1>8. served'[t] \subseteq marked'
  BY DEF RegistryOk
<1> QED
  BY <1>1, <1>2, <1>3, <1>4, <1>5, <1>6, <1>7, <1>8, OneThread

\* An entry point is passed over only if it is loaded.
LEMMA LoadEntryPointStep ==
    ASSUME NEW t \in Threads, IInv, LoadEntryPoint(t)
    PROVE  IInv'
<1> USE DEF LoadEntryPoint, NextExtension, Done, CallHook, RegisterThen
<1>0. exts[t] \subseteq Extensions
  BY DEF TypeOK, RequestType
<1>e. PICK e \in exts[t] :
         IF Hooks[e].form \in {"entry", "entryRaises"} /\ e \notin loaded
         THEN CallHook(t, e, "entered") /\ UNCHANGED exts
         ELSE Done(t, e) /\ UNCHANGED <<pc, todo, then, ext>>
  OBVIOUS
<1>h. Hooks[e].modules \in Seq(Modules)
  BY <1>0, RegistryAssumption DEF RegistryAssumption
<1>1. TypeOK'
  <2>1. RegistryType'
    BY DEF TypeOK, RegistryType
  <2>2. CallType'
    <3>1. CASE UNCHANGED <<pc, todo, then>>
      BY <3>1 DEF TypeOK, CallType
    <3>2. CASE CallHook(t, e, "entered")
      BY <3>2, <1>h DEF TypeOK, CallType, Places, Working
    <3> QED
      BY <1>e, <3>1, <3>2
  <2>3. RequestType'
    <3>1. CASE CallHook(t, e, "entered") /\ UNCHANGED exts
      BY <1>0, <3>1 DEF TypeOK, RequestType
    <3>2. CASE Done(t, e) /\ UNCHANGED ext
      BY <3>2 DEF TypeOK, RequestType
    <3> QED
      BY <1>e, <3>1, <3>2
  <2> QED
    BY <2>1, <2>2, <2>3 DEF TypeOK
<1>2. Grows /\ Others(t)
  BY DEF TypeOK, CallType, RequestType, Grows, Others, Bound
<1>3. Place(t)'
  BY DEF TypeOK, CallType, Place, Holding
<1>4. Resolving(t)'
  BY DEF TypeOK, CallType, Resolving, Phase
<1>5. Loading(t)'
  <2>0. /\ \A f \in rest[t] : Hooks[f].form \notin {"module", "raises"}
        /\ \A f \in rest[t] \ exts[t] : Hooks[f].form \in EntryForms => f \in loaded
    BY DEF Loading, Phase, Working, Holding
  <2>1. CASE Hooks[e].form \in EntryForms /\ e \notin loaded
    <3>1. /\ pc'[t] = "modules" /\ then'[t] = "entered" /\ ext'[t] = e
          /\ exts'[t] = exts[t] /\ rest'[t] = rest[t]
      BY <1>e, <2>1 DEF TypeOK, CallType, RequestType, EntryForms
    <3> QED
      BY <2>0, <2>1, <3>1 DEF Loading, Phase
  <2>2. CASE ~(Hooks[e].form \in EntryForms /\ e \notin loaded)
    <3>1. pc'[t] = "entries" /\ exts'[t] = exts[t] \ {e} /\ rest'[t] = rest[t]
      BY <1>e, <2>2 DEF TypeOK, RequestType, EntryForms
    <3> QED
      BY <2>0, <2>2, <3>1 DEF Loading, Phase, Working, Holding
  <2> QED
    BY <2>1, <2>2
<1>6. \A m \in marked : Handling(t, m) => Ready(m)'
  BY DEF Handling
<1>7. UNCHANGED <<marked, loaded, defaultsLoaded>>
  OBVIOUS
<1>8. served'[t] \subseteq marked'
  BY DEF RegistryOk
<1> QED
  BY <1>1, <1>2, <1>3, <1>4, <1>5, <1>6, <1>7, <1>8, OneThread

\* An entry point has returned or raised.
LEMMA EnteredStep ==
    ASSUME NEW t \in Threads, IInv, Entered(t)
    PROVE  IInv'
<1> USE DEF Entered, Done, Solved, Finish
<1>0. ext[t] \in Extensions /\ Hooks[ext[t]].form \in EntryForms
  BY DEF TypeOK, RequestType, Loading, Phase, Working, Holding
<1>1. TypeOK'
  <2>1. RegistryType'
    BY <1>0 DEF TypeOK, RegistryType
  <2>2. CallType'
    BY DEF TypeOK, CallType, Places
  <2>3. RequestType'
    BY DEF TypeOK, RequestType, Outcomes
  <2> QED
    BY <2>1, <2>2, <2>3 DEF TypeOK
<1>2. Grows /\ Others(t)
  BY DEF TypeOK, CallType, RequestType, Grows, Others, Bound
<1>3. Place(t)'
  BY DEF TypeOK, CallType, Place, Holding
<1>4. Resolving(t)'
  BY DEF TypeOK, CallType, Resolving, Phase, Holding, Working
<1>5. Loading(t)'
  BY DEF TypeOK, CallType, RequestType, Loading, Phase, Holding, Working
<1>6. \A m \in marked : Handling(t, m) => Ready(m)'
  BY DEF Handling
<1>7. \A m \in marked' \ marked : Ready(m)'
  OBVIOUS
<1>8. defaultsLoaded' => defaultsLoaded \/ Elements(Defaults) \subseteq marked'
  OBVIOUS
<1>9. \A e \in loaded' \ loaded : Hooks[e].form \in {"module", "entry"}
  BY <1>0 DEF EntryForms
<1>10. served'[t] \subseteq marked'
  BY DEF RegistryOk
<1> QED
  BY <1>1, <1>2, <1>3, <1>4, <1>5, <1>6, <1>7, <1>8, <1>9, <1>10, OneThread

\* The request ends.
LEMMA LoadedAllStep ==
    ASSUME NEW t \in Threads, IInv, LoadedAll(t)
    PROVE  IInv'
<1> USE DEF LoadedAll, Finish
<1>1. TypeOK'
  <2>1. RegistryType'
    BY DEF TypeOK, RegistryType
  <2>2. CallType'
    BY DEF TypeOK, CallType, Places
  <2>3. RequestType'
    BY DEF TypeOK, RequestType, Outcomes
  <2> QED
    BY <2>1, <2>2, <2>3 DEF TypeOK
<1>2. Grows /\ Others(t)
  BY DEF Grows, Others, Bound
<1>3. Place(t)'
  BY DEF Place, Holding
<1>4. Resolving(t)'
  BY DEF Resolving, Phase, Holding, Working
<1>5. Loading(t)'
  BY DEF Loading, Phase, Holding, Working
<1>6. \A m \in marked : Handling(t, m) => Ready(m)'
  BY DEF Handling
<1>7. UNCHANGED <<marked, loaded, defaultsLoaded>>
  OBVIOUS
<1>8. served'[t] \subseteq marked'
  BY DEF RegistryOk
<1> QED
  BY <1>1, <1>2, <1>3, <1>4, <1>5, <1>6, <1>7, <1>8, OneThread

-----------------------------------------------------------------------------
(* The invariant. *)

\* Before the first request, and after clear().
LEMMA EmptyInv ==
    ASSUME TypeOK, marked = {}, loaded = {}, defaultsLoaded = FALSE,
           served = [t \in Threads |-> {}], pc = [t \in Threads |-> "idle"]
    PROVE  IInv
<1>1. RegistryOk
  BY DEF RegistryOk
<1>2. \A t \in Threads : Place(t) /\ Resolving(t) /\ Loading(t)
  BY DEF Place, Resolving, Loading, Phase, Working, Holding
<1> QED
  BY <1>1, <1>2

LEMMA InitInv == Init => IInv
<1> SUFFICES ASSUME Init PROVE IInv
  OBVIOUS
<1>1. RegistryType
  <2>1. processors \in [Names -> Modules \union {None}] /\ served \in [Threads -> SUBSET Modules]
    BY DEF Init
  <2>2. moduleHistory \in Seq(Modules)
    BY DEF Init
  <2> QED
    BY <2>1, <2>2 DEF Init, RegistryType
<1>2. CallType
  BY DEF Init, CallType, Places, Working
<1>3. RequestType
  BY DEF Init, RequestType, Outcomes
<1> QED
  BY <1>1, <1>2, <1>3, EmptyInv DEF Init, TypeOK

\* Everything is forgotten, and nobody is at work.
LEMMA ClearStep ==
    ASSUME NEW t \in Threads, IInv, Clear(t)
    PROVE  IInv'
<1> USE DEF Clear, Begin, Emptied
<1>1. TypeOK'
  <2>1. RegistryType'
    <3>1. processors' \in [Names -> Modules \union {None}] /\ served' \in [Threads -> SUBSET Modules]
      OBVIOUS
    <3>2. moduleHistory' \in Seq(Modules)
      OBVIOUS
    <3> QED
      BY <3>1, <3>2 DEF RegistryType
  <2>2. CallType'
    BY DEF TypeOK, CallType
  <2>3. RequestType'
    BY DEF TypeOK, RequestType, Outcomes
  <2> QED
    BY <2>1, <2>2, <2>3 DEF TypeOK
<1>2. \A u \in Threads : pc'[u] = "idle"
  BY DEF Idle
<1>3. RegistryOk'
  BY DEF RegistryOk
<1>4. \A u \in Threads : Place(u)' /\ Resolving(u)' /\ Loading(u)'
  BY <1>2 DEF Place, Resolving, Loading, Phase, Working, Holding
<1> QED
  BY <1>1, <1>3, <1>4

\* So it is for a profile that is applied again, whose modules are yet to be gone over.
LEMMA ReplayStep ==
    ASSUME NEW t \in Threads, IInv, Replay(t)
    PROVE  IInv'
<1> USE DEF Replay, Begin, Emptied, Apply, RegisterThen
<1>1. todo'[t] \in Seq(Modules) /\ todo' = [todo EXCEPT ![t] = todo'[t]]
  <2>1. Elements(moduleHistory) \in SUBSET Modules
    BY ElementsType DEF TypeOK, RegistryType
  <2>2. SortedList[Elements(moduleHistory)] \in Seq(Modules) /\ Defaults \in Seq(Modules)
    BY <2>1, RegistryAssumption DEF RegistryAssumption
  <2> QED
    BY <2>2 DEF TypeOK, CallType
<1>2. TypeOK'
  <2>1. RegistryType'
    <3>1. processors' \in [Names -> Modules \union {None}] /\ served' \in [Threads -> SUBSET Modules]
      OBVIOUS
    <3>2. moduleHistory' \in Seq(Modules)
      OBVIOUS
    <3> QED
      BY <3>1, <3>2 DEF RegistryType
  <2>2. CallType'
    BY <1>1 DEF TypeOK, CallType, Places, Working
  <2>3. RequestType'
    BY DEF TypeOK, RequestType, Outcomes
  <2> QED
    BY <2>1, <2>2, <2>3 DEF TypeOK
<1>3. RegistryOk'
  BY DEF RegistryOk
<1>4. ASSUME NEW u \in Threads
      PROVE  Place(u)' /\ Resolving(u)' /\ Loading(u)'
  <2>1. CASE u = t
    <3>1. pc'[t] = "modules" /\ then'[t] = "extensions" /\ exts'[t] = {} /\ rest'[t] = {}
      BY DEF TypeOK, CallType, RequestType
    <3> QED
      BY <2>1, <3>1 DEF Place, Resolving, Loading, Phase, Working, Holding
  <2>2. CASE u # t
    <3>1. pc'[u] = "idle"
      BY <2>2 DEF TypeOK, CallType, Idle
    <3> QED
      BY <3>1 DEF Place, Resolving, Loading, Phase, Working, Holding
  <2> QED
    BY <2>1, <2>2
<1> QED
  BY <1>2, <1>3, <1>4

LEMMA NextInv == IInv /\ [Next]_vars => IInv'
<1> SUFFICES ASSUME IInv, [Next]_vars PROVE IInv'
  OBVIOUS
<1>1. ASSUME NEW t \in Threads, Step(t)
      PROVE  IInv'
  BY <1>1, ApplyProfileStep, ResolveSymbolStep, ClearStep, ReplayStep, TestMarkedStep,
     MarkStep, ImportStep, ImportedStep, ImportFailsStep, PublishClassStep, PublishedStep,
     RegisteredStep, SetFlagStep, LookupStep, FetchStep, RegisterProcessorStep,
     LoadExtensionStep, HookedStep, RemainingStep, LoadEntryPointStep, EnteredStep,
     LoadedAllStep DEF Step
<1>2. CASE UNCHANGED vars
  <2>1. TypeOK' = TypeOK /\ RegistryOk' = RegistryOk
    BY <1>2 DEF vars, TypeOK, RegistryType, CallType, RequestType, RegistryOk, Ready, Handling,
                Bound
  <2>2. \A t \in Threads : Place(t)' = Place(t) /\ Resolving(t)' = Resolving(t)
                           /\ Loading(t)' = Loading(t)
    BY <1>2 DEF vars, Place, Resolving, Loading, Phase, Bound
  <2> QED
    BY <2>1, <2>2
<1> QED
  BY <1>1, <1>2 DEF Next

\* The invariant holds in every reachable state, for any threads, modules, extensions,
\* profiles and symbols.
THEOREM RegistryInvariant == Spec => []IInv
<1> USE DEF IInv
<1> QED
  BY InitInv, NextInv, PTL DEF Spec

(* A thread that register_modules has served can rely on each of the modules: *)
(* its classes are there, or its import failed, or a thread still handles it. *)
THEOREM ServedCanRely == Spec => []PromiseKept
<1>1. IInv => PromiseKept
  BY DEF PromiseKept, RegistryOk, Ready
<1> QED
  BY <1>1, RegistryInvariant, PTL

-----------------------------------------------------------------------------
(* How requests end. *)

\* A step moves one thread.
LEMMA OthersStay ==
    ASSUME NEW t \in Threads, NEW u \in Threads \ {t}, IInv, Step(t)
    PROVE  pc'[u] = pc[u]
<1> USE DEF TypeOK, CallType, Begin, Apply, RegisterThen, Finish, Continue, CallHook
<1>1. CASE ApplyProfile(t) \/ ResolveSymbol(t) \/ Clear(t) \/ Replay(t)
  BY <1>1 DEF ApplyProfile, ResolveSymbol, Clear, Replay
<1>2. CASE TestMarked(t) \/ Mark(t) \/ Import(t) \/ Imported(t) \/ ImportFails(t)
  BY <1>2 DEF TestMarked, Mark, Import, Imported, ImportFails
<1>3. CASE PublishClass(t) \/ Published(t) \/ Registered(t) \/ SetFlag(t)
  BY <1>3 DEF PublishClass, Published, Registered, SetFlag
<1>4. CASE Lookup(t) \/ Fetch(t) \/ RegisterProcessor(t)
  BY <1>4 DEF Lookup, Fetch, RegisterProcessor
<1>5. CASE LoadExtension(t) \/ LoadEntryPoint(t)
  BY <1>5 DEF LoadExtension, LoadEntryPoint
<1>6. CASE Hooked(t) \/ Remaining(t) \/ Entered(t) \/ LoadedAll(t)
  BY <1>6 DEF Hooked, Remaining, Entered, LoadedAll
<1> QED
  BY <1>1, <1>2, <1>3, <1>4, <1>5, <1>6 DEF Step

\* Only a lookup finds that a name is unknown, and only the end of load_extensions that
\* an extension is missing.
LEMMA Ends ==
    ASSUME NEW t \in Threads, IInv, Step(t), pc[t] # "idle", pc'[t] = "idle"
    PROVE  Lookup(t) \/ LoadedAll(t) \/ result'[t] \in {"found", "import", "register", "ok"}
<1> USE DEF TypeOK, CallType, RequestType, Begin, RegisterThen, Finish, Continue, CallHook
<1>1. ~(ApplyProfile(t) \/ ResolveSymbol(t) \/ Clear(t) \/ Replay(t))
  BY DEF ApplyProfile, ResolveSymbol, Clear, Replay
<1>2. ~(TestMarked(t) \/ Mark(t) \/ Import(t) \/ Imported(t) \/ ImportFails(t))
  BY DEF TestMarked, Mark, Import, Imported, ImportFails
<1>3. ~(PublishClass(t) \/ Published(t) \/ SetFlag(t))
  BY DEF PublishClass, Published, SetFlag
<1>4. ~Registered(t)
  <2>1. pc[t] = "modules" => then[t] # "idle"
    BY DEF Resolving, Phase, Working
  <2> QED
    BY <2>1 DEF Registered
<1>5. ~(LoadExtension(t) \/ LoadEntryPoint(t))
  BY DEF LoadExtension, LoadEntryPoint
<1>6. CASE Fetch(t) \/ RegisterProcessor(t)
  BY <1>6 DEF Fetch, RegisterProcessor
<1>7. CASE Hooked(t) \/ Remaining(t) \/ Entered(t)
  BY <1>7 DEF Hooked, Remaining, Entered
<1> QED
  BY <1>1, <1>2, <1>3, <1>4, <1>5, <1>6, <1>7 DEF Step

\* The name of a module served to t is unknown.
LEMMA UnknownExplained ==
    ASSUME NEW t \in Threads, IInv, Lookup(t), NEW m \in served'[t],
           (sym[t].names \ Bound) \intersect Offers[m] # {}
    PROVE  m \in failed \/ \E u \in Threads \ {t} : Handling(u, m)
<1>1. pc[t] = "lookup" /\ m \in served[t] \union Elements(Defaults)
  BY DEF Lookup, TypeOK, RegistryType
<1>2. Ready(m)
  BY <1>1 DEF RegistryOk, Resolving, Phase, Working, Holding
<1>3. ~Handling(t, m)
  BY <1>1 DEF Handling
<1> QED
  BY <1>2, <1>3 DEF Ready

\* An extension is missing.
LEMMA MissingExtension ==
    ASSUME NEW t \in Threads, IInv, LoadedAll(t), NEW e \in rest[t]
    PROVE  \/ Hooks[e].form \in {"missing", "swallowed"}
           \/ (Hooks[e].form = "entry" /\ e \in loaded)
<1>1. pc[t] = "entries" /\ exts[t] = {}
  BY DEF LoadedAll
<1>2. Hooks[e].form \in Forms
  BY RegistryAssumption DEF RegistryAssumption, TypeOK, RequestType
<1>3. /\ Hooks[e].form \notin {"module", "raises"}
      /\ Hooks[e].form \in EntryForms => e \in loaded
  BY <1>1 DEF Loading, Phase, Working, Holding
<1>4. e \in loaded => Hooks[e].form \in {"module", "entry"}
  BY DEF RegistryOk
<1> QED
  BY <1>2, <1>3, <1>4 DEF Forms, EntryForms

(* No refusal is without a cause: a name that a served module offers is      *)
(* unknown, or an extension missing, only for the reasons that are listed.   *)
THEOREM RefusalsHaveCauses == Spec => RefusalsExplained
<1>1. ASSUME IInv, [Next]_vars, NEW t \in Threads, pc[t] # "idle", pc'[t] = "idle"
      PROVE  /\ result'[t] \in {"unknown", "key"} =>
                  \A m \in served'[t] :
                      (sym[t].names \ Bound) \intersect Offers[m] # {} =>
                          m \in failed \/ (\E u \in Threads \ {t} : Handling(u, m))
             /\ result'[t] = "missing" =>
                  \A e \in rest[t] :
                      \/ Hooks[e].form \in {"missing", "swallowed"}
                      \/ (Hooks[e].form = "entry" /\ e \in loaded)
  <2>1. PICK u \in Threads : Step(u)
    BY <1>1 DEF Next, vars
  <2>2. u = t
    BY <1>1, <2>1, OthersStay
  <2>3. CASE Lookup(t)
    <3>1. result'[t] # "missing"
      BY <1>1, <2>3 DEF Lookup, Finish, Continue, TypeOK, CallType, RequestType
    <3> QED
      BY <1>1, <2>3, <3>1, UnknownExplained
  <2>4. CASE LoadedAll(t)
    <3>1. result'[t] \notin {"unknown", "key"}
      BY <1>1, <2>4 DEF LoadedAll, Finish, TypeOK, RequestType
    <3> QED
      BY <1>1, <2>4, <3>1, MissingExtension
  <2> QED
    BY <1>1, <2>1, <2>2, <2>3, <2>4, Ends
<1>2. IInv /\ [Next]_vars =>
        [\A t \in Threads : pc[t] # "idle" /\ pc'[t] = "idle" =>
          /\ result'[t] \in {"unknown", "key"} =>
               \A m \in served'[t] :
                   (sym[t].names \ Bound) \intersect Offers[m] # {} =>
                       m \in failed \/ (\E u \in Threads \ {t} : Handling(u, m))
          /\ result'[t] = "missing" =>
               \A e \in rest[t] :
                   \/ Hooks[e].form \in {"missing", "swallowed"}
                   \/ (Hooks[e].form = "entry" /\ e \in loaded)]_vars
  BY <1>1
<1> QED
  BY <1>2, RegistryInvariant, PTL DEF Spec, RefusalsExplained


-----------------------------------------------------------------------------
(* Profiles that are captured and applied again. *)

Scope == taken.modules \union Elements(Defaults)

\* The history names what is marked.
HistoryOk == Elements(moduleHistory) = marked

TakenOk == taken \in [stage : {"none", "replaying", "replayed"}, modules : SUBSET Modules,
                      processors : [Names -> Modules \union {None}]]

\* Every class that is registered is that of a module that was imported.
Genuine == \A n \in Names : processors[n] # None =>
               processors[n] \in marked \ failed /\ n \in Offers[processors[n]]

\* The thread that applies the profile, while all others are idle: it has the modules of the
\* profile and the defaults to go over, each of them once.
Replayer(t) ==
    /\ \A u \in Threads \ {t} : pc[u] = "idle"
    /\ pc[t] \in Working \union {"extensions"} /\ Phase(t) = "extensions"
    /\ pc[t] = "extensions" => todo[t] = <<>>
    /\ exts[t] = {} /\ rest[t] = {}
    /\ marked \union Elements(todo[t]) = Scope
    /\ failed \subseteq marked
    /\ pc[t] = "mark" => mod[t] \notin marked
    /\ pc[t] \in Holding => mod[t] \notin failed
    /\ pc[t] \in {"import", "loading"} => \A n \in Names : processors[n] # mod[t]
    /\ pc[t] = "publish" => left[t] \subseteq Offers[mod[t]]

ReplayOk ==
    /\ taken.stage = "replaying" => Genuine /\ \E t \in Threads : Replayer(t)
    /\ taken.stage = "replayed" => Genuine /\ Idle /\ marked = Scope

ReplayInv == IInv /\ HistoryOk /\ TakenOk /\ ReplayOk

LEMMA EmptyElements == Elements(<<>>) = {}
  BY DEF Elements

\* The modules that remain, and the first of them.
LEMMA HeadAndTail ==
    ASSUME NEW s \in Seq(Modules), s # <<>>
    PROVE  Elements(s) = {Head(s)} \union Elements(Tail(s))
<1>1. Elements(s) \subseteq {Head(s)} \union Elements(Tail(s))
  BY TailElements
<1>2. Head(s) \in Elements(s)
  <2>1. 1 \in DOMAIN s /\ Head(s) = s[1]
    OBVIOUS
  <2> QED
    BY <2>1 DEF Elements
<1>3. ASSUME NEW i \in DOMAIN Tail(s) PROVE Tail(s)[i] \in Elements(s)
  <2>1. i + 1 \in DOMAIN s /\ Tail(s)[i] = s[i + 1]
    OBVIOUS
  <2> QED
    BY <2>1 DEF Elements
<1> QED
  BY <1>1, <1>2, <1>3 DEF Elements

LEMMA OneMoreElement ==
    ASSUME NEW s \in Seq(Modules), NEW m \in Modules
    PROVE  Elements(Append(s, m)) = Elements(s) \union {m}
<1>1. /\ DOMAIN Append(s, m) = DOMAIN s \union {Len(s) + 1}
      /\ Append(s, m)[Len(s) + 1] = m /\ \A i \in DOMAIN s : Append(s, m)[i] = s[i]
  OBVIOUS
<1> QED
  BY <1>1 DEF Elements

LEMMA ConcatElements ==
    ASSUME NEW s \in Seq(Modules), NEW r \in Seq(Modules)
    PROVE  Elements(s \o r) = Elements(s) \union Elements(r)
<1>1. /\ Len(s) \in Nat /\ Len(r) \in Nat
      /\ DOMAIN s = 1 .. Len(s) /\ DOMAIN r = 1 .. Len(r)
      /\ DOMAIN (s \o r) = 1 .. (Len(s) + Len(r))
      /\ \A i \in 1 .. Len(s) : (s \o r)[i] = s[i]
      /\ \A i \in 1 .. Len(r) : (s \o r)[Len(s) + i] = r[i]
  OBVIOUS
<1> HIDE DEF Elements
<1>2. ASSUME NEW i \in DOMAIN (s \o r) PROVE (s \o r)[i] \in Elements(s) \union Elements(r)
  <2>1. CASE i \in 1 .. Len(s)
    BY <1>1, <2>1 DEF Elements
  <2>2. CASE i \notin 1 .. Len(s)
    <3>1. i - Len(s) \in 1 .. Len(r) /\ Len(s) + (i - Len(s)) = i
      BY <1>1, <2>2
    <3>2. (s \o r)[i] = r[i - Len(s)]
      BY <1>1, <3>1
    <3> QED
      BY <1>1, <3>1, <3>2 DEF Elements
  <2> QED
    BY <2>1, <2>2
<1>3. ASSUME NEW i \in DOMAIN s PROVE s[i] \in Elements(s \o r)
  <2>1. i \in DOMAIN (s \o r) /\ (s \o r)[i] = s[i]
    BY <1>1
  <2> QED
    BY <2>1 DEF Elements
<1>4. ASSUME NEW i \in DOMAIN r PROVE r[i] \in Elements(s \o r)
  <2>1. Len(s) + i \in DOMAIN (s \o r) /\ (s \o r)[Len(s) + i] = r[i]
    BY <1>1
  <2> QED
    BY <2>1 DEF Elements
<1> QED
  BY <1>2, <1>3, <1>4 DEF Elements

\* Only three actions write to the history.
LEMMA HistoryStep ==
    ASSUME IInv, HistoryOk, [Next]_vars
    PROVE  HistoryOk'
<1>1. ASSUME NEW t \in Threads, Mark(t) PROVE HistoryOk'
  <2>1. mod[t] \in Modules /\ moduleHistory \in Seq(Modules)
    BY <1>1, TailElements DEF Mark, TypeOK, RegistryType, CallType, Place
  <2> QED
    BY <1>1, <2>1, OneMoreElement DEF Mark, HistoryOk
<1>2. ASSUME NEW t \in Threads, Clear(t) \/ Replay(t) PROVE HistoryOk'
  BY <1>2, EmptyElements DEF Clear, Replay, Emptied, HistoryOk
<1>3. ASSUME NEW t \in Threads, Step(t), ~Mark(t), ~Clear(t), ~Replay(t)
      PROVE  UNCHANGED <<marked, moduleHistory>>
  <2>1. CASE ApplyProfile(t) \/ ResolveSymbol(t) \/ TestMarked(t) \/ Import(t) \/ Imported(t)
             \/ ImportFails(t) \/ PublishClass(t) \/ Published(t) \/ Registered(t)
    BY <2>1 DEF ApplyProfile, ResolveSymbol, TestMarked, Import, Imported, ImportFails,
                PublishClass, Published, Registered
  <2>2. CASE SetFlag(t) \/ Lookup(t) \/ Fetch(t) \/ RegisterProcessor(t)
    BY <2>2 DEF SetFlag, Lookup, Fetch, RegisterProcessor
  <2>3. CASE LoadExtension(t) \/ Hooked(t) \/ Remaining(t) \/ LoadEntryPoint(t)
             \/ Entered(t) \/ LoadedAll(t)
    BY <2>3 DEF LoadExtension, Hooked, Remaining, LoadEntryPoint, Entered, LoadedAll
  <2> QED
    BY <1>3, <2>1, <2>2, <2>3 DEF Step
<1>4. CASE UNCHANGED vars
  BY <1>4 DEF vars, HistoryOk
<1> QED
  BY <1>1, <1>2, <1>3, <1>4 DEF Next, HistoryOk

\* The fields of the threads and the registry that the replay reads.
LEMMA ReplayTypes ==
    ASSUME IInv, NEW t \in Threads
    PROVE  /\ todo[t] \in Seq(Modules) /\ mod[t] \in Modules \union {None}
           /\ marked \subseteq Modules /\ failed \subseteq Modules
           /\ processors \in [Names -> Modules \union {None}]
           /\ pc \in [Threads -> Places] /\ todo \in [Threads -> Seq(Modules)]
           /\ mod \in [Threads -> Modules \union {None}] /\ DOMAIN then = Threads
           /\ left \in [Threads -> SUBSET Names]
           /\ DOMAIN exts = Threads /\ DOMAIN rest = Threads
           /\ pc[t] \in {"mark"} \union Holding => todo[t] # <<>> /\ mod[t] = Head(todo[t])
           /\ pc[t] \in Holding => mod[t] \in marked
           /\ None \notin Modules
  BY RegistryAssumption
     DEF TypeOK, RegistryType, CallType, RequestType, Place, RegistryAssumption

\* What the thread that replays may do.
Replays(t) == TestMarked(t) \/ Mark(t) \/ Import(t) \/ Imported(t) \/ ImportFails(t)
              \/ PublishClass(t) \/ Published(t) \/ Registered(t) \/ Remaining(t)

LEMMA OnlyReplayer ==
    ASSUME IInv, taken.stage = "replaying", NEW t \in Threads, Replayer(t),
           NEW u \in Threads, Step(u)
    PROVE  u = t /\ Replays(t)
<1>1. pc[t] \in Working \union {"extensions"} /\ exts[t] = {}
  BY DEF Replayer
<1>2. pc[u] = "idle" \/ u = t
  BY DEF Replayer
<1>3. ~ApplyProfile(u) /\ ~ResolveSymbol(u) /\ ~Replay(u)
  BY DEF ApplyProfile, ResolveSymbol, Replay, Alone
<1>4. ~Clear(u)
  BY <1>1 DEF Clear, Idle, Working, Holding
<1>5. pc[u] # "idle"
  <2>1. CASE TestMarked(u) \/ Mark(u) \/ Import(u) \/ Imported(u) \/ ImportFails(u)
             \/ PublishClass(u) \/ Published(u) \/ Registered(u)
    BY <2>1 DEF TestMarked, Mark, Import, Imported, ImportFails, PublishClass, Published,
                Registered
  <2>2. CASE SetFlag(u) \/ Lookup(u) \/ Fetch(u) \/ RegisterProcessor(u)
    BY <2>2 DEF SetFlag, Lookup, Fetch, RegisterProcessor
  <2>3. CASE LoadExtension(u) \/ Hooked(u) \/ Remaining(u) \/ LoadEntryPoint(u)
             \/ Entered(u) \/ LoadedAll(u)
    BY <2>3 DEF LoadExtension, Hooked, Remaining, LoadEntryPoint, Entered, LoadedAll
  <2> QED
    BY <1>3, <1>4, <2>1, <2>2, <2>3 DEF Step
<1>6. u = t
  BY <1>2, <1>5
<1>7. ~(SetFlag(t) \/ Lookup(t) \/ Fetch(t) \/ RegisterProcessor(t))
  BY <1>1 DEF SetFlag, Lookup, Fetch, RegisterProcessor, Working, Holding
<1>8. ~(LoadExtension(t) \/ Hooked(t) \/ LoadEntryPoint(t) \/ Entered(t) \/ LoadedAll(t))
  BY <1>1 DEF LoadExtension, Hooked, LoadEntryPoint, Entered, LoadedAll, Working, Holding
<1> QED
  BY <1>3, <1>4, <1>6, <1>7, <1>8 DEF Step, Replays

\* It goes over its modules one by one ...
LEMMA ReplayerSteps ==
    ASSUME IInv, Genuine, NEW t \in Threads, Replayer(t), Replays(t), ~Remaining(t)
    PROVE  Genuine' /\ Replayer(t)' /\ UNCHANGED taken
<1>1. /\ todo[t] \in Seq(Modules) /\ mod[t] \in Modules \union {None}
      /\ pc \in [Threads -> Places] /\ todo \in [Threads -> Seq(Modules)]
      /\ mod \in [Threads -> Modules \union {None}] /\ DOMAIN then = Threads
      /\ left \in [Threads -> SUBSET Names] /\ processors \in [Names -> Modules \union {None}]
      /\ DOMAIN exts = Threads /\ DOMAIN rest = Threads
      /\ pc[t] \in {"mark"} \union Holding => todo[t] # <<>> /\ mod[t] = Head(todo[t])
      /\ pc[t] \in Holding => mod[t] \in marked
      /\ None \notin Modules
  BY ReplayTypes
<1>2. todo[t] # <<>> =>
        /\ Head(todo[t]) \in Modules
        /\ Elements(todo[t]) = {Head(todo[t])} \union Elements(Tail(todo[t]))
  BY <1>1, HeadAndTail, TailElements
<1> HIDE DEF IInv
<1>3. CASE TestMarked(t)
  <2>1. CASE Head(todo[t]) \in marked
    <3>1. /\ pc[t] = "modules" /\ pc' = pc /\ todo'[t] = Tail(todo[t])
          /\ UNCHANGED <<then, exts, rest, left, processors, marked, failed, taken>>
      BY <1>1, <1>3, <2>1 DEF TestMarked, Skip
    <3>2. marked \union Elements(Tail(todo[t])) = marked \union Elements(todo[t])
      BY <1>2, <1>3, <2>1 DEF TestMarked
    <3>3. Phase(t)' = Phase(t) /\ Genuine' /\ Scope' = Scope
      BY <3>1 DEF Phase, Genuine, Scope
    <3> QED
      BY <3>1, <3>2, <3>3 DEF Replayer, Working, Holding
  <2>2. CASE Head(todo[t]) \notin marked
    BY <1>1, <1>2, <1>3, <2>2
       DEF TestMarked, Skip, Replayer, Phase, Working, Holding, Genuine, Scope
  <2> QED
    BY <2>1, <2>2
<1>4. CASE Mark(t)
  BY <1>1, <1>2, <1>4 DEF Mark, Replayer, Phase, Working, Holding, Genuine, Scope
<1>5. CASE Import(t)
  BY <1>1, <1>5 DEF Import, Replayer, Phase, Working, Holding, Genuine, Scope
<1>6. CASE Imported(t)
  BY <1>1, <1>6 DEF Imported, Replayer, Phase, Working, Holding, Genuine, Scope
<1>7. CASE ImportFails(t)
  BY <1>1, <1>2, <1>7 DEF ImportFails, Skip, Replayer, Phase, Working, Holding, Genuine, Scope
<1>8. CASE PublishClass(t)
  BY <1>1, <1>8 DEF PublishClass, Replayer, Phase, Working, Holding, Genuine, Scope
<1>9. CASE Published(t)
  BY <1>1, <1>2, <1>9 DEF Published, Skip, Replayer, Phase, Working, Holding, Genuine, Scope
<1>10. CASE Registered(t)
  BY <1>1, <1>10 DEF Registered, Replayer, Phase, Working, Holding, Genuine, Scope
<1> QED
  BY <1>3, <1>4, <1>5, <1>6, <1>7, <1>8, <1>9, <1>10 DEF Replays

\* ... until all of them have been gone over.
LEMMA ReplayerEnds ==
    ASSUME IInv, TakenOk, Genuine, taken.stage = "replaying",
           NEW t \in Threads, Replayer(t), Remaining(t)
    PROVE  /\ taken'.stage = "replayed" /\ taken'.modules = taken.modules
           /\ Genuine' /\ Idle' /\ marked' = Scope'
<1>1. pc[t] = "extensions" /\ todo[t] = <<>> /\ rest[t] = {}
  BY DEF Replayer, Remaining
<1>2. marked = Scope
  BY <1>1, EmptyElements DEF Replayer
<1>3. taken'.stage = "replayed" /\ taken'.modules = taken.modules
  BY DEF Remaining, TakenOk
<1>4. UNCHANGED <<processors, marked, failed>>
  BY DEF Remaining
<1>5. Idle'
  <2>1. pc' = [pc EXCEPT ![t] = "idle"] /\ DOMAIN pc = Threads
    BY <1>1 DEF Remaining, Finish, TypeOK, CallType
  <2>2. \A u \in Threads \ {t} : pc[u] = "idle"
    BY DEF Replayer
  <2> QED
    BY <2>1, <2>2 DEF Idle
<1> QED
  BY <1>2, <1>3, <1>4, <1>5 DEF Genuine, Scope

LEMMA ReplayBegins ==
    ASSUME IInv, HistoryOk, NEW t \in Threads, Replay(t)
    PROVE  Genuine' /\ Replayer(t)' /\ taken'.stage = "replaying"
<1>1. moduleHistory \in Seq(Modules) /\ marked \subseteq Modules
      /\ DOMAIN todo = Threads /\ DOMAIN then = Threads /\ DOMAIN exts = Threads
      /\ DOMAIN rest = Threads /\ DOMAIN pc = Threads
  BY DEF TypeOK, RegistryType, CallType, RequestType
<1> DEFINE sorted == SortedList[Elements(moduleHistory)]
<1>2. sorted \in Seq(Modules) /\ Elements(sorted) = marked /\ Defaults \in Seq(Modules)
  <2>1. Elements(moduleHistory) \in SUBSET Modules
    BY <1>1, ElementsType
  <2> QED
    BY <2>1, RegistryAssumption DEF RegistryAssumption, HistoryOk, Elements
<1>3. /\ todo'[t] = Defaults \o sorted /\ then'[t] = "extensions" /\ pc'[t] = "modules"
      /\ exts'[t] = {} /\ rest'[t] = {} /\ marked' = {} /\ failed' = {}
      /\ processors' = [n \in Names |-> None] /\ taken'.stage = "replaying"
      /\ taken'.modules = marked
      /\ \A u \in Threads \ {t} : pc'[u] = "idle"
  BY <1>1 DEF Replay, Emptied, Apply, RegisterThen, Idle
<1>4. Elements(todo'[t]) = Elements(Defaults) \union marked
  <2> HIDE DEF sorted
  <2> QED
    BY <1>2, <1>3, ConcatElements
<1> HIDE DEF sorted
<1> QED
  BY <1>3, <1>4 DEF Genuine, Replayer, Phase, Working, Holding, Scope

\* What a step does to the profile that was captured.
LEMMA TakenStep ==
    ASSUME IInv, TakenOk, NEW t \in Threads, Step(t)
    PROVE  /\ TakenOk'
           /\ \/ taken'.stage = "none" \/ Replay(t)
              \/ taken' = taken /\ pc[t] # "idle"
              \/ Remaining(t) /\ (taken'.stage = "replayed" => taken.stage # "none")
<1>1. CASE ApplyProfile(t) \/ ResolveSymbol(t) \/ Clear(t)
  BY <1>1 DEF ApplyProfile, ResolveSymbol, Clear, NotTaken, TakenOk
<1>2. CASE Replay(t)
  BY <1>2 DEF Replay, TakenOk, TypeOK, RegistryType
<1>3. CASE Remaining(t)
  BY <1>3 DEF Remaining, TakenOk
<1>4. CASE TestMarked(t) \/ Mark(t) \/ Import(t) \/ Imported(t) \/ ImportFails(t)
           \/ PublishClass(t) \/ Published(t) \/ Registered(t)
  BY <1>4 DEF TestMarked, Mark, Import, Imported, ImportFails, PublishClass, Published,
              Registered, TakenOk
<1>5. CASE SetFlag(t) \/ Lookup(t) \/ Fetch(t) \/ RegisterProcessor(t)
  BY <1>5 DEF SetFlag, Lookup, Fetch, RegisterProcessor, TakenOk
<1>6. CASE LoadExtension(t) \/ Hooked(t) \/ LoadEntryPoint(t) \/ Entered(t) \/ LoadedAll(t)
  BY <1>6 DEF LoadExtension, Hooked, LoadEntryPoint, Entered, LoadedAll, TakenOk
<1> QED
  BY <1>1, <1>2, <1>3, <1>4, <1>5, <1>6 DEF Step

LEMMA ReplayOkStep ==
    ASSUME ReplayInv, [Next]_vars
    PROVE  TakenOk' /\ ReplayOk'
<1> USE DEF ReplayInv
<1>1. ASSUME NEW t \in Threads, Step(t) PROVE TakenOk' /\ ReplayOk'
  <2>1. TakenOk'
    BY <1>1, TakenStep
  <2>2. CASE taken'.stage = "none"
    BY <2>1, <2>2 DEF ReplayOk
  <2>3. CASE Replay(t)
    BY <2>1, <2>3, ReplayBegins DEF ReplayOk
  <2>4. CASE taken.stage = "replaying" /\ ~Replay(t)
    <3>1. PICK u \in Threads : Replayer(u)
      BY <2>4 DEF ReplayOk
    <3>2. t = u /\ Replays(u) /\ Genuine
      BY <1>1, <2>4, <3>1, OnlyReplayer DEF ReplayOk
    <3>3. CASE Remaining(u)
      BY <2>1, <2>4, <3>1, <3>2, <3>3, ReplayerEnds DEF ReplayOk
    <3>4. CASE ~Remaining(u)
      <4>1. Genuine' /\ Replayer(u)' /\ UNCHANGED taken
        BY <3>1, <3>2, <3>4, ReplayerSteps
      <4> QED
        BY <2>1, <2>4, <4>1 DEF ReplayOk
    <3> QED
      BY <3>3, <3>4
  <2>5. CASE taken.stage = "replayed" /\ ~Replay(t)
    <3>1. pc[t] = "idle"
      BY <2>5 DEF ReplayOk, Idle
    <3>2. ~Remaining(t)
      BY <3>1 DEF Remaining
    <3> QED
      BY <1>1, <2>2, <2>5, <3>1, <3>2, TakenStep
  <2>6. CASE taken.stage = "none" /\ ~Replay(t)
    <3>1. taken'.stage \notin {"replaying", "replayed"}
      BY <1>1, <2>6, TakenStep DEF Remaining, TakenOk
    <3> QED
      BY <2>1, <3>1 DEF ReplayOk
  <2> QED
    BY <2>3, <2>4, <2>5, <2>6 DEF TakenOk
<1>2. CASE UNCHANGED vars
  BY <1>2 DEF vars, TakenOk, ReplayOk, Genuine, Replayer, Phase, Scope, Idle
<1> QED
  BY <1>1, <1>2 DEF Next

LEMMA ReplayInit == Init => ReplayInv
<1> SUFFICES ASSUME Init PROVE ReplayInv
  OBVIOUS
<1>1. IInv
  BY InitInv
<1>2. HistoryOk
  BY EmptyElements DEF Init, HistoryOk
<1>3. TakenOk /\ ReplayOk
  BY DEF Init, NotTaken, TakenOk, ReplayOk
<1> QED
  BY <1>1, <1>2, <1>3 DEF ReplayInv

LEMMA ReplayNext == ReplayInv /\ [Next]_vars => ReplayInv'
<1> HIDE DEF IInv
<1> QED
  BY NextInv, HistoryStep, ReplayOkStep DEF ReplayInv

(* A profile that was captured and is applied where nothing is registered    *)
(* gives the names that its modules offer the classes they stood for, unless *)
(* two modules define a class of one name or an import fails.                *)
THEOREM ProfilesReproduce == Spec => []ProfileReproduces
<1>1. ASSUME ReplayInv PROVE ProfileReproduces
  <2> SUFFICES ASSUME taken.stage = "replayed", NEW n \in Names,
                      taken.processors[n] \in {m \in Scope : n \in Offers[m] /\ m \notin failed}
               PROVE  processors[n] \in {m \in Scope : n \in Offers[m] /\ m \notin failed}
    BY DEF ProfileReproduces, Scope
  <2>1. Genuine /\ Idle /\ marked = Scope
    BY <1>1 DEF ReplayInv, ReplayOk
  <2>2. PICK m \in Scope : n \in Offers[m] /\ m \notin failed
    OBVIOUS
  <2>3. Ready(m)
    BY <1>1, <2>1, <2>2 DEF ReplayInv, RegistryOk
  <2>4. Offers[m] \subseteq Bound
    BY <2>1, <2>2, <2>3 DEF Ready, Handling, Idle
  <2>5. processors[n] # None
    BY <2>2, <2>4 DEF Bound
  <2> QED
    BY <2>1, <2>5 DEF Genuine
<1>2. ReplayInv => ProfileReproduces
  BY <1>1
<1>3. Spec => []ReplayInv
  <2> HIDE DEF IInv
  <2> QED
    BY ReplayInit, ReplayNext, PTL DEF Spec
<1> QED
  BY <1>2, <1>3, PTL

===============================================================================
