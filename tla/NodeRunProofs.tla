----------------------------- MODULE NodeRunProofs -----------------------------
(***************************************************************************)
(* Pipelines of any length, of any definitions, on any contexts: what the  *)
(* inspection and the trace foretell is what happens, and a sweep does     *)
(* what its values ask for, no more and no less.                           *)
(***************************************************************************)
EXTENDS NodeRun, EnumerationProofs, SequenceTheorems

-----------------------------------------------------------------------------
(* What is performed has a state after each step                           *)

\* The state before the first step.
Begun(cx) == [error |-> "none", ctx |-> cx, calls |-> <<>>]

\* Perform has a state after each step, which is what Advance makes of the one before.
PerformedTo(f, steps, cx, N) ==
    f = [n \in 0 .. N |-> IF n = 0 THEN Begun(cx) ELSE Advance(f[n - 1], steps[n])]

LEMMA PerformExists ==
    ASSUME NEW steps, NEW cx, NEW N \in Nat
    PROVE  \E f : PerformedTo(f, steps, cx, N)
<1> DEFINE G == {n \in Nat : \E f : PerformedTo(f, steps, cx, n)}
<1>1. 0 \in G
  <2> DEFINE f == [n \in 0 .. 0 |-> Begun(cx)]
  <2>1. PerformedTo(f, steps, cx, 0)
    BY DEF PerformedTo
  <2> QED
    BY <2>1
<1>2. ASSUME NEW n \in 0 .. N - 1, n \in G PROVE n + 1 \in G
  <2>1. PICK f : PerformedTo(f, steps, cx, n)
    BY <1>2
  <2> DEFINE g == [m \in 0 .. n + 1 |-> IF m = n + 1 THEN Advance(f[n], steps[m]) ELSE f[m]]
  <2>2. \A m \in 0 .. n + 1 : g[m] = IF m = 0 THEN Begun(cx) ELSE Advance(g[m - 1], steps[m])
    BY <2>1 DEF PerformedTo
  <2>3. g = [m \in 0 .. n + 1 |-> g[m]]
    OBVIOUS
  <2>4. PerformedTo(g, steps, cx, n + 1)
    <3> HIDE DEF g
    <3> QED
      BY <2>2, <2>3 DEF PerformedTo
  <2> QED
    BY <2>4
<1>3. N \in G
  <2> HIDE DEF G
  <2> QED
    BY <1>1, <1>2, StepByStep
<1> QED
  BY <1>3

LEMMA PerformSteps ==
    ASSUME NEW steps, NEW cx, Len(steps) \in Nat
    PROVE  \E f : /\ f[0] = Begun(cx)
                  /\ \A n \in 1 .. Len(steps) : f[n] = Advance(f[n - 1], steps[n])
                  /\ Perform(steps, cx) = f[Len(steps)]
<1> DEFINE F == CHOOSE f : PerformedTo(f, steps, cx, Len(steps))
<1>1. PerformedTo(F, steps, cx, Len(steps))
  BY PerformExists, Zenon
<1>2. Perform(steps, cx) = F[Len(steps)]
  BY Zenon DEF Perform, PerformedTo, Begun
<1> HIDE DEF F
<1>3. /\ F[0] = Begun(cx)
      /\ \A n \in 1 .. Len(steps) : F[n] = Advance(F[n - 1], steps[n])
  BY <1>1 DEF PerformedTo
<1> QED
  BY <1>2, <1>3


-----------------------------------------------------------------------------
(* Sequences, mappings and contexts                                        *)

\* A sequence has its length, and what has a domain like that is one.
LEMMA SequenceShape ==
    ASSUME NEW s, IsSequence(s)
    PROVE  Len(s) \in Nat /\ DOMAIN s = 1 .. Len(s) /\ s = [i \in DOMAIN s |-> s[i]]
BY DEF IsSequence

LEMMA SequenceOf1 ==
    ASSUME NEW n \in Nat, NEW s, s = [i \in 1 .. n |-> s[i]]
    PROVE  IsSequence(s) /\ Len(s) = n
<1>1. s \in [1 .. n -> Range(s)]
  BY DEF Range
<1> QED
  BY <1>1 DEF IsSequence

LEMMA Appended ==
    ASSUME NEW s, NEW e, IsSequence(s)
    PROVE  /\ IsSequence(Append(s, e))
           /\ DOMAIN Append(s, e) = DOMAIN s \union {Len(s) + 1}
           /\ \A i \in DOMAIN s : Append(s, e)[i] = s[i]
           /\ Append(s, e)[Len(s) + 1] = e /\ Len(Append(s, e)) = Len(s) + 1
<1> DEFINE S == Range(s) \union {e}  t == Append(s, e)
<1>1. s \in Seq(S) /\ e \in S
  BY DEF IsSequence, Range
<1>2. /\ t \in Seq(S) /\ Len(t) = Len(s) + 1
      /\ \A i \in 1 .. Len(s) : t[i] = s[i]
      /\ t[Len(s) + 1] = e
  <2> HIDE DEF S
  <2> QED
    BY <1>1
<1>3. Len(s) \in Nat /\ DOMAIN s = 1 .. Len(s) /\ DOMAIN t = 1 .. Len(s) + 1
  <2> HIDE DEF S
  <2> QED
    BY <1>1, <1>2
<1>4. t = [i \in 1 .. Len(s) + 1 |-> t[i]]
  <2> HIDE DEF S, t
  <2>1. t = [i \in 1 .. Len(t) |-> t[i]]
    BY <1>2
  <2> QED
    BY <1>2, <2>1
<1> HIDE DEF t
<1>5. IsSequence(t)
  BY <1>3, <1>4, SequenceOf1
<1> QED
  BY <1>2, <1>3, <1>5 DEF t

LEMMA Joined ==
    ASSUME NEW s, NEW t, IsSequence(s), IsSequence(t)
    PROVE  /\ Len(s \o t) \in Nat
           /\ \A n \in 1 .. Len(s \o t) :
                \/ \E i \in DOMAIN s : (s \o t)[n] = s[i]
                \/ \E i \in DOMAIN t : (s \o t)[n] = t[i]
<1> DEFINE S == Range(s) \union Range(t)
<1>1. s \in Seq(S) /\ t \in Seq(S)
  BY DEF IsSequence
<1> HIDE DEF S
<1>2. /\ Len(s \o t) = Len(s) + Len(t)
      /\ \A n \in 1 .. Len(s) + Len(t) :
           (s \o t)[n] = IF n <= Len(s) THEN s[n] ELSE t[n - Len(s)]
  BY <1>1
<1>3. /\ Len(s) \in Nat /\ DOMAIN s = 1 .. Len(s)
      /\ Len(t) \in Nat /\ DOMAIN t = 1 .. Len(t)
  BY SequenceShape
<1>4. ASSUME NEW n \in 1 .. Len(s) + Len(t)
      PROVE  \/ \E i \in DOMAIN s : (s \o t)[n] = s[i]
             \/ \E i \in DOMAIN t : (s \o t)[n] = t[i]
  <2>1. CASE n <= Len(s)
    BY <1>2, <1>3, <2>1
  <2>2. CASE n > Len(s)
    <3>1. n - Len(s) \in DOMAIN t /\ (s \o t)[n] = t[n - Len(s)]
      BY <1>2, <1>3, <2>2
    <3> QED
      BY <3>1
  <2> QED
    BY <1>3, <2>1, <2>2
<1> QED
  BY <1>2, <1>3, <1>4

\* What a mapping holds after a key was taken away.
LEMMA WithoutKey ==
    ASSUME NEW f, NEW k
    PROVE  /\ DOMAIN Without(f, k) = DOMAIN f \ {k}
           /\ \A x \in DOMAIN f \ {k} : Without(f, k)[x] = f[x]
BY DEF Without, Restrict

LEMMA MappingsStay ==
    ASSUME NEW f, NEW k, IsMapping(f)
    PROVE  /\ IsMapping(Without(f, k)) /\ IsMapping(NoKeys)
           /\ \A v : IsValue(v) => IsMapping(With(f, k, v))
<1>1. IsMapping(Without(f, k))
  <2>1. ASSUME NEW x \in DOMAIN Without(f, k) PROVE IsValue(Without(f, k)[x])
    <3>1. x \in DOMAIN f \ {k} /\ Without(f, k)[x] = f[x]
      BY WithoutKey
    <3> QED
      BY <3>1 DEF IsMapping
  <2> QED
    BY <2>1 DEF IsMapping
<1>2. IsMapping(NoKeys)
  BY DEF IsMapping, NoKeys
<1>3. ASSUME NEW v, IsValue(v) PROVE IsMapping(With(f, k, v))
  <2>0. /\ DOMAIN With(f, k, v) = DOMAIN f \union {k}
        /\ With(f, k, v)[k] = v
        /\ \A x \in DOMAIN f : x # k => With(f, k, v)[x] = f[x]
    BY DEF With, Over, Only
  <2>1. ASSUME NEW x \in DOMAIN With(f, k, v) PROVE IsValue(With(f, k, v)[x])
    <3>1. CASE x = k
      <4>1. With(f, k, v)[x] = v
        BY <2>0, <3>1
      <4> QED
        BY <1>3, <4>1
    <3>2. CASE x # k
      <4>1. x \in DOMAIN f /\ With(f, k, v)[x] = f[x]
        BY <2>0, <2>1, <3>2
      <4> QED
        BY <4>1 DEF IsMapping
    <3> QED
      BY <3>1, <3>2
  <2> QED
    BY <2>1 DEF IsMapping
<1> QED
  BY <1>1, <1>2, <1>3

\* A context whose parts are known.
LEMMA ContextOf ==
    ASSUME NEW c, IsContext(c), NEW g, NEW fs, IsMapping(g), IsSequence(fs),
           \A i \in DOMAIN fs : IsMapping(fs[i]), c.kind = "single" => fs = <<>>
    PROVE  IsContext([kind |-> c.kind, global |-> g, items |-> fs])
BY DEF IsContext

LEMMA ItemsMapped ==
    ASSUME NEW c, IsContext(c), NEW fs, DOMAIN fs = DOMAIN c.items,
           fs = [i \in DOMAIN fs |-> fs[i]]
    PROVE  IsSequence(fs) /\ (c.kind = "single" => fs = <<>>)
<1>1. Len(c.items) \in Nat /\ DOMAIN c.items = 1 .. Len(c.items)
  BY SequenceShape DEF IsContext
<1>2. IsSequence(fs) /\ Len(fs) = Len(c.items)
  BY <1>1, SequenceOf1
<1>3. c.kind = "single" => Len(fs) = 0
  BY <1>2 DEF IsContext
<1>4. Len(fs) = 0 => fs = <<>>
  BY <1>2 DEF IsSequence
<1> QED
  BY <1>2, <1>3, <1>4

LEMMA KeysAre ==
    ASSUME NEW c
    PROVE  /\ \A x : x \in ItemKeys(c) <=> \E i \in DOMAIN c.items : x \in DOMAIN c.items[i]
           /\ \A x : x \in Keys(c) <=> x \in DOMAIN c.global \/ x \in ItemKeys(c)
           /\ \A x : x \in Conflicts(c) <=> x \in DOMAIN c.global /\ x \in ItemKeys(c)
BY DEF ItemKeys, Keys, Conflicts

\* A context before and after: only keys of C were added and only keys of S taken away.
Keeps(c, d, C, S) ==
    /\ IsContext(d) /\ d.kind = c.kind
    /\ Keys(d) \ Keys(c) \subseteq C /\ Keys(c) \ Keys(d) \subseteq S
StepErrors == {"none", "value", "key", "index"}

LEMMA SetGlobalKeeps ==
    ASSUME NEW c, IsContext(c), NEW k, NEW v, IsValue(v)
    PROVE  SetGlobal(c, k, v).error = "none" /\ Keeps(c, SetGlobal(c, k, v).ctx, {k}, {})
<1> DEFINE g == With(c.global, k, v)
           d == [kind |-> c.kind, global |-> g, items |-> c.items]
<1>1. SetGlobal(c, k, v) = [error |-> "none", ctx |-> d]
  BY DEF SetGlobal, Done, IsContext
<1>2. IsMapping(g)
  BY MappingsStay DEF IsContext
<1>3. DOMAIN g = DOMAIN c.global \union {k}
  BY DEF With, Over, Only
<1> HIDE DEF g
<1>4. IsContext(d)
  BY <1>2, ContextOf DEF IsContext
<1>5. Keys(d) = Keys(c) \union {k}
  BY <1>3 DEF Keys, ItemKeys
<1> HIDE DEF d
<1>6. d.kind = c.kind
  BY DEF d
<1> QED
  BY <1>1, <1>4, <1>5, <1>6 DEF Keeps

\* The items are changed one by one, each to a mapping.
LEMMA ItemsKept ==
    ASSUME NEW c, IsContext(c), NEW g, IsMapping(g), NEW fs,
           fs = [i \in DOMAIN c.items |-> fs[i]], \A i \in DOMAIN c.items : IsMapping(fs[i])
    PROVE  IsContext([kind |-> c.kind, global |-> g, items |-> fs])
<1>1. IsSequence(fs) /\ (c.kind = "single" => fs = <<>>)
  BY ItemsMapped
<1> QED
  BY <1>1, ContextOf

LEMMA SetValueKeeps ==
    ASSUME NEW c, IsContext(c), NEW k, NEW v, IsValue(v)
    PROVE  SetValue(c, k, v).error \in StepErrors /\ Keeps(c, SetValue(c, k, v).ctx, {k}, {})
<1>1. CASE c.kind = "single" \/ k \in DOMAIN c.global
  BY <1>1, SetGlobalKeeps DEF SetValue, StepErrors
<1>2. CASE ~(c.kind = "single" \/ k \in DOMAIN c.global) /\ KeysError(c) # "none"
  BY <1>2 DEF SetValue, Failed, KeysError, StepErrors, Keeps
<1>3. CASE ~(c.kind = "single" \/ k \in DOMAIN c.global) /\ KeysError(c) = "none" /\ k \in ItemKeys(c)
  <2> DEFINE fs == [i \in DOMAIN c.items |-> With(c.items[i], k, v)]
             d == [kind |-> c.kind, global |-> c.global, items |-> fs]
  <2>1. SetValue(c, k, v) = [error |-> "none", ctx |-> d]
    BY <1>3 DEF SetValue, Done, IsContext
  <2>2. \A i \in DOMAIN c.items : IsMapping(fs[i]) /\ DOMAIN fs[i] = DOMAIN c.items[i] \union {k}
    <3>1. ASSUME NEW i \in DOMAIN c.items
          PROVE  IsMapping(With(c.items[i], k, v))
                 /\ DOMAIN With(c.items[i], k, v) = DOMAIN c.items[i] \union {k}
      <4>1. IsMapping(c.items[i])
        BY DEF IsContext
      <4>2. IsMapping(With(c.items[i], k, v))
        BY <4>1, MappingsStay
      <4> QED
        BY <4>2 DEF With, Over, Only
    <3> QED
      BY <3>1
  <2>3. DOMAIN fs = DOMAIN c.items /\ fs = [i \in DOMAIN c.items |-> fs[i]]
    OBVIOUS
  <2> HIDE DEF fs
  <2>4. IsContext(d)
    BY <2>2, <2>3, ItemsKept DEF IsContext
  <2>5. \A x : x \in ItemKeys(d) <=> x \in ItemKeys(c) \/ x = k
    <3>1. d.items = fs
      OBVIOUS
    <3>2. \E i \in DOMAIN c.items : TRUE
      BY <1>3, KeysAre
    <3> HIDE DEF d
    <3>3. \A x : x \in ItemKeys(d) <=> \E i \in DOMAIN c.items : x \in DOMAIN fs[i]
      BY <2>3, <3>1 DEF ItemKeys
    <3>4. \A x : x \in ItemKeys(c) <=> \E i \in DOMAIN c.items : x \in DOMAIN c.items[i]
      BY DEF ItemKeys
    <3> QED
      BY <2>2, <3>2, <3>3, <3>4
  <2>6. Keys(d) = Keys(c) \union {k}
    <3>1. d.global = c.global
      OBVIOUS
    <3> HIDE DEF d
    <3> QED
      BY <2>5, <3>1 DEF Keys
  <2>7. d.kind = c.kind
    OBVIOUS
  <2> HIDE DEF d
  <2> QED
    BY <2>1, <2>4, <2>6, <2>7 DEF Keeps, StepErrors
<1>4. CASE ~(c.kind = "single" \/ k \in DOMAIN c.global) /\ KeysError(c) = "none" /\ k \notin ItemKeys(c)
  BY <1>4, SetGlobalKeeps DEF SetValue, StepErrors
<1> QED
  BY <1>1, <1>2, <1>3, <1>4

\* One item is changed.
LEMMA ItemWritten ==
    ASSUME NEW c, IsContext(c), NEW j \in DOMAIN c.items, NEW m, IsMapping(m)
    PROVE  LET d == [c EXCEPT !.items[j] = m] IN
           /\ IsContext(d) /\ d.kind = c.kind /\ d.global = c.global
           /\ DOMAIN d.items = DOMAIN c.items /\ d.items[j] = m
           /\ \A i \in DOMAIN c.items : i # j => d.items[i] = c.items[i]
<1> DEFINE fs == [i \in DOMAIN c.items |-> IF i = j THEN m ELSE c.items[i]]
           d == [kind |-> c.kind, global |-> c.global, items |-> fs]
<1>1. [c EXCEPT !.items[j] = m] = d
  <2>1. [c.items EXCEPT ![j] = m] = fs
    OBVIOUS
  <2>2. [c EXCEPT !.items[j] = m] = [c EXCEPT !.items = [c.items EXCEPT ![j] = m]]
    BY DEF IsContext
  <2> HIDE DEF fs
  <2> QED
    BY <2>1, <2>2 DEF IsContext
<1>2. \A i \in DOMAIN c.items : IsMapping(fs[i])
  BY DEF IsContext
<1>3. DOMAIN fs = DOMAIN c.items /\ fs = [i \in DOMAIN c.items |-> fs[i]] /\ fs[j] = m
      /\ \A i \in DOMAIN c.items : i # j => fs[i] = c.items[i]
  OBVIOUS
<1> HIDE DEF fs
<1>4. IsContext(d)
  BY <1>2, <1>3, ItemsKept DEF IsContext
<1> QED
  BY <1>1, <1>3, <1>4

LEMMA ItemSet ==
    ASSUME NEW c, IsContext(c), NEW j \in DOMAIN c.items, NEW k, NEW v, IsValue(v)
    PROVE  Keeps(c, [c EXCEPT !.items[j] = With(@, k, v)], {k}, {})
<1> DEFINE m == With(c.items[j], k, v)
           d == [c EXCEPT !.items[j] = m]
<1>1. [c EXCEPT !.items[j] = With(@, k, v)] = d
  OBVIOUS
<1>2. IsMapping(m)
  BY MappingsStay DEF IsContext
<1>3. DOMAIN m = DOMAIN c.items[j] \union {k}
  BY DEF With, Over, Only
<1> HIDE DEF m
<1>4. /\ IsContext(d) /\ d.kind = c.kind /\ d.global = c.global
      /\ DOMAIN d.items = DOMAIN c.items /\ d.items[j] = m
      /\ \A i \in DOMAIN c.items : i # j => d.items[i] = c.items[i]
  BY <1>2, ItemWritten
<1> HIDE DEF d
<1>5. \A x : x \in ItemKeys(d) <=> x \in ItemKeys(c) \/ x = k
  BY <1>3, <1>4 DEF ItemKeys
<1>6. Keys(d) = Keys(c) \union {k}
  BY <1>4, <1>5 DEF Keys
<1> QED
  BY <1>1, <1>4, <1>6 DEF Keeps

LEMMA SetItemKeeps ==
    ASSUME NEW c, IsContext(c), NEW i, NEW k, NEW v, IsValue(v)
    PROVE  /\ SetItemValue(c, i, k, v).error \in StepErrors
           /\ Keeps(c, SetItemValue(c, i, k, v).ctx, {k}, {})
<1>1. CASE k \in DOMAIN c.global \/ i \notin DOMAIN c.items
  BY <1>1 DEF SetItemValue, Failed, StepErrors, Keeps
<1>2. CASE k \notin DOMAIN c.global /\ i \in DOMAIN c.items
  BY <1>2, ItemSet DEF SetItemValue, Done, StepErrors
<1> QED
  BY <1>1, <1>2

LEMMA DeleteValueKeeps ==
    ASSUME NEW c, IsContext(c), NEW k
    PROVE  DeleteValue(c, k).error \in StepErrors /\ Keeps(c, DeleteValue(c, k).ctx, {}, {k})
<1>1. CASE k \notin Keys(c)
  BY <1>1 DEF DeleteValue, Failed, StepErrors, Keeps
<1>2. CASE k \in Keys(c)
  <2> DEFINE g == Without(c.global, k)
             fs == [i \in DOMAIN c.items |-> Without(c.items[i], k)]
             d == [kind |-> c.kind, global |-> g, items |-> fs]
  <2>1. DeleteValue(c, k) = [error |-> "none", ctx |-> d]
    BY <1>2 DEF DeleteValue, Done, IsContext
  <2>2. IsMapping(g) /\ DOMAIN g = DOMAIN c.global \ {k}
    BY MappingsStay, WithoutKey DEF IsContext
  <2>3. \A i \in DOMAIN c.items : IsMapping(fs[i]) /\ DOMAIN fs[i] = DOMAIN c.items[i] \ {k}
    <3>1. ASSUME NEW i \in DOMAIN c.items
          PROVE  IsMapping(Without(c.items[i], k))
                 /\ DOMAIN Without(c.items[i], k) = DOMAIN c.items[i] \ {k}
      BY MappingsStay, WithoutKey DEF IsContext
    <3> QED
      BY <3>1
  <2>4. DOMAIN fs = DOMAIN c.items /\ fs = [i \in DOMAIN c.items |-> fs[i]]
    OBVIOUS
  <2> HIDE DEF g, fs
  <2>5. IsContext(d)
    BY <2>2, <2>3, <2>4, ItemsKept
  <2>6. d.kind = c.kind /\ d.global = g /\ d.items = fs
    OBVIOUS
  <2> HIDE DEF d
  <2>7. \A x : x \in ItemKeys(d) <=> x \in ItemKeys(c) /\ x # k
    <3>1. \A x : x \in ItemKeys(d) <=> \E i \in DOMAIN c.items : x \in DOMAIN fs[i]
      BY <2>4, <2>6 DEF ItemKeys
    <3>2. \A x : x \in ItemKeys(c) <=> \E i \in DOMAIN c.items : x \in DOMAIN c.items[i]
      BY DEF ItemKeys
    <3> QED
      BY <2>3, <3>1, <3>2
  <2>8. Keys(d) = Keys(c) \ {k}
    BY <2>2, <2>6, <2>7 DEF Keys
  <2> QED
    BY <2>1, <2>5, <2>6, <2>8 DEF Keeps, StepErrors
<1> QED
  BY <1>1, <1>2

LEMMA AddKeyKeeps ==
    ASSUME NEW c, IsContext(c), NEW k, NEW v, IsValue(v)
    PROVE  AddKey(c, k, v).error \in StepErrors /\ Keeps(c, AddKey(c, k, v).ctx, {k}, {})
<1>1. CASE KeysError(c) # "none" \/ k \in Keys(c)
  BY <1>1 DEF AddKey, Failed, KeysError, StepErrors, Keeps
<1>2. CASE KeysError(c) = "none" /\ k \notin Keys(c)
  BY <1>2, SetValueKeeps DEF AddKey
<1> QED
  BY <1>1, <1>2

-----------------------------------------------------------------------------
(* What is performed step by step                                          *)

\* A step that only calls with values, and only adds keys of C and takes away keys of S.
StepOk(s, C, S) ==
    /\ s.do \in {"call", "set", "update", "delete", "add", "setItem", "fail"}
    /\ s.do = "call" => \A n \in DOMAIN s.args : s.args[n].kind \in Kinds
    /\ s.do \in {"set", "update", "add", "setItem"} => IsValue(s.value)
    /\ s.do \in {"set", "add", "setItem"} => s.key \in C
    /\ s.do = "update" /\ s.key \in s.declared => s.key \in C
    /\ s.do = "delete" /\ s.key \in s.declared => s.key \in S
    /\ s.do = "fail" => s.why \in {"type", "value"}

AreCalls(calls) ==
    IsSequence(calls)
    /\ \A i \in DOMAIN calls : \A n \in DOMAIN calls[i] : calls[i][n].kind \in Kinds

\* What the steps so far have made of a context.
SoFar(now, ctx0, C, S) ==
    /\ now = [error |-> now.error, ctx |-> now.ctx, calls |-> now.calls]
    /\ now.error \in StepErrors \union {"type"} /\ AreCalls(now.calls)
    /\ Keeps(ctx0, now.ctx, C, S)

LEMMA KeepsOn ==
    ASSUME NEW c, NEW d, NEW e, NEW C, NEW S, Keeps(c, d, C, S),
           NEW D \in SUBSET C, NEW T \in SUBSET S, Keeps(d, e, D, T)
    PROVE  Keeps(c, e, C, S)
BY DEF Keeps

LEMMA CallAppended ==
    ASSUME NEW calls, AreCalls(calls), NEW args, \A n \in DOMAIN args : args[n].kind \in Kinds
    PROVE  AreCalls(Append(calls, args))
<1> DEFINE t == Append(calls, args)
<1>1. /\ IsSequence(t) /\ DOMAIN t = DOMAIN calls \union {Len(calls) + 1}
      /\ \A i \in DOMAIN calls : t[i] = calls[i]
      /\ t[Len(calls) + 1] = args
  BY Appended DEF AreCalls
<1> HIDE DEF t
<1>2. ASSUME NEW i \in DOMAIN t PROVE \A n \in DOMAIN t[i] : t[i][n].kind \in Kinds
  <2>1. CASE i \in DOMAIN calls
    BY <1>1, <2>1 DEF AreCalls
  <2>2. CASE i = Len(calls) + 1
    BY <1>1, <2>2
  <2> QED
    BY <1>1, <1>2, <2>1, <2>2
<1>3. AreCalls(t)
  BY <1>1, <1>2 DEF AreCalls
<1> QED
  BY <1>3 DEF t

LEMMA EffectKeeps ==
    ASSUME NEW c, IsContext(c), NEW s, NEW C, NEW S, StepOk(s, C, S), s.do # "call"
    PROVE  Effect(c, s).error \in StepErrors \union {"type"} /\ Keeps(c, Effect(c, s).ctx, C, S)
<1>1. Keeps(c, c, C, S)
  BY DEF Keeps
<1>2. CASE s.do = "set"
  <2>1. Effect(c, s) = SetValue(c, s.key, s.value)
    BY <1>2 DEF Effect, UpdateContext
  <2>2. IsValue(s.value) /\ {s.key} \subseteq C
    BY <1>2 DEF StepOk
  <2>3. SetValue(c, s.key, s.value).error \in StepErrors /\ Keeps(c, SetValue(c, s.key, s.value).ctx, {s.key}, {})
    BY <2>2, SetValueKeeps
  <2> QED
    BY <2>1, <2>2, <2>3 DEF Keeps
<1>3. CASE s.do = "update" /\ s.key \in s.declared
  <2>1. Effect(c, s) = SetValue(c, s.key, s.value)
    BY <1>3 DEF Effect, ValidatedUpdate, UpdateContext
  <2>2. IsValue(s.value) /\ {s.key} \subseteq C
    BY <1>3 DEF StepOk
  <2>3. SetValue(c, s.key, s.value).error \in StepErrors /\ Keeps(c, SetValue(c, s.key, s.value).ctx, {s.key}, {})
    BY <2>2, SetValueKeeps
  <2> QED
    BY <2>1, <2>2, <2>3 DEF Keeps
<1>4. CASE s.do \in {"update", "delete"} /\ s.key \notin s.declared
  BY <1>1, <1>4 DEF Effect, ValidatedUpdate, ValidatedDelete, Failed, StepErrors
<1>5. CASE s.do = "delete" /\ s.key \in s.declared
  <2>1. Effect(c, s) = DeleteValue(c, s.key)
    BY <1>5 DEF Effect, ValidatedDelete, DeleteContext
  <2>2. {s.key} \subseteq S
    BY <1>5 DEF StepOk
  <2>3. DeleteValue(c, s.key).error \in StepErrors /\ Keeps(c, DeleteValue(c, s.key).ctx, {}, {s.key})
    BY <2>2, DeleteValueKeeps
  <2> QED
    BY <2>1, <2>2, <2>3 DEF Keeps
<1>6. CASE s.do = "add"
  <2>1. Effect(c, s) = AddKey(c, s.key, s.value)
    BY <1>6 DEF Effect
  <2>2. IsValue(s.value) /\ {s.key} \subseteq C
    BY <1>6 DEF StepOk
  <2>3. AddKey(c, s.key, s.value).error \in StepErrors /\ Keeps(c, AddKey(c, s.key, s.value).ctx, {s.key}, {})
    BY <2>2, AddKeyKeeps
  <2> QED
    BY <2>1, <2>2, <2>3 DEF Keeps
<1>7. CASE s.do = "setItem"
  <2>1. Effect(c, s) = SetItemValue(c, s.item, s.key, s.value)
    BY <1>7 DEF Effect
  <2>2. IsValue(s.value) /\ {s.key} \subseteq C
    BY <1>7 DEF StepOk
  <2>3. SetItemValue(c, s.item, s.key, s.value).error \in StepErrors /\ Keeps(c, SetItemValue(c, s.item, s.key, s.value).ctx, {s.key}, {})
    BY <2>2, SetItemKeeps
  <2> QED
    BY <2>1, <2>2, <2>3 DEF Keeps
<1>8. CASE s.do = "fail"
  BY <1>1, <1>8 DEF Effect, Failed, StepErrors, StepOk
<1> QED
  BY <1>2, <1>3, <1>4, <1>5, <1>6, <1>7, <1>8 DEF StepOk

LEMMA AdvanceKeeps ==
    ASSUME NEW at0, NEW ctx0, NEW s, NEW C, NEW S, SoFar(at0, ctx0, C, S), StepOk(s, C, S)
    PROVE  SoFar(Advance(at0, s), ctx0, C, S)
<1>1. CASE at0.error # "none"
  BY <1>1 DEF Advance
<1>2. CASE at0.error = "none" /\ s.do = "call"
  <2>1. Advance(at0, s) = [error |-> at0.error, ctx |-> at0.ctx, calls |-> Append(at0.calls, s.args)]
    BY <1>2 DEF Advance, SoFar
  <2>2. AreCalls(Append(at0.calls, s.args))
    BY <1>2, CallAppended DEF SoFar, StepOk
  <2> QED
    BY <2>1, <2>2 DEF SoFar
<1>3. CASE at0.error = "none" /\ s.do # "call"
  <2> DEFINE e == Effect(at0.ctx, s)
  <2>1. Advance(at0, s) = [error |-> e.error, ctx |-> e.ctx, calls |-> at0.calls]
    BY <1>3 DEF Advance
  <2>2. e.error \in StepErrors \union {"type"} /\ Keeps(at0.ctx, e.ctx, C, S)
    BY <1>3, EffectKeeps DEF SoFar, Keeps
  <2> HIDE DEF e
  <2>3. Keeps(ctx0, e.ctx, C, S)
    BY <2>2, KeepsOn DEF SoFar
  <2> QED
    BY <2>1, <2>2, <2>3 DEF SoFar
<1> QED
  BY <1>1, <1>2, <1>3

\* Whatever the steps are, they keep a context a context, and to its declared keys.
LEMMA PerformKeeps ==
    ASSUME NEW steps, Len(steps) \in Nat, NEW c, IsContext(c), NEW C, NEW S,
           \A n \in 1 .. Len(steps) : StepOk(steps[n], C, S)
    PROVE  SoFar(Perform(steps, c), c, C, S)
<1>1. PICK f : /\ f[0] = Begun(c)
               /\ \A n \in 1 .. Len(steps) : f[n] = Advance(f[n - 1], steps[n])
               /\ Perform(steps, c) = f[Len(steps)]
  BY PerformSteps
<1> DEFINE G == {n \in Nat : SoFar(f[n], c, C, S)}
<1>2. 0 \in G
  <2>1. AreCalls(<<>>)
    BY DEF AreCalls, IsSequence
  <2>2. SoFar(Begun(c), c, C, S)
    BY <2>1 DEF SoFar, Begun, Keeps, StepErrors
  <2> QED
    BY <1>1, <2>2
<1>3. ASSUME NEW n \in 0 .. Len(steps) - 1, n \in G PROVE n + 1 \in G
  <2>1. f[n + 1] = Advance(f[n], steps[n + 1]) /\ StepOk(steps[n + 1], C, S)
    BY <1>1
  <2>2. SoFar(f[n + 1], c, C, S)
    BY <1>3, <2>1, AdvanceKeeps
  <2> QED
    BY <2>2
<1>4. \A n \in 0 .. Len(steps) : n \in G
  <2> HIDE DEF G
  <2> QED
    BY <1>2, <1>3, StepByStep
<1> QED
  BY <1>1, <1>4

-----------------------------------------------------------------------------
(* The calls of a sweep                                                    *)

AreArgs(args) == \A n \in DOMAIN args : args[n].kind \in Kinds

\* Lists of values, none of them empty.
AreLists(seqs) ==
    \A v \in DOMAIN seqs :
        /\ IsSequence(seqs[v]) /\ Len(seqs[v]) \in Nat \ {0}
        /\ \A i \in 1 .. Len(seqs[v]) : seqs[v][i].kind \in Kinds

\* The combinations of the fastest names: as for Perform, each comes from the one before.
BlocksTo(b, seqs, names, N) ==
    b = [j \in 0 .. N |-> IF j = 0 THEN 1 ELSE b[j - 1] * Len(seqs[names[j]])]

LEMMA BlocksExist ==
    ASSUME NEW seqs, NEW names, NEW N \in Nat
    PROVE  \E b : BlocksTo(b, seqs, names, N)
<1> DEFINE G == {n \in Nat : \E b : BlocksTo(b, seqs, names, n)}
<1>1. 0 \in G
  <2> DEFINE b == [j \in 0 .. 0 |-> 1]
  <2>1. BlocksTo(b, seqs, names, 0)
    BY DEF BlocksTo
  <2> QED
    BY <2>1
<1>2. ASSUME NEW n \in 0 .. N - 1, n \in G PROVE n + 1 \in G
  <2>1. PICK b : BlocksTo(b, seqs, names, n)
    BY <1>2
  <2> DEFINE g == [m \in 0 .. n + 1 |-> IF m = n + 1 THEN b[n] * Len(seqs[names[m]]) ELSE b[m]]
  <2>2. \A m \in 0 .. n + 1 : g[m] = IF m = 0 THEN 1 ELSE g[m - 1] * Len(seqs[names[m]])
    BY <2>1 DEF BlocksTo
  <2>3. g = [m \in 0 .. n + 1 |-> g[m]]
    OBVIOUS
  <2>4. BlocksTo(g, seqs, names, n + 1)
    <3> HIDE DEF g
    <3> QED
      BY <2>2, <2>3 DEF BlocksTo
  <2> QED
    BY <2>4
<1>3. N \in G
  <2> HIDE DEF G
  <2> QED
    BY <1>1, <1>2, StepByStep
<1> QED
  BY <1>3

LEMMA BlocksCount ==
    ASSUME NEW seqs, NEW names, NEW N \in Nat, NEW b, BlocksTo(b, seqs, names, N),
           \A j \in 1 .. N : Len(seqs[names[j]]) \in Nat \ {0}
    PROVE  \A j \in 0 .. N : b[j] \in Nat \ {0}
<1> DEFINE G == {j \in Nat : b[j] \in Nat \ {0}}
<1>1. 0 \in G
  BY DEF BlocksTo
<1>2. ASSUME NEW j \in 0 .. N - 1, j \in G PROVE j + 1 \in G
  <2>1. b[j + 1] = b[j] * Len(seqs[names[j + 1]])
    BY DEF BlocksTo
  <2>2. b[j] \in Nat \ {0} /\ Len(seqs[names[j + 1]]) \in Nat \ {0}
    BY <1>2
  <2>3. \A x, y \in Nat \ {0} : x * y \in Nat \ {0}
    OBVIOUS
  <2>4. b[j + 1] \in Nat \ {0}
    BY <2>1, <2>2, <2>3
  <2> QED
    BY <2>4
<1>3. \A j \in 0 .. N : j \in G
  <2> HIDE DEF G
  <2> QED
    BY <1>1, <1>2, StepByStep
<1> QED
  BY <1>3

LEMMA Within ==
    ASSUME NEW x \in Int, NEW n \in Nat \ {0}
    PROVE  (x % n) + 1 \in 1 .. n
OBVIOUS

\* What a sweep does at each step: a value for each variable.
AreSteps(steps, seqs) ==
    /\ IsSequence(steps)
    /\ \A i \in DOMAIN steps : /\ DOMAIN steps[i] = DOMAIN seqs
                               /\ AreArgs(steps[i])

\* The combinations, each drawn from a block of the slower names.
Combined(seqs, names, block) ==
    [i \in 1 .. block[Len(names)] |-> [v \in DOMAIN seqs |->
        seqs[v][(((i - 1) \div block[(CHOOSE j \in DOMAIN names : names[j] = v) - 1])
                 % Len(seqs[v])) + 1]]]

LEMMA CombinationSteps ==
    ASSUME NEW seqs, AreLists(seqs), NEW names, IsSequence(names), Range(names) = DOMAIN seqs,
           NEW block, BlocksTo(block, seqs, names, Len(names))
    PROVE  AreSteps(Combined(seqs, names, block), seqs)
<1> DEFINE N == Len(names)
           place(v) == CHOOSE j \in DOMAIN names : names[j] = v
           value(i, v) == seqs[v][(((i - 1) \div block[place(v) - 1]) % Len(seqs[v])) + 1]
           P == [i \in 1 .. block[N] |-> [v \in DOMAIN seqs |-> value(i, v)]]
<1>2. N \in Nat /\ DOMAIN names = 1 .. N
  BY SequenceShape
<1>4. \A v \in DOMAIN seqs : place(v) \in 1 .. N
  <2> SUFFICES ASSUME NEW v \in DOMAIN seqs PROVE place(v) \in DOMAIN names
    BY <1>2
  <2>1. \E j \in DOMAIN names : names[j] = v
    BY DEF Range
  <2> QED
    BY <2>1, Zenon
<1>5. \A j \in 1 .. N : names[j] \in DOMAIN seqs
  BY <1>2 DEF Range
<1>6. \A j \in 1 .. N : Len(seqs[names[j]]) \in Nat \ {0}
  BY <1>5 DEF AreLists
<1>7. \A j \in 0 .. N : block[j] \in Nat \ {0}
  BY <1>2, <1>6, BlocksCount
<1>8. ASSUME NEW i \in 1 .. block[N], NEW v \in DOMAIN seqs
      PROVE  value(i, v).kind \in Kinds
  <2>1. block[place(v) - 1] \in Nat \ {0} /\ Len(seqs[v]) \in Nat \ {0}
    <3>1. place(v) - 1 \in 0 .. N
      BY <1>2, <1>4
    <3> HIDE DEF place
    <3> QED
      BY <1>7, <3>1 DEF AreLists
  <2> DEFINE y == (i - 1) \div block[place(v) - 1]
  <2>2. y \in Int
    <3>1. i - 1 \in Int
      BY <1>2, <1>7
    <3> HIDE DEF place
    <3> QED
      BY <2>1, <3>1
  <2> HIDE DEF y, place
  <2>3. (y % Len(seqs[v])) + 1 \in 1 .. Len(seqs[v])
    BY <2>1, <2>2, Within
  <2>4. seqs[v][(y % Len(seqs[v])) + 1].kind \in Kinds
    BY <2>3 DEF AreLists
  <2> QED
    BY <2>4 DEF y
<1>9. IsSequence(P)
  <2>1. block[N] \in Nat
    BY <1>2, <1>7
  <2>2. P = [i \in 1 .. block[N] |-> P[i]]
    OBVIOUS
  <2> HIDE DEF P
  <2> QED
    BY <2>1, <2>2, SequenceOf1
<1>10. ASSUME NEW i \in DOMAIN P PROVE DOMAIN P[i] = DOMAIN seqs /\ AreArgs(P[i])
  <2>1. i \in 1 .. block[N] /\ P[i] = [v \in DOMAIN seqs |-> value(i, v)]
    OBVIOUS
  <2> HIDE DEF P, value
  <2>2. \A v \in DOMAIN seqs : P[i][v].kind \in Kinds
    BY <1>8, <2>1
  <2> QED
    BY <2>1, <2>2 DEF AreArgs
<1>11. AreSteps(P, seqs)
  <2> HIDE DEF P
  <2> QED
    BY <1>9, <1>10 DEF AreSteps
<1> QED
  BY <1>11, Zenon DEF Combined

\* The names of a product, the last of the sorted ones first.
LEMMA NamesOf ==
    ASSUME NEW S \in SUBSET Int, IsFiniteSet(S)
    PROVE  LET names == Reverse(Sorted(S)) IN
           /\ Cardinality(S) \in Nat /\ Len(names) = Cardinality(S)
           /\ IsSequence(names) /\ Range(names) = S /\ Enumerates(names, Cardinality(S), S)
<1> DEFINE N == Cardinality(S)
           s == Sorted(S)
           t == [i \in 1 .. N |-> s[(N - i) + 1]]
<1>1. /\ N \in Nat /\ s \in [1 .. N -> S]
      /\ \A i, j \in 1 .. N : s[i] = s[j] => i = j
      /\ \A x \in S : \E i \in 1 .. N : s[i] = x
  BY SortedIs
<1> HIDE DEF N, s
<1>2. Len(s) = N
  <2>1. s = [i \in 1 .. N |-> s[i]]
    BY <1>1
  <2> QED
    BY <1>1, <2>1, SequenceOf1
<1>3. Reverse(s) = t
  BY <1>2 DEF Reverse
<1>4. \A i \in 1 .. N : (N - i) + 1 \in 1 .. N
  BY <1>1
<1>5. t \in [1 .. N -> S] /\ \A i, j \in 1 .. N : t[i] = t[j] => i = j
  <2>1. ASSUME NEW i \in 1 .. N, NEW j \in 1 .. N, t[i] = t[j] PROVE i = j
    <3>1. (N - i) + 1 = (N - j) + 1
      BY <1>1, <1>4, <2>1
    <3> QED
      BY <1>1, <3>1
  <2> QED
    BY <1>1, <1>4, <2>1
<1>6. ASSUME NEW x \in S PROVE \E i \in 1 .. N : t[i] = x
  <2>1. PICK i \in 1 .. N : s[i] = x
    BY <1>1
  <2>2. (N - ((N - i) + 1)) + 1 = i /\ (N - i) + 1 \in 1 .. N
    BY <1>1
  <2>3. t[(N - i) + 1] = x
    BY <2>1, <2>2
  <2> QED
    BY <2>2, <2>3
<1>7. t = [i \in 1 .. N |-> t[i]] /\ DOMAIN t = 1 .. N
  OBVIOUS
<1> HIDE DEF t
<1>8. IsSequence(t) /\ Len(t) = N
  BY <1>1, <1>7, SequenceOf1
<1>9. Range(t) = S
  <2>1. \A x : x \in Range(t) <=> \E i \in 1 .. N : t[i] = x
    BY <1>7 DEF Range
  <2>2. \A x : (\E i \in 1 .. N : t[i] = x) => x \in S
    BY <1>5
  <2>3. \A x \in S : \E i \in 1 .. N : t[i] = x
    BY <1>6
  <2> QED
    BY <2>1, <2>2, <2>3
<1>10. Enumerates(t, N, S)
  BY <1>5, <1>6 DEF Enumerates
<1> QED
  BY <1>1, <1>3, <1>8, <1>9, <1>10 DEF s, N

LEMMA ProductSteps ==
    ASSUME NEW seqs, AreLists(seqs),
           DOMAIN seqs \in SUBSET Int, IsFiniteSet(DOMAIN seqs)
    PROVE  AreSteps(Product(seqs), seqs)
<1> DEFINE names == Reverse(Sorted(DOMAIN seqs))
           block == CHOOSE b : BlocksTo(b, seqs, names, Len(names))
<1>1. Product(seqs) = Combined(seqs, names, block)
  BY Zenon DEF Product, BlocksTo, Combined
<1>2. IsSequence(names) /\ Range(names) = DOMAIN seqs
  BY NamesOf, Zenon
<1> HIDE DEF names
<1>3. Len(names) \in Nat
  BY <1>2, SequenceShape, Zenon
<1>4. BlocksTo(block, seqs, names, Len(names))
  BY <1>3, BlocksExist, Zenon
<1> HIDE DEF block
<1> QED
  BY <1>1, <1>2, <1>4, CombinationSteps, Zenon

LEMMA ByPositionSteps ==
    ASSUME NEW seqs, AreLists(seqs), NEW n \in Nat
    PROVE  AreSteps(ByPosition(seqs, n), seqs)
<1> DEFINE value(i, v) == seqs[v][((i - 1) % Len(seqs[v])) + 1]
           P == [i \in 1 .. n |-> [v \in DOMAIN seqs |-> value(i, v)]]
<1>1. ByPosition(seqs, n) = P
  BY DEF ByPosition
<1>2. ASSUME NEW i \in 1 .. n, NEW v \in DOMAIN seqs PROVE value(i, v).kind \in Kinds
  <2>1. i - 1 \in Int /\ Len(seqs[v]) \in Nat \ {0}
    BY DEF AreLists
  <2>2. ((i - 1) % Len(seqs[v])) + 1 \in 1 .. Len(seqs[v])
    BY <2>1, Within
  <2> QED
    BY <2>2 DEF AreLists
<1>3. IsSequence(P)
  <2>1. P = [i \in 1 .. n |-> P[i]]
    OBVIOUS
  <2> HIDE DEF P
  <2> QED
    BY <2>1, SequenceOf1
<1>4. ASSUME NEW i \in DOMAIN P PROVE DOMAIN P[i] = DOMAIN seqs /\ AreArgs(P[i])
  <2>1. i \in 1 .. n /\ P[i] = [v \in DOMAIN seqs |-> value(i, v)]
    OBVIOUS
  <2> HIDE DEF P, value
  <2>2. \A v \in DOMAIN seqs : P[i][v].kind \in Kinds
    BY <1>2, <2>1
  <2> QED
    BY <2>1, <2>2 DEF AreArgs
<1> HIDE DEF P
<1> QED
  BY <1>1, <1>3, <1>4 DEF AreSteps

\* The longest of the lists.
LEMMA Longest ==
    ASSUME NEW seqs, AreLists(seqs), NEW names, IsSequence(names), Range(names) = DOMAIN seqs,
           DOMAIN seqs # {}
    PROVE  /\ Max(Lengths(seqs)) \in Nat
           /\ \E v \in DOMAIN seqs : Len(seqs[v]) = Max(Lengths(seqs))
           /\ \A v \in DOMAIN seqs : Len(seqs[v]) <= Max(Lengths(seqs))
<1> DEFINE N == Len(names)
           len(j) == Len(seqs[names[j]])
           G == {n \in Nat : n = 0 \/ \E m \in 1 .. n : \A k \in 1 .. n : len(k) <= len(m)}
<1>1. N \in Nat /\ DOMAIN names = 1 .. N
  BY SequenceShape
<1>2. \A j \in 1 .. N : names[j] \in DOMAIN seqs /\ len(j) \in Nat
  BY <1>1 DEF Range, AreLists
<1>3. 0 \in G
  OBVIOUS
<1>4. ASSUME NEW n \in 0 .. N - 1, n \in G PROVE n + 1 \in G
  <2> HIDE DEF len
  <2>1. CASE n = 0
    BY <1>1, <1>2, <2>1
  <2>2. CASE n # 0
    <3>1. PICK m \in 1 .. n : \A k \in 1 .. n : len(k) <= len(m)
      BY <1>4, <2>2
    <3>2. len(m) \in Nat /\ len(n + 1) \in Nat /\ \A k \in 1 .. n : len(k) \in Nat
      BY <1>1, <1>2
    <3>3. CASE len(n + 1) <= len(m)
      <4>1. n \in Nat /\ m \in 1 .. n + 1
        BY <1>1
      <4>2. \A k \in 1 .. n + 1 : k \in 1 .. n \/ k = n + 1
        BY <1>1
      <4>3. \A k \in 1 .. n + 1 : len(k) <= len(m)
        BY <3>1, <3>3, <4>2
      <4> QED
        BY <4>1, <4>3
    <3>4. CASE len(m) <= len(n + 1)
      <4>1. \A k \in 1 .. n + 1 : len(k) <= len(n + 1)
        BY <3>1, <3>2, <3>4
      <4> QED
        BY <4>1
    <3> QED
      BY <3>2, <3>3, <3>4
  <2> QED
    BY <2>1, <2>2
<1>5. N \in G
  <2> HIDE DEF G, len
  <2>1. \A n \in 0 .. N : n \in G
    BY <1>1, <1>3, <1>4, StepByStep
  <2> QED
    BY <1>1, <2>1
<1>6. N # 0
  BY <1>1 DEF Range
<1>7. PICK m \in 1 .. N : \A k \in 1 .. N : len(k) <= len(m)
  BY <1>5, <1>6
<1>8. /\ len(m) \in Lengths(seqs)
      /\ \A y \in Lengths(seqs) : len(m) >= y
      /\ \A y \in Lengths(seqs) : y \in Nat
  <2>1. \A y : y \in Lengths(seqs) <=> \E v \in DOMAIN seqs : y = Len(seqs[v])
    BY DEF Lengths
  <2>2. \A v \in DOMAIN seqs : \E j \in 1 .. N : Len(seqs[v]) = len(j)
    BY <1>1 DEF Range
  <2>3. names[m] \in DOMAIN seqs /\ len(m) = Len(seqs[names[m]])
    BY <1>2
  <2> HIDE DEF len
  <2>4. len(m) \in Lengths(seqs)
    BY <2>1, <2>3
  <2>5. \A y \in Lengths(seqs) : \E j \in 1 .. N : y = len(j)
    BY <2>1, <2>2
  <2>6. len(m) \in Nat /\ \A j \in 1 .. N : len(j) \in Nat /\ len(j) <= len(m)
    BY <1>2, <1>7 DEF len
  <2> QED
    BY <2>4, <2>5, <2>6
<1> HIDE DEF len
<1>9. /\ Max(Lengths(seqs)) \in Lengths(seqs)
      /\ \A y \in Lengths(seqs) : Max(Lengths(seqs)) >= y
  BY <1>8, Zenon DEF Max
<1>10. \A y : y \in Lengths(seqs) <=> \E v \in DOMAIN seqs : y = Len(seqs[v])
  BY DEF Lengths
<1>11. Max(Lengths(seqs)) \in Nat
  BY <1>8, <1>9
<1> DEFINE longest == Max(Lengths(seqs))
<1> HIDE DEF longest
<1>12. \A v \in DOMAIN seqs : Len(seqs[v]) \in Nat /\ longest >= Len(seqs[v])
  BY <1>9, <1>10 DEF AreLists, longest
<1>13. \A v \in DOMAIN seqs : Len(seqs[v]) <= longest
  BY <1>11, <1>12 DEF longest
<1> QED
  BY <1>9, <1>10, <1>11, <1>13 DEF longest

\* What a sweep does is in order, in each of the modes.
LEMMA IterateSteps ==
    ASSUME NEW seqs, AreLists(seqs), DOMAIN seqs # {}, NEW mode, NEW broadcast,
           DOMAIN seqs \in SUBSET Int, IsFiniteSet(DOMAIN seqs),
           Iterate(seqs, mode, broadcast).error = "none"
    PROVE  AreSteps(Iterate(seqs, mode, broadcast).steps, seqs)
<1> DEFINE names == Reverse(Sorted(DOMAIN seqs))
<1>1. IsSequence(names) /\ Range(names) = DOMAIN seqs
  BY NamesOf, Zenon
<1> HIDE DEF names
<1>2. Max(Lengths(seqs)) \in Nat
  BY <1>1, Longest, Zenon
<1>3. AreSteps(ByPosition(seqs, Max(Lengths(seqs))), seqs)
  BY <1>2, ByPositionSteps, Zenon
<1>4. AreSteps(Product(seqs), seqs)
  BY ProductSteps, Zenon
<1> QED
  BY <1>3, <1>4, Zenon DEF Iterate

-----------------------------------------------------------------------------
(* The classes that sweeps are made of                                     *)

\* What a variable of a sweep can be once the sweep was accepted.
IsRange(s) ==
    \/ s.form = "range" /\ s.steps \in Nat \ {0}
    \/ /\ s.form = "values" /\ IsSequence(s.of) /\ Len(s.of) \in Nat \ {0}
       /\ \A i \in DOMAIN s.of : s.of[i].kind \in Kinds
    \/ s.form = "from" /\ s.key \notin Entries

LEMMA RangeOfSpec ==
    ASSUME NEW s, IsSpec(s), SpecError(Converted(s)) = "none"
    PROVE  IsRange(Converted(s))
<1>1. CASE s.form = "list" /\ IsPair(s)
  <2> DEFINE r == [form |-> "range", lo |-> s.of[1].n, hi |-> s.of[2].n, steps |-> 10,
                   scale |-> "linear", endpoint |-> TRUE]
  <2>1. Converted(s) = r
    BY <1>1, Zenon DEF Converted
  <2>2. r.form = "range" /\ r.steps = 10
    OBVIOUS
  <2> HIDE DEF r
  <2> QED
    BY <2>1, <2>2 DEF IsRange
<1>2. CASE s.form = "list" /\ ~IsPair(s)
  <2>1. Converted(s) = [form |-> "values", of |-> s.of]
    BY <1>2, Zenon DEF Converted
  <2>2. s.of # <<>>
    BY <2>1 DEF SpecError
  <2>3. IsSequence(s.of) /\ \A i \in DOMAIN s.of : s.of[i].kind \in Kinds
    BY <1>2 DEF IsSpec
  <2>4. Len(s.of) \in Nat \ {0}
    BY <2>2, <2>3 DEF IsSequence
  <2> QED
    BY <2>1, <2>3, <2>4 DEF IsRange
<1>3. CASE s.form # "list"
  <2>1. Converted(s) = s
    BY <1>3, Zenon DEF Converted
  <2>2. s.form \in {"range", "values", "from"}
    BY <2>1 DEF SpecError
  <2>3. CASE s.form = "range"
    BY <2>1, <2>3 DEF SpecError, RangeError, IsSpec, IsRange
  <2>4. CASE s.form = "values"
    <3>1. IsSequence(s.of) /\ s.of # <<>> /\ \A i \in DOMAIN s.of : s.of[i].kind \in Kinds
      BY <2>1, <2>4 DEF SpecError, IsSpec
    <3>2. Len(s.of) \in Nat \ {0}
      BY <3>1 DEF IsSequence
    <3> QED
      BY <2>1, <2>4, <3>1, <3>2 DEF IsRange
  <2>5. CASE s.form = "from"
    BY <2>1, <2>5 DEF IsSpec, IsRange
  <2> QED
    BY <2>2, <2>3, <2>4, <2>5
<1> QED
  BY <1>1, <1>2, <1>3

\* The part of a class that is common to what a user writes and what the framework makes.
ClassOk(c) ==
    /\ c.cls \in {"operation", "probe", "source", "sink", "payloadSource", "context", "other"}
    /\ \A n \in DOMAIN c.params : c.params[n] = Required \/ IsValue(c.params[n])
    /\ DOMAIN c.params \in {c.names, {}} /\ c.names \intersect Entries = {}
    /\ c.cls \in {"probe", "sink"} => c.out = c.in
    /\ c.cls # "context" => c.out \in Types

\* The part of a swept class that its sweep needs.
SweepOk(c) ==
    LET d == c.does IN
    /\ d.kind = "sweep" /\ IsClass(d.element) /\ d.element.cls # "context"
    /\ c.cls \in {"source", "operation", "probe"}
    /\ d.element.created \subseteq c.created
    /\ \A v \in DOMAIN d.vars : IsRange(d.vars[v]) /\ ValuesKey(v) \in c.created
    /\ \A v \in Asked(d.vars) : d.vars[v].key \in c.names
    /\ DOMAIN d.vars # {}
    /\ DOMAIN d.vars \in SUBSET Int /\ IsFiniteSet(DOMAIN d.vars)
    /\ d.free \subseteq c.names /\ d.free \intersect DOMAIN d.exprs = {}
    /\ \A p \in DOMAIN d.exprs : d.exprs[p] \in DOMAIN d.vars

LEMMA UserClass ==
    ASSUME NEW c, IsClass(c)
    PROVE  ClassOk(c) /\ c.does.kind # "sweep"
BY DEF IsClass, ClassOk, IsWork

\* What was not refused.
LEMMA SweepAccepted ==
    ASSUME NEW el, NEW s, SweepError(el, s) = "none"
    PROVE  /\ DOMAIN s.vars # {}
           /\ \A v \in DOMAIN s.vars : SpecError(Converted(s.vars[v])) = "none"
           /\ el.cls \in {"source", "operation", "probe"}
           /\ s.collection \in {"none", "Items"} /\ (el.cls = "probe" <=> s.collection = "none")
           /\ \A p \in DOMAIN s.exprs : s.exprs[p] \in DOMAIN s.vars
           /\ DOMAIN s.exprs \subseteq DOMAIN el.params
<1> DEFINE vs == [v \in DOMAIN s.vars |-> Converted(s.vars[v])]
           bad == {v \in DOMAIN vs : SpecError(vs[v]) # "none"}
<1>1. bad = {}
  <2> SUFFICES ASSUME bad # {} PROVE FALSE
    OBVIOUS
  <2> DEFINE v == CHOOSE v \in bad : TRUE
  <2>1. SpecError(vs[v]) # "none"
    BY Zenon
  <2>2. SweepError(el, s) = "value" \/ SweepError(el, s) = SpecError(vs[v])
    BY Zenon DEF SweepError
  <2> QED
    BY <2>1, <2>2
<1>2. \A v \in DOMAIN s.vars : SpecError(Converted(s.vars[v])) = "none"
  BY <1>1
<1> QED
  BY <1>1, <1>2 DEF SweepError

LEMMA SweptClass ==
    ASSUME NEW el, NEW s, IsClass(el), IsSweep(s), SweepError(el, s) = "none"
    PROVE  LET c == SweepClass(el, s) IN
           ClassOk(c) /\ SweepOk(c) /\ c.cls = el.cls /\ c.names = DOMAIN c.params
<1> DEFINE c == SweepClass(el, s)
           vs == [v \in DOMAIN s.vars |-> Converted(s.vars[v])]
           asks == {vs[v].key : v \in Asked(vs)}
           free == Restrict(el.params, DOMAIN el.params \ DOMAIN s.exprs)
           params == Over(free, [k \in asks |-> Required])
           values == {ValuesKey(v) : v \in DOMAIN vs}
<1>1. /\ c.cls = el.cls /\ c.in = el.in
      /\ c.out = IF el.cls = "probe" THEN el.out ELSE s.collection
      /\ c.params = params /\ c.names = DOMAIN params
      /\ c.created = values \union (IF el.cls = "source" THEN {} ELSE el.created)
      /\ c.does = [kind |-> "sweep", element |-> el, vars |-> vs, exprs |-> s.exprs,
                   mode |-> s.mode, broadcast |-> s.broadcast, free |-> DOMAIN free]
  BY DEF SweepClass, IsClass
<1> DEFINE d == c.does
<1>2. d.kind = "sweep" /\ d.element = el /\ d.vars = vs /\ d.exprs = s.exprs /\ d.free = DOMAIN free
  BY <1>1
<1> HIDE DEF d, c
<1>3. DOMAIN free = DOMAIN el.params \ DOMAIN s.exprs /\ \A n \in DOMAIN free : free[n] = el.params[n]
  BY DEF Restrict
<1> HIDE DEF free
<1>4. /\ DOMAIN params = DOMAIN free \union asks
      /\ \A n \in DOMAIN params : params[n] = IF n \in DOMAIN free THEN free[n] ELSE Required
  BY DEF Over
<1> HIDE DEF params
<1>5. ClassOk(c)
  <2>1. \A n \in DOMAIN c.params : c.params[n] = Required \/ IsValue(c.params[n])
    BY <1>1, <1>3, <1>4 DEF IsClass
  <2>2. c.names \intersect Entries = {}
    <3>1. \A v \in Asked(vs) : vs[v].key \notin Entries
      <4> SUFFICES ASSUME NEW v \in DOMAIN s.vars, Converted(s.vars[v]).form = "from"
                   PROVE  Converted(s.vars[v]).key \notin Entries
        BY DEF Asked
      <4>1. IsRange(Converted(s.vars[v]))
        BY SweepAccepted, RangeOfSpec DEF IsSweep
      <4> QED
        BY <4>1 DEF IsRange
    <3>2. DOMAIN el.params \intersect Entries = {}
      BY DEF IsClass
    <3> QED
      BY <1>1, <1>3, <1>4, <3>1, <3>2
  <2>3. c.cls \in {"source", "operation", "probe"} /\ c.out \in Types /\ (c.cls = "probe" => c.out = c.in)
    BY <1>1, SweepAccepted DEF IsClass, Types
  <2> QED
    BY <1>1, <2>1, <2>2, <2>3 DEF ClassOk
<1>6. SweepOk(c)
  <2>1. /\ el.cls # "context" /\ el.created \subseteq c.created
        /\ c.cls \in {"source", "operation", "probe"}
    BY <1>1, SweepAccepted DEF IsClass
  <2>2. DOMAIN vs = DOMAIN s.vars /\ DOMAIN vs # {} /\ \A v \in DOMAIN vs : vs[v] = Converted(s.vars[v])
    BY SweepAccepted
  <2>3. ASSUME NEW v \in DOMAIN vs PROVE IsRange(vs[v]) /\ ValuesKey(v) \in c.created
    <3>1. IsRange(Converted(s.vars[v]))
      BY <2>2, SweepAccepted, RangeOfSpec DEF IsSweep
    <3>2. ValuesKey(v) \in c.created
      BY <1>1
    <3> QED
      BY <2>2, <3>1, <3>2
  <2>4. \A v \in Asked(vs) : vs[v].key \in c.names
    BY <1>1, <1>4
  <2>5. /\ d.free \subseteq c.names /\ d.free \intersect DOMAIN d.exprs = {}
        /\ \A p \in DOMAIN s.exprs : s.exprs[p] \in DOMAIN vs
    BY <1>1, <1>2, <1>3, <1>4, <2>2, SweepAccepted
  <2> HIDE DEF vs
  <2>6. DOMAIN vs \in SUBSET Int /\ IsFiniteSet(DOMAIN vs)
    BY <2>2, Zenon DEF IsSweep
  <2>7. DOMAIN vs # {} /\ IsClass(el)
    BY <2>2
  <2> QED
    BY <1>2, <2>1, <2>3, <2>4, <2>5, <2>6, <2>7, Zenon DEF SweepOk, d
<1> QED
  BY <1>1, <1>5, <1>6 DEF c

-----------------------------------------------------------------------------
(* What the code of a class does with a call                               *)

LEMMA MaterializeLists ==
    ASSUME NEW vs, \A v \in DOMAIN vs : IsRange(vs[v]),
           NEW args, IsMapping(args), \A v \in Asked(vs) : vs[v].key \in DOMAIN args,
           MaterializeError(vs, args) = "none"
    PROVE  DOMAIN Materialize(vs, args) = DOMAIN vs /\ AreLists(Materialize(vs, args))
<1> DEFINE seqs == Materialize(vs, args)
<1>1. DOMAIN seqs = DOMAIN vs /\ \A v \in DOMAIN vs : seqs[v] = SequenceOf(vs[v], args)
  BY DEF Materialize
<1> HIDE DEF seqs
<1>2. ASSUME NEW v \in DOMAIN vs
      PROVE  /\ IsSequence(seqs[v]) /\ Len(seqs[v]) \in Nat \ {0}
             /\ \A i \in 1 .. Len(seqs[v]) : seqs[v][i].kind \in Kinds
  <2> DEFINE s == vs[v]
  <2>1. IsRange(s) /\ seqs[v] = SequenceOf(s, args)
    BY <1>1
  <2> HIDE DEF s
  <2>2. CASE s.form = "range" /\ s.steps \in Nat \ {0}
    <3> DEFINE gaps == IF s.endpoint THEN Max({s.steps - 1, 1}) ELSE s.steps
               P == [i \in 1 .. s.steps |-> Scalar(s.lo + ((i - 1) * (s.hi - s.lo)) \div gaps)]
    <3>1. seqs[v] = P
      BY <2>1, <2>2, Zenon DEF SequenceOf, Points
    <3>2. P = [i \in 1 .. s.steps |-> P[i]]
      OBVIOUS
    <3>3. \A i \in 1 .. s.steps : P[i].kind \in Kinds
      BY DEF Scalar, Kinds
    <3> HIDE DEF P
    <3>4. IsSequence(P) /\ Len(P) = s.steps
      BY <2>2, <3>2, SequenceOf1
    <3> QED
      BY <2>2, <3>1, <3>3, <3>4
  <2>3. CASE s.form = "values"
    <3>1. seqs[v] = s.of
      BY <2>1, <2>3 DEF SequenceOf
    <3>2. /\ IsSequence(s.of) /\ Len(s.of) \in Nat \ {0}
          /\ \A i \in DOMAIN s.of : s.of[i].kind \in Kinds
      BY <2>1, <2>3 DEF IsRange
    <3> QED
      BY <3>1, <3>2, SequenceShape
  <2>4. CASE s.form = "from"
    <3>1. v \in Asked(vs) /\ s.key \in DOMAIN args /\ seqs[v] = args[s.key].of
      BY <2>1, <2>4 DEF SequenceOf, Asked, s
    <3>2. IsValue(args[s.key])
      BY <3>1 DEF IsMapping
    <3>3. args[s.key].of # <<>>
      BY <3>1 DEF MaterializeError, s
    <3>4. /\ IsSequence(args[s.key].of)
          /\ \A i \in DOMAIN args[s.key].of : args[s.key].of[i].kind \in Kinds
      BY <3>2 DEF IsValue
    <3>5. Len(args[s.key].of) \in Nat \ {0} /\ DOMAIN args[s.key].of = 1 .. Len(args[s.key].of)
      BY <3>3, <3>4 DEF IsSequence
    <3> QED
      BY <3>1, <3>4, <3>5
  <2> QED
    BY <2>1, <2>2, <2>3, <2>4 DEF IsRange
<1> QED
  BY <1>1, <1>2 DEF AreLists, seqs

\* A sequence of steps, each of which keeps to the keys of C and S.
StepsOk(steps, C, S) ==
    IsSequence(steps) /\ \A n \in DOMAIN steps : StepOk(steps[n], C, S)

LEMMA PerformOk ==
    ASSUME NEW steps, NEW c, IsContext(c), NEW C, NEW S, StepsOk(steps, C, S)
    PROVE  SoFar(Perform(steps, c), c, C, S)
<1>1. Len(steps) \in Nat /\ \A n \in 1 .. Len(steps) : StepOk(steps[n], C, S)
  BY SequenceShape DEF StepsOk
<1> QED
  BY <1>1, PerformKeeps

\* Of blocks of equal width, the one that an index falls in.
LEMMA BlockOf ==
    ASSUME NEW L \in Nat, NEW w \in Nat \ {0}, NEW n \in 1 .. L * w
    PROVE  ((n - 1) \div w) + 1 \in 1 .. L /\ (n - 1) % w \in 0 .. w - 1
<1> DEFINE q == (n - 1) \div w
           r == (n - 1) % w
<1>1. L * w \in Nat
  OBVIOUS
<1>2. n - 1 \in Nat /\ n - 1 < L * w
  BY <1>1
<1>3. q \in Int /\ r \in 0 .. w - 1 /\ n - 1 = w * q + r
  BY <1>2
<1> HIDE DEF q, r
<1>4. q >= 0
  <2> SUFFICES ASSUME q <= -1 PROVE FALSE
    BY <1>3
  <2>1. w * q <= w * (-1)
    BY <1>3
  <2> QED
    BY <1>2, <1>3, <2>1
<1>5. q < L
  <2> SUFFICES ASSUME L <= q PROVE FALSE
    BY <1>3
  <2>1. L * w <= w * q
    BY <1>3
  <2> QED
    BY <1>2, <1>3, <2>1
<1> QED
  BY <1>3, <1>4, <1>5 DEF q, r

LEMMA CallsOk ==
    ASSUME NEW c, IsClass(c), c.does.kind = "code", NEW argss, IsSequence(argss),
           \A i \in DOMAIN argss : AreArgs(argss[i]), NEW C, c.created \subseteq C
    PROVE  /\ StepsOk(Calls(c, argss), C, {})
           /\ Len(Calls(c, argss)) = Len(argss) * (Len(c.does.writes) + 1)
<1> DEFINE W == Len(c.does.writes)
           width == W + 1
           L == Len(argss)
           j(n) == (n - 1) % width
           P == [n \in 1 .. L * width |->
                    IF j(n) = 0 THEN Calling(argss[((n - 1) \div width) + 1])
                    ELSE Write(c, c.does.writes[j(n)])]
<1>1. Calls(c, argss) = P
  BY DEF Calls
<1>2. /\ IsSequence(c.does.writes)
      /\ \A i \in DOMAIN c.does.writes : IsValue(c.does.writes[i][2])
  BY DEF IsClass, IsWork
<1>3. /\ W \in Nat /\ DOMAIN c.does.writes = 1 .. W
      /\ L \in Nat /\ DOMAIN argss = 1 .. L
  BY <1>2, SequenceShape
<1>4. L * width \in Nat
  BY <1>3
<1>5. IsSequence(P) /\ Len(P) = L * width
  <2>1. P = [n \in 1 .. L * width |-> P[n]]
    OBVIOUS
  <2> HIDE DEF P, width
  <2> QED
    BY <1>4, <2>1, SequenceOf1
<1>6. ASSUME NEW n \in 1 .. L * width PROVE StepOk(P[n], C, {})
  <2> DEFINE i == ((n - 1) \div width) + 1
             k == (n - 1) % width
  <2>1. P[n] = IF k = 0 THEN Calling(argss[i]) ELSE Write(c, c.does.writes[k])
    OBVIOUS
  <2>2. i \in 1 .. L /\ k \in 0 .. W
    <3>1. width \in Nat \ {0} /\ width - 1 = W
      BY <1>3
    <3> HIDE DEF width
    <3>2. i \in 1 .. L /\ k \in 0 .. width - 1
      BY <1>3, <3>1, BlockOf
    <3> HIDE DEF i, k
    <3> QED
      BY <3>1, <3>2
  <2> HIDE DEF P, i, k
  <2>3. CASE k = 0
    <3>1. P[n] = Calling(argss[i]) /\ AreArgs(argss[i])
      BY <1>3, <2>1, <2>2, <2>3
    <3> QED
      BY <3>1 DEF Calling, StepOk, AreArgs
  <2>4. CASE k # 0
    <3>1. P[n] = Write(c, c.does.writes[k]) /\ IsValue(c.does.writes[k][2])
      BY <1>2, <1>3, <2>1, <2>2, <2>4
    <3> QED
      BY <3>1 DEF Write, Updating, StepOk
  <2> QED
    BY <2>3, <2>4
<1>7. DOMAIN P = 1 .. L * width
  OBVIOUS
<1> HIDE DEF P
<1> QED
  BY <1>1, <1>5, <1>6, <1>7 DEF StepsOk

\* The values of the variables are published under keys that the class declares.
PublishedAs(seqs, names) ==
    [j \in DOMAIN names |-> Setting(ValuesKey(names[j]), List(seqs[names[j]]))]

LEMMA PublishedOk ==
    ASSUME NEW seqs, AreLists(seqs), NEW names, IsSequence(names), Range(names) = DOMAIN seqs,
           NEW C, \A v \in DOMAIN seqs : ValuesKey(v) \in C
    PROVE  StepsOk(PublishedAs(seqs, names), C, {})
<1> DEFINE P == PublishedAs(seqs, names)
<1>1. Len(names) \in Nat /\ DOMAIN names = 1 .. Len(names)
  BY SequenceShape
<1>2. DOMAIN P = DOMAIN names /\ P = [j \in DOMAIN names |-> P[j]]
  BY DEF PublishedAs
<1>3. ASSUME NEW j \in DOMAIN names PROVE StepOk(P[j], C, {})
  <2> DEFINE v == names[j]
  <2>1. v \in DOMAIN seqs /\ P[j] = Setting(ValuesKey(v), List(seqs[v]))
    BY DEF PublishedAs, Range
  <2> HIDE DEF v, P
  <2>2. /\ IsSequence(seqs[v]) /\ Len(seqs[v]) \in Nat
        /\ \A i \in 1 .. Len(seqs[v]) : seqs[v][i].kind \in Kinds
    BY <2>1 DEF AreLists
  <2>3. DOMAIN seqs[v] = 1 .. Len(seqs[v])
    BY <2>2, SequenceShape
  <2>4. IsValue(List(seqs[v]))
    BY <2>2, <2>3 DEF IsValue, List, Kinds
  <2>5. ValuesKey(v) \in C
    BY <2>1
  <2> QED
    BY <2>1, <2>4, <2>5 DEF Setting, StepOk
<1> HIDE DEF P
<1>4. IsSequence(P)
  BY <1>1, <1>2, SequenceOf1
<1> QED
  BY <1>2, <1>3, <1>4 DEF StepsOk, P

LEMMA PublishOk ==
    ASSUME NEW seqs, AreLists(seqs),
           DOMAIN seqs \in SUBSET Int, IsFiniteSet(DOMAIN seqs),
           NEW C, \A v \in DOMAIN seqs : ValuesKey(v) \in C
    PROVE  StepsOk(Publish(seqs), C, {})
<1> DEFINE names == Reverse(Sorted(DOMAIN seqs))
<1>1. Publish(seqs) = PublishedAs(seqs, names)
  BY Zenon DEF Publish, PublishedAs
<1>2. IsSequence(names) /\ Range(names) = DOMAIN seqs
  BY NamesOf, Zenon
<1> HIDE DEF names
<1> QED
  BY <1>1, <1>2, PublishedOk, Zenon

LEMMA ValuesAreArgs ==
    ASSUME NEW args, IsMapping(args)
    PROVE  AreArgs(args)
BY DEF IsMapping, IsValue, AreArgs

LEMMA JoinedOk ==
    ASSUME NEW s, NEW t, NEW C, NEW S, StepsOk(s, C, S), StepsOk(t, C, S)
    PROVE  StepsOk(s \o t, C, S)
<1>1. /\ Len(s \o t) \in Nat
      /\ \A n \in 1 .. Len(s \o t) :
           \/ \E i \in DOMAIN s : (s \o t)[n] = s[i]
           \/ \E i \in DOMAIN t : (s \o t)[n] = t[i]
  BY Joined DEF StepsOk
<1>2. IsSequence(s \o t) /\ DOMAIN (s \o t) = 1 .. Len(s \o t)
  <2> DEFINE R == Range(s) \union Range(t)
  <2>1. s \in Seq(R) /\ t \in Seq(R)
    BY DEF StepsOk, IsSequence
  <2> HIDE DEF R
  <2>2. s \o t \in Seq(R)
    BY <2>1
  <2> DEFINE u == s \o t
  <2>3. u \in Seq(R)
    BY <2>2
  <2> HIDE DEF u
  <2>4. DOMAIN u = 1 .. Len(u) /\ Len(u) \in Nat /\ u = [i \in 1 .. Len(u) |-> u[i]]
    BY <2>3
  <2>5. IsSequence(u)
    BY <2>4, SequenceOf1
  <2> QED
    BY <2>4, <2>5 DEF u
<1> QED
  BY <1>1, <1>2 DEF StepsOk

LEMMA NoSteps ==
    ASSUME NEW C, NEW S
    PROVE  StepsOk(<<>>, C, S)
BY DEF StepsOk, IsSequence

LEMMA OneStep ==
    ASSUME NEW s, NEW C, NEW S, StepOk(s, C, S)
    PROVE  StepsOk(<<s>>, C, S)
<1>1. IsSequence(<<s>>)
  BY DEF IsSequence, Range
<1> QED
  BY <1>1 DEF StepsOk

\* A class that is not of a context processor, as a node has it.
IsWorker(c) == ClassOk(c) /\ c.cls # "context" /\ (IsClass(c) \/ SweepOk(c))

LEMMA RunSweepOk ==
    ASSUME NEW c, SweepOk(c), NEW args, IsMapping(args), DOMAIN args = c.names,
           NEW C, c.created \subseteq C
    PROVE  StepsOk(RunSweep(c, args), C, {})
<1> DEFINE d    == c.does
           bad  == MaterializeError(d.vars, args)
           seqs == Materialize(d.vars, args)
           iter == Iterate(seqs, d.mode, d.broadcast)
           argss == [i \in DOMAIN iter.steps |-> SweepArgs(d, args, iter.steps[i])]
<1>1. CASE bad # "none"
  <2>1. RunSweep(c, args) = <<Failing(bad)>>
    BY <1>1, Zenon DEF RunSweep
  <2>2. bad \in {"type", "value"}
    BY <1>1 DEF MaterializeError
  <2> HIDE DEF bad
  <2>3. StepOk(Failing(bad), C, {})
    BY <2>2 DEF StepOk, Failing
  <2> QED
    BY <2>1, <2>3, OneStep
<1>2. CASE bad = "none" /\ iter.error # "none"
  <2>1. RunSweep(c, args) = <<Failing(iter.error)>>
    BY <1>2, Zenon DEF RunSweep
  <2>2. iter.error = "value"
    BY <1>2, Zenon DEF Iterate
  <2> HIDE DEF iter
  <2>3. StepOk(Failing(iter.error), C, {})
    BY <2>2 DEF StepOk, Failing
  <2> QED
    BY <2>1, <2>3, OneStep
<1>3. CASE bad = "none" /\ iter.error = "none"
  <2>1. RunSweep(c, args) = Calls(d.element, argss) \o (IF c.cls = "probe" THEN <<>> ELSE Publish(seqs))
    BY <1>3, Zenon DEF RunSweep
  <2>2. /\ IsClass(d.element) /\ d.element.does.kind = "code" /\ d.element.created \subseteq C
        /\ \A v \in DOMAIN d.vars : IsRange(d.vars[v]) /\ ValuesKey(v) \in C
        /\ \A v \in Asked(d.vars) : d.vars[v].key \in DOMAIN args
        /\ DOMAIN d.vars # {}
        /\ d.free \subseteq DOMAIN args
        /\ \A p \in DOMAIN d.exprs : d.exprs[p] \in DOMAIN d.vars
    BY DEF SweepOk, IsClass
  <2>3. DOMAIN d.vars \in SUBSET Int /\ IsFiniteSet(DOMAIN d.vars)
    BY Zenon DEF SweepOk
  <2> HIDE DEF d
  <2>4. DOMAIN seqs = DOMAIN d.vars /\ AreLists(seqs)
    BY <1>3, <2>2, MaterializeLists, Zenon
  <2> HIDE DEF seqs
  <2>5. AreSteps(iter.steps, seqs)
    BY <1>3, <2>2, <2>3, <2>4, IterateSteps, Zenon
  <2>6. StepsOk(Publish(seqs), C, {})
    BY <2>2, <2>3, <2>4, PublishOk, Zenon
  <2> HIDE DEF iter
  <2>7. IsSequence(argss) /\ DOMAIN argss = DOMAIN iter.steps
    <3>1. Len(iter.steps) \in Nat /\ DOMAIN iter.steps = 1 .. Len(iter.steps)
      BY <2>5, SequenceShape DEF AreSteps
    <3>2. DOMAIN argss = DOMAIN iter.steps /\ argss = [i \in DOMAIN iter.steps |-> argss[i]]
      OBVIOUS
    <3> HIDE DEF argss
    <3> QED
      BY <3>1, <3>2, SequenceOf1
  <2>8. ASSUME NEW i \in DOMAIN argss PROVE AreArgs(argss[i])
    <3> DEFINE bound == [p \in DOMAIN d.exprs |-> iter.steps[i][d.exprs[p]]]
               rest == Restrict(args, d.free)
    <3>1. argss[i] = Over(bound, rest)
      BY DEF SweepArgs
    <3>2. AreArgs(bound)
      <4>1. DOMAIN iter.steps[i] = DOMAIN d.vars /\ AreArgs(iter.steps[i])
        BY <2>4, <2>5 DEF AreSteps
      <4> QED
        BY <2>2, <4>1 DEF AreArgs
    <3>3. AreArgs(rest)
      BY <2>2, ValuesAreArgs DEF AreArgs, Restrict
    <3> HIDE DEF bound, rest
    <3> QED
      BY <3>1, <3>2, <3>3 DEF Over, AreArgs
  <2> HIDE DEF argss
  <2>9. StepsOk(Calls(d.element, argss), C, {})
    BY <2>2, <2>7, <2>8, CallsOk
  <2> QED
    BY <2>1, <2>6, <2>9, JoinedOk, NoSteps
<1> QED
  BY <1>1, <1>2, <1>3

\* Whatever the code of a class does, it keeps to the keys that the class declares.
LEMMA RunOk ==
    ASSUME NEW c, IsWorker(c), NEW args, IsMapping(args), DOMAIN args = c.names,
           NEW size \in Nat, NEW C, c.created \subseteq C
    PROVE  StepsOk(Run(c, args, size), C, {})
<1>1. CASE IsClass(c)
  <2> DEFINE n == IF c.sliced THEN size ELSE 1
             argss == [i \in 1 .. n |-> args]
  <2>1. c.does.kind = "code" /\ Run(c, args, size) = Calls(c, argss)
    BY <1>1 DEF IsWorker, IsClass, Run
  <2>2. n \in Nat /\ argss = [i \in 1 .. n |-> argss[i]] /\ DOMAIN argss = 1 .. n
    OBVIOUS
  <2>3. \A i \in 1 .. n : AreArgs(argss[i])
    BY ValuesAreArgs
  <2> HIDE DEF n, argss
  <2>4. IsSequence(argss)
    BY <2>2, SequenceOf1
  <2> QED
    BY <1>1, <2>1, <2>2, <2>3, <2>4, CallsOk
<1>2. CASE SweepOk(c)
  <2>1. Run(c, args, size) = RunSweep(c, args)
    BY <1>2 DEF SweepOk, Run
  <2> QED
    BY <1>2, <2>1, RunSweepOk
<1> QED
  BY <1>1, <1>2 DEF IsWorker

-----------------------------------------------------------------------------
(* Nodes and the parameters that they find                                 *)

NodeKinds == {"operation", "probe", "source", "sink", "payloadSource", "context", "contextData", "injector"}

\* A node that the factory made.
NodeOk(node) ==
    /\ node.error = "none" /\ node.kind \in NodeKinds
    /\ IsMapping(node.config) /\ ClassOk(node.class)
    /\ node.kind \notin {"injector", "contextData"} => node.class.cls = node.kind
    /\ node.kind # "context" => IsWorker(node.class)
    /\ node.kind \in {"context", "payloadSource", "injector", "contextData"} =>
         IsClass(node.class)

LEMMA InitialisedNode ==
    ASSUME NEW kind, NEW class, NEW nd, Initialised(kind, class, nd).error = "none"
    PROVE  /\ Initialised(kind, class, nd) = Node(kind, class, nd)
           /\ ConfigError(class, nd.params) = "none"
BY DEF Initialised, NoNode

LEMMA NodeOf ==
    ASSUME NEW nd, IsDefinition(nd), Factory(nd).error = "none"
    PROVE  /\ NodeOk(Factory(nd))
           /\ nd.via = "config" => Factory(nd).kind \notin {"injector", "contextData"}
<1>1. CASE nd.via = "config"
  <2> DEFINE swept == nd.derive # NoSweep
             class == IF swept THEN SweepClass(nd.class, nd.derive) ELSE nd.class
  <2>1. /\ Factory(nd) = Initialised(class.cls, class, nd)
        /\ nd.class.cls # "unresolved" /\ class.cls # "other"
        /\ swept => SweepError(nd.class, nd.derive) = "none"
    <3>1. Factory(nd) = FromConfig(nd)
      BY <1>1 DEF Factory
    <3> HIDE DEF class
    <3>2. /\ FromConfig(nd) = Initialised(class.cls, class, nd)
          /\ nd.class.cls # "unresolved" /\ class.cls # "other"
          /\ swept => SweepError(nd.class, nd.derive) = "none"
      <4>1. FromConfig(nd).error = "none"
        BY <3>1
      <4> QED
        BY <4>1 DEF FromConfig, NoNode, class
    <3> QED
      BY <3>1, <3>2
  <2>2. Factory(nd) = Node(class.cls, class, nd)
    <3> HIDE DEF class
    <3> QED
      BY <2>1, InitialisedNode
  <2>3. IsClass(nd.class)
    BY <2>1 DEF IsDefinition, Unresolved
  <2>4. ClassOk(class) /\ (class.cls # "context" => IsWorker(class))
        /\ (class.cls \in {"context", "payloadSource"} => IsClass(class))
    <3>1. CASE ~swept
      BY <2>3, <3>1, UserClass DEF IsWorker
    <3>2. CASE swept
      <4>1. IsSweep(nd.derive)
        BY <3>2 DEF IsDefinition
      <4>2. ClassOk(class) /\ SweepOk(class) /\ class.cls = nd.class.cls
        BY <2>1, <2>3, <3>2, <4>1, SweptClass
      <4>3. class.cls \in {"source", "operation", "probe"}
        BY <2>1, <3>2, <4>2, SweepAccepted
      <4> HIDE DEF class
      <4> QED
        BY <4>2, <4>3 DEF IsWorker
    <3> QED
      BY <3>1, <3>2
  <2> HIDE DEF class
  <2>5. class.cls \in {"operation", "probe", "source", "sink", "payloadSource", "context"}
    BY <2>1, <2>4 DEF ClassOk
  <2>6. IsMapping(nd.params)
    BY DEF IsDefinition
  <2> QED
    BY <1>1, <2>2, <2>4, <2>5, <2>6 DEF NodeOk, Node, NodeKinds
<1>2. CASE nd.via = "injector"
  <2>1. Factory(nd) = Initialised("injector", nd.class, nd) /\ nd.class.cls = "operation"
    BY <1>2 DEF Factory, NoNode
  <2>2. Factory(nd) = Node("injector", nd.class, nd)
    BY <2>1, InitialisedNode
  <2>3. IsClass(nd.class) /\ IsMapping(nd.params)
    BY <2>1 DEF IsDefinition, Unresolved
  <2> QED
    BY <1>2, <2>1, <2>2, <2>3, UserClass DEF NodeOk, Node, NodeKinds, IsWorker
<1>3. CASE nd.via = "contextData"
  <2>1. Factory(nd) = Node("contextData", nd.class, nd) /\ nd.class.cls \in {"operation", "probe"}
    BY <1>3 DEF Factory, NoNode
  <2>2. IsClass(nd.class) /\ IsMapping(nd.params)
    BY <2>1 DEF IsDefinition, Unresolved
  <2> QED
    BY <1>3, <2>1, <2>2, UserClass DEF NodeOk, Node, NodeKinds, IsWorker
<1> QED
  BY <1>1, <1>2, <1>3 DEF IsDefinition

LEMMA ReadsAreValues ==
    ASSUME NEW c, IsContext(c), NEW k
    PROVE  GetValue(c, k).error \in {"none", "value"} /\ IsValue(GetValue(c, k).value)
<1> DEFINE own == [i \in DOMAIN c.items |-> At(c.items[i], k)]
<1>1. IsValue(None)
  BY DEF IsValue, None, Kinds, IsSequence
<1>2. \A i \in DOMAIN c.items : IsValue(At(c.items[i], k))
  BY <1>1 DEF At, IsContext, IsMapping
<1>3. IsSequence(own)
  <2>1. DOMAIN own = DOMAIN c.items /\ own = [i \in DOMAIN own |-> own[i]]
    OBVIOUS
  <2> HIDE DEF own
  <2> QED
    BY <2>1, ItemsMapped
<1>4. \A i \in DOMAIN own : own[i].kind \in Kinds
  BY <1>2 DEF IsValue
<1>5. IsValue(List(own))
  <2> HIDE DEF own
  <2> QED
    BY <1>3, <1>4 DEF List, IsValue, Kinds
<1>6. k \in DOMAIN c.global => IsValue(c.global[k])
  BY DEF IsContext, IsMapping
<1>7. \/ GetValue(c, k) = NoValue("value")
      \/ k \in DOMAIN c.global /\ GetValue(c, k) = Value(c.global[k])
      \/ GetValue(c, k) = Value(List(own)) \/ GetValue(c, k) = Value(None)
  BY DEF GetValue
<1> HIDE DEF own
<1> QED
  BY <1>1, <1>5, <1>6, <1>7 DEF Value, NoValue

LEMMA ResolveOk ==
    ASSUME NEW c, ClassOk(c), NEW config, IsMapping(config), NEW cx, IsContext(cx), NEW name
    PROVE  LET r == Resolve(name, c, config, cx) IN
           /\ r.error \in {"none", "value", "missing"} /\ IsValue(r.value)
           /\ r.error = "missing" => /\ name \notin DOMAIN config /\ ~HasDefault(c, name)
                                     /\ name \notin Keys(cx)
<1>1. IsValue(None)
  BY DEF IsValue, None, Kinds, IsSequence
<1>2. CASE name \in DOMAIN config
  BY <1>2 DEF Resolve, Value, IsMapping
<1>3. CASE name \notin DOMAIN config /\ KeysError(cx) # "none"
  BY <1>1, <1>3 DEF Resolve, NoValue, KeysError
<1>4. CASE name \notin DOMAIN config /\ KeysError(cx) = "none" /\ name \in Keys(cx)
  BY <1>4, ReadsAreValues DEF Resolve
<1>5. CASE name \notin DOMAIN config /\ KeysError(cx) = "none" /\ name \notin Keys(cx)
  <2>1. CASE HasDefault(c, name)
    BY <1>5, <2>1 DEF Resolve, Value, HasDefault, ClassOk
  <2>2. CASE ~HasDefault(c, name)
    BY <1>1, <1>5, <2>2 DEF Resolve, NoValue
  <2> QED
    BY <2>1, <2>2
<1> QED
  BY <1>2, <1>3, <1>4, <1>5

\* A call has a value for every name that the class asks for, or the node is refused.
LEMMA ParametersOk ==
    ASSUME NEW c, ClassOk(c), NEW config, IsMapping(config), NEW cx, IsContext(cx)
    PROVE  LET p == Parameters(c, config, cx) IN
           /\ p.error \in {"none", "value", "missing"}
           /\ p.error = "none" => /\ DOMAIN p.args = c.names /\ p.missing = {}
           /\ IsMapping(p.args)
           /\ \A n \in DOMAIN p.args : p.args[n] = Resolve(n, c, config, cx).value
           /\ \A n \in p.missing : n \in c.names /\ Resolve(n, c, config, cx).error = "missing"
           /\ \A n \in c.names : Resolve(n, c, config, cx).error = "none" => n \in DOMAIN p.args
<1> DEFINE found == [name \in c.names |-> Resolve(name, c, config, cx)]
           failing == {name \in c.names : found[name].error # "none"}
           p == Parameters(c, config, cx)
<1>1. /\ p.missing = {name \in failing : found[name].error = "missing"}
      /\ p.args = [name \in c.names \ failing |-> found[name].value]
      /\ p.error = IF failing = {} THEN "none" ELSE found[CHOOSE name \in failing : TRUE].error
  BY DEF Parameters
<1>2. \A name \in c.names : /\ found[name] = Resolve(name, c, config, cx)
                            /\ found[name].error \in {"none", "value", "missing"}
                            /\ IsValue(found[name].value)
  BY ResolveOk
<1>3. \A n : n \in failing <=> n \in c.names /\ found[n].error # "none"
  OBVIOUS
<1> HIDE DEF p, found, failing
<1>4. p.error \in {"none", "value", "missing"} /\ (p.error = "none" => failing = {})
  <2>1. CASE failing = {}
    BY <1>1, <2>1
  <2>2. CASE failing # {}
    <3>1. (CHOOSE name \in failing : TRUE) \in failing
      BY <2>2, Zenon
    <3> QED
      BY <1>1, <1>2, <1>3, <2>2, <3>1
  <2> QED
    BY <2>1, <2>2
<1>5. IsMapping(p.args)
  BY <1>1, <1>2 DEF IsMapping
<1>6. \A n \in p.missing : n \in c.names /\ Resolve(n, c, config, cx).error = "missing"
  BY <1>1, <1>2, <1>3
<1>7. /\ \A n \in DOMAIN p.args : p.args[n] = Resolve(n, c, config, cx).value
      /\ \A n \in c.names : Resolve(n, c, config, cx).error = "none" => n \in DOMAIN p.args
  BY <1>1, <1>2, <1>3
<1>8. p.error = "none" => DOMAIN p.args = c.names /\ p.missing = {}
  BY <1>1, <1>4
<1> QED
  BY <1>4, <1>5, <1>6, <1>7, <1>8 DEF p

-----------------------------------------------------------------------------
(* What a node does to a payload                                           *)

DataOk(d) == d.type \in Types /\ d.size \in Nat

\* The keys that a node can add to a context.
Adds(node) ==
    Created(node) \union (IF node.kind = "injector" THEN {node.key} ELSE {})
                  \union (IF node.kind = "contextData" THEN {node.to} ELSE {})

ResultOk(r, cx, C, S) ==
    /\ r.error \in StepErrors \union {"type", "missing"}
    /\ DataOk(r.data) /\ AreCalls(r.calls) /\ Keeps(cx, r.ctx, C, S)

LEMMA PassedOk ==
    ASSUME NEW at0, NEW cx, NEW C, NEW S, SoFar(at0, cx, C, S), NEW d, DataOk(d),
           NEW calls, AreCalls(calls)
    PROVE  ResultOk(Passed(at0, d, calls), cx, C, S) /\ Passed(at0, d, calls).missing = {}
BY DEF SoFar, ResultOk, Passed, Result

LEMMA OneCall ==
    ASSUME NEW args, AreArgs(args)
    PROVE  AreCalls(<<args>>) /\ AreCalls(<<>>)
<1>1. IsSequence(<<args>>) /\ IsSequence(<<>>)
  BY DEF IsSequence, Range
<1> QED
  BY <1>1 DEF AreCalls, AreArgs

\* What the logic of a context processor asks for is checked against its declarations.
LEMMA CheckedOk ==
    ASSUME NEW c, IsClass(c), c.cls = "context", NEW args, IsMapping(args), DOMAIN args = c.names
    PROVE  StepsOk(Checked(c, Requests(c.does, args)), c.created, c.suppressed)
<1> DEFINE d == c.does
           rs == Requests(d, args)
           P == Checked(c, rs)
<1>1. IsWork(d, c.names)
  BY DEF IsClass
<1> HIDE DEF d
<1>2. IsSequence(rs) /\ \A i \in DOMAIN rs : rs[i].deletes \/ IsValue(rs[i].value)
  <2>0. IsSequence(<<>>) /\ \A r : IsSequence(<<r>>)
    BY DEF IsSequence, Range
  <2>1. CASE d.kind = "script"
    <3>1. rs = d.requests
      BY <2>1 DEF Requests
    <3> QED
      BY <1>1, <2>1, <3>1 DEF IsWork
  <2>2. CASE d.kind = "rename"
    <3>1. IsValue(args[d.from])
      BY <1>1, <2>2 DEF IsWork, IsMapping
    <3>2. rs = <<>> \/ rs = <<Update(d.to, args[d.from]), Delete(d.from)>>
      BY <2>2 DEF Requests
    <3> DEFINE two == <<Update(d.to, args[d.from]), Delete(d.from)>>
    <3>3. /\ IsSequence(two) /\ DOMAIN two = {1, 2}
          /\ IsValue(two[1].value) /\ two[2].deletes
      <4>1. two[1].value = args[d.from] /\ two[2].deletes
        BY DEF Update, Delete
      <4>2. IsSequence(two) /\ DOMAIN two = {1, 2}
        <5> HIDE DEF d
        <5>1. \A r, q : IsSequence(<<r, q>>) /\ DOMAIN <<r, q>> = {1, 2}
          BY DEF IsSequence, Range
        <5> QED
          BY <5>1
      <4> QED
        BY <3>1, <4>1, <4>2
    <3> HIDE DEF two
    <3>4. \A i \in DOMAIN two : two[i].deletes \/ IsValue(two[i].value)
      BY <3>3
    <3>5. rs = <<>> \/ rs = two
      BY <3>2 DEF two
    <3> HIDE DEF rs
    <3> QED
      BY <2>0, <3>3, <3>4, <3>5
  <2>3. CASE d.kind = "delete"
    <3>1. rs = <<>> \/ rs = <<Delete(d.key)>>
      BY <2>3 DEF Requests
    <3> HIDE DEF rs
    <3> QED
      BY <2>0, <3>1 DEF Delete
  <2>4. CASE d.kind = "template"
    <3>1. rs = <<Update(d.to, Scalar(80))>>
      BY <2>4 DEF Requests
    <3>2. IsValue(Scalar(80))
      BY <2>0 DEF IsValue, Scalar, Kinds
    <3> HIDE DEF rs
    <3> QED
      BY <2>0, <3>1, <3>2 DEF Update
  <2> QED
    BY <1>1, <2>1, <2>2, <2>3, <2>4 DEF IsWork
<1> HIDE DEF rs
<1>3. DOMAIN P = DOMAIN rs /\ P = [i \in DOMAIN rs |-> P[i]]
  BY DEF Checked
<1>4. \A i \in DOMAIN rs : P[i] = IF rs[i].deletes THEN Deleting(rs[i].key, c.suppressed)
                                  ELSE Updating(rs[i].key, rs[i].value, c.created)
  BY DEF Checked
<1> HIDE DEF P
<1>5. IsSequence(P)
  BY <1>2, <1>3, SequenceShape, SequenceOf1
<1>6. ASSUME NEW i \in DOMAIN P PROVE StepOk(P[i], c.created, c.suppressed)
  <2>1. CASE rs[i].deletes
    BY <1>3, <1>4, <2>1 DEF Deleting, StepOk
  <2>2. CASE ~rs[i].deletes
    BY <1>2, <1>3, <1>4, <2>2 DEF Updating, StepOk
  <2> QED
    BY <2>1, <2>2
<1> QED
  BY <1>5, <1>6 DEF StepsOk, P, rs, d

\* The result of a probe goes under the key of the node, wherever it is put.
LEMMA InjectOk ==
    ASSUME NEW node, NEW cx, NEW c, NEW n \in Nat
    PROVE  StepsOk(Inject(node, cx, ProbeResult(c, n)), {node.key}, {})
<1> DEFINE one(i) == Scalar(70 + i)
           many == [i \in 1 .. n |-> one(i)]
           result == ProbeResult(c, n)
<1>0. IsSequence(<<>>)
  BY DEF IsSequence, Range
<1>1. result = List(many) \/ result = one(1)
  BY DEF ProbeResult
<1>2. \A i : IsValue(one(i)) /\ one(i).kind = "scalar"
  BY <1>0 DEF Scalar, IsValue, Kinds
<1>3. DOMAIN many = 1 .. n /\ many = [i \in 1 .. n |-> many[i]] /\ \A i \in 1 .. n : many[i] = one(i)
  OBVIOUS
<1> HIDE DEF one, many, result
<1>4. IsSequence(many)
  BY <1>3, SequenceOf1
<1>5. \A i \in DOMAIN many : IsValue(many[i])
  BY <1>2, <1>3
<1>6. IsValue(List(many)) /\ List(many).of = many
  BY <1>4, <1>5 DEF List, IsValue, Kinds
<1>7. IsValue(result)
  BY <1>1, <1>2, <1>6
<1> DEFINE steps == Inject(node, cx, result)
<1>8. CASE cx.kind = "single"
  <2>1. steps = <<Setting(node.key, result)>>
    BY <1>8 DEF Inject
  <2>2. StepOk(Setting(node.key, result), {node.key}, {})
    BY <1>7 DEF Setting, StepOk
  <2> HIDE DEF steps
  <2>3. StepsOk(steps, {node.key}, {})
    BY <2>1, <2>2, OneStep
  <2> QED
    BY <2>3 DEF steps, result
<1>9. CASE cx.kind # "single" /\ result.kind # "list"
  <2>1. steps = <<Failing("type")>>
    BY <1>9 DEF Inject
  <2>2. StepOk(Failing("type"), {node.key}, {})
    BY DEF Failing, StepOk
  <2> HIDE DEF steps
  <2>3. StepsOk(steps, {node.key}, {})
    BY <2>1, <2>2, OneStep
  <2> QED
    BY <2>3 DEF steps, result
<1>10. CASE cx.kind # "single" /\ result.kind = "list"
  <2>1. result.of = many
    BY <1>1, <1>2, <1>6, <1>10
  <2>2. /\ DOMAIN steps = DOMAIN many /\ steps = [i \in DOMAIN many |-> steps[i]]
        /\ \A i \in DOMAIN many : steps[i] = SettingItem(i, node.key, many[i])
    BY <1>10, <2>1 DEF Inject
  <2> HIDE DEF steps
  <2>3. IsSequence(steps)
    BY <1>3, <2>2, SequenceOf1
  <2>4. \A i \in DOMAIN steps : StepOk(steps[i], {node.key}, {})
    BY <1>5, <2>2 DEF SettingItem, StepOk
  <2>5. StepsOk(steps, {node.key}, {})
    BY <2>3, <2>4 DEF StepsOk
  <2> QED
    BY <2>5 DEF steps, result
<1> QED
  BY <1>8, <1>9, <1>10

\* Steps that were performed without an error only updated declared keys.
LEMMA AllDeclared ==
    ASSUME NEW steps, Len(steps) \in Nat, NEW cx, Perform(steps, cx).error = "none"
    PROVE  \A n \in 1 .. Len(steps) : steps[n].do = "update" => steps[n].key \in steps[n].declared
<1>1. PICK f : /\ f[0] = Begun(cx)
               /\ \A n \in 1 .. Len(steps) : f[n] = Advance(f[n - 1], steps[n])
               /\ Perform(steps, cx) = f[Len(steps)]
  BY PerformSteps
<1> DEFINE Fine(n) == steps[n].do = "update" => steps[n].key \in steps[n].declared
           G == {n \in Nat : f[n].error = "none" => \A m \in 1 .. n : Fine(m)}
<1>2. 0 \in G
  OBVIOUS
<1>3. ASSUME NEW n \in 0 .. Len(steps) - 1, n \in G PROVE n + 1 \in G
  <2>1. f[n + 1] = Advance(f[n], steps[n + 1])
    BY <1>1
  <2>2. SUFFICES ASSUME f[n + 1].error = "none" PROVE \A m \in 1 .. n + 1 : Fine(m)
    OBVIOUS
  <2>3. f[n].error = "none"
    BY <2>1, <2>2 DEF Advance
  <2>4. \A m \in 1 .. n : Fine(m)
    BY <1>3, <2>3
  <2>5. Fine(n + 1)
    <3> SUFFICES ASSUME steps[n + 1].do = "update", steps[n + 1].key \notin steps[n + 1].declared
                 PROVE  FALSE
      OBVIOUS
    <3>1. Effect(f[n].ctx, steps[n + 1]).error = "key"
      BY DEF Effect, ValidatedUpdate, Failed
    <3>2. f[n + 1].error = "key"
      BY <2>1, <2>3, <3>1 DEF Advance
    <3> QED
      BY <2>2, <3>2
  <2> HIDE DEF Fine
  <2>6. \A m \in 1 .. n + 1 : m \in 1 .. n \/ m = n + 1
    OBVIOUS
  <2> QED
    BY <2>4, <2>5, <2>6
<1>4. \A n \in 0 .. Len(steps) : n \in G
  <2> HIDE DEF G
  <2> QED
    BY <1>2, <1>3, StepByStep
<1> QED
  BY <1>1, <1>4

LEMMA Remainder ==
    ASSUME NEW n \in Nat \ {0}, NEW x \in 0 .. n - 1
    PROVE  x % n = x
OBVIOUS

\* What a payload source loaded may be merged into the context of the pipeline.
LEMMA MergeOk ==
    ASSUME NEW c, IsClass(c), c.does.kind = "code", NEW args, AreArgs(args), NEW ctx0,
           Perform(Calls(c, <<args>>), ctx0).error = "none"
    PROVE  StepsOk(Merge(c.does.writes), c.created, {})
<1> DEFINE writes == c.does.writes
           W == Len(writes)
           calls == Calls(c, <<args>>)
           P == Merge(writes)
<1>1. IsSequence(writes) /\ \A i \in DOMAIN writes : IsValue(writes[i][2])
  BY DEF IsClass, IsWork
<1>2. W \in Nat /\ DOMAIN writes = 1 .. W
  BY <1>1, SequenceShape
<1>3. IsSequence(<<args>>) /\ \A i \in DOMAIN <<args>> : AreArgs(<<args>>[i])
  BY DEF IsSequence, Range
<1>4. Len(calls) = Len(<<args>>) * (W + 1)
  BY <1>3, CallsOk
<1>5. Len(calls) = W + 1 /\ Len(calls) \in Nat
  <2> HIDE DEF calls, W
  <2>1. Len(<<args>>) = 1
    OBVIOUS
  <2> QED
    BY <1>2, <1>4, <2>1
<1>6. \A n \in 1 .. W + 1 : calls[n].do = "update" => calls[n].key \in calls[n].declared
  BY <1>5, AllDeclared
<1>11. \A n \in 1 .. Len(<<args>>) * (W + 1) :
           calls[n] = IF (n - 1) % (W + 1) = 0
                      THEN Calling(<<args>>[((n - 1) \div (W + 1)) + 1])
                      ELSE Write(c, writes[(n - 1) % (W + 1)])
  BY DEF Calls
<1>7. ASSUME NEW j \in 1 .. W PROVE writes[j][1] \in c.created
  <2>1. j + 1 \in 1 .. Len(<<args>>) * (W + 1) /\ j # 0
    <3>1. Len(<<args>>) = 1
      OBVIOUS
    <3> HIDE DEF W
    <3> QED
      BY <1>2, <3>1
  <2>2. (j + 1 - 1) % (W + 1) = j
    <3> HIDE DEF W
    <3>1. j + 1 - 1 = j /\ j \in 0 .. (W + 1) - 1 /\ W + 1 \in Nat \ {0}
      BY <1>2
    <3> QED
      BY <3>1, Remainder
  <2>6. calls[j + 1] = Write(c, writes[j])
    <3> HIDE DEF calls, W, writes
    <3> QED
      BY <1>11, <2>1, <2>2
  <2>3. /\ calls[j + 1].do = "update" /\ calls[j + 1].key = writes[j][1]
        /\ calls[j + 1].declared = c.created
    BY <2>6 DEF Write, Updating
  <2>4. j + 1 \in 1 .. W + 1
    BY <1>2
  <2> HIDE DEF calls, writes
  <2> QED
    BY <1>6, <2>3, <2>4
<1>8. /\ DOMAIN P = DOMAIN writes /\ P = [i \in DOMAIN writes |-> P[i]]
      /\ \A i \in DOMAIN writes : P[i] = Adding(writes[i][1], writes[i][2])
  BY DEF Merge
<1> HIDE DEF P, writes, calls
<1>9. IsSequence(P)
  BY <1>2, <1>8, SequenceOf1
<1>10. \A i \in DOMAIN P : StepOk(P[i], c.created, {})
  BY <1>1, <1>2, <1>7, <1>8 DEF Adding, StepOk
<1> QED
  BY <1>9, <1>10 DEF StepsOk, P, writes

LEMMA PayloadSourceOk ==
    ASSUME NEW c, IsClass(c), c.cls = "payloadSource", NEW args, AreArgs(args),
           NEW d, DataOk(d), NEW cx, IsContext(cx)
    PROVE  LET r == PayloadSourceResult(c, d, cx, args) IN
           /\ ResultOk(r, cx, c.created, {}) /\ r.missing = {}
           /\ r.error = "none" => r.data.type = c.out
<1> DEFINE loaded == Perform(Calls(c, <<args>>), Single(NoKeys))
           after  == Perform(Merge(c.does.writes), cx)
           r == PayloadSourceResult(c, d, cx, args)
<1>1. c.does.kind = "code" /\ c.out \in Types
  BY DEF IsClass
<1>2. IsContext(Single(NoKeys))
  BY DEF IsContext, Single, NoKeys, IsMapping, IsSequence
<1>3. IsSequence(<<args>>) /\ \A i \in DOMAIN <<args>> : AreArgs(<<args>>[i])
  BY DEF IsSequence, Range
<1>4. StepsOk(Calls(c, <<args>>), c.created, {})
  BY <1>1, <1>3, CallsOk
<1>5. SoFar(loaded, Single(NoKeys), c.created, {})
  BY <1>2, <1>4, PerformOk
<1>6. ASSUME loaded.error # "none"
      PROVE  ResultOk(r, cx, c.created, {}) /\ r.missing = {} /\ (r.error = "none" => r.data.type = c.out)
  <2>1. r = Result(loaded.error, d, cx, loaded.calls)
    BY <1>6, Zenon DEF PayloadSourceResult
  <2> HIDE DEF r, loaded
  <2> QED
    BY <1>5, <1>6, <2>1 DEF Result, ResultOk, SoFar, Keeps
<1>7. ASSUME loaded.error = "none"
      PROVE  ResultOk(r, cx, c.created, {}) /\ r.missing = {} /\ (r.error = "none" => r.data.type = c.out)
  <2> DEFINE out == IF after.error = "none" THEN Output(c, 1) ELSE d
  <2>1. r = Passed(after, out, loaded.calls)
    BY <1>7, Zenon DEF PayloadSourceResult
  <2>2. StepsOk(Merge(c.does.writes), c.created, {})
    BY <1>1, <1>7, MergeOk
  <2>3. SoFar(after, cx, c.created, {})
    BY <2>2, PerformOk
  <2>4. AreCalls(loaded.calls)
    BY <1>5 DEF SoFar
  <2> HIDE DEF r, loaded, after
  <2>5. DataOk(out) /\ (after.error = "none" => out.type = c.out)
    BY <1>1 DEF DataOk, Output
  <2> HIDE DEF out
  <2>6. ResultOk(r, cx, c.created, {}) /\ r.missing = {}
    BY <2>1, <2>3, <2>4, <2>5, PassedOk
  <2>7. r.error = after.error /\ r.data = out
    BY <2>1 DEF Passed, Result
  <2> QED
    BY <2>5, <2>6, <2>7
<1> HIDE DEF r
<1> QED
  BY <1>6, <1>7 DEF r

LEMMA WiderOk ==
    ASSUME NEW r, NEW cx, NEW C, NEW S, ResultOk(r, cx, C, S), NEW D, NEW T, C \subseteq D, S \subseteq T
    PROVE  ResultOk(r, cx, D, T)
BY DEF ResultOk, Keeps

\* The type of the data after a node that takes data.
Typed(node, d, r) ==
    r.error = "none" /\ node.kind \notin {"context", "injector"} =>
        r.data.type = node.class.out \/ (r.data = d /\ node.class.out = node.class.in)

LEMMA ItemOk ==
    ASSUME NEW node, NodeOk(node), node.kind \in {"operation", "source", "sink"},
           NEW d, DataOk(d), NEW cx, NEW made, SoFar(made, cx, node.class.created, {})
    PROVE  LET r == ItemResult(node.class, d, made) IN
           ResultOk(r, cx, node.class.created, {}) /\ r.missing = {} /\ Typed(node, d, r)
<1> DEFINE c == node.class
           out == IF made.error # "none" \/ c.cls = "sink" THEN d ELSE Output(c, Len(made.calls))
           r == ItemResult(c, d, made)
<1>1. r = Passed(made, out, made.calls)
  BY DEF ItemResult
<1>2. AreCalls(made.calls) /\ Len(made.calls) \in Nat
  BY SequenceShape DEF SoFar, AreCalls
<1>3. c.cls = node.kind /\ c.out \in Types /\ (c.cls = "sink" => c.out = c.in)
  BY DEF NodeOk, ClassOk
<1>4. DataOk(out)
  BY <1>2, <1>3 DEF Output, DataOk
<1>5. ResultOk(r, cx, c.created, {}) /\ r.missing = {}
  BY <1>1, <1>2, <1>4, PassedOk
<1>6. Typed(node, d, r)
  <2>1. r.error = made.error /\ r.data = out
    BY <1>1 DEF Passed, Result
  <2>2. \/ made.error # "none"
        \/ out = d /\ c.out = c.in
        \/ out.type = c.out
    BY <1>3 DEF Output
  <2> HIDE DEF r, out
  <2> QED
    BY <2>1, <2>2 DEF Typed
<1> QED
  BY <1>5, <1>6

LEMMA ProbeOk ==
    ASSUME NEW node, NodeOk(node), node.kind = "probe",
           NEW d, DataOk(d), NEW cx, NEW made, SoFar(made, cx, node.class.created, {})
    PROVE  LET r == ProbeNodeResult(node, d, made) IN
           ResultOk(r, cx, Adds(node), {}) /\ r.missing = {} /\ Typed(node, d, r)
<1> DEFINE r == ProbeNodeResult(node, d, made)
           n == Len(made.calls)
           steps == Inject(node, made.ctx, ProbeResult(node.class, n))
           after == Perform(steps, made.ctx)
<1>1. AreCalls(made.calls) /\ n \in Nat /\ IsContext(made.ctx)
  BY SequenceShape DEF SoFar, AreCalls, Keeps
<1>2. node.class.created \subseteq Adds(node) /\ {node.key} \subseteq Adds(node)
  BY DEF Adds, Created
<1>3. ASSUME made.error # "none"
      PROVE  ResultOk(r, cx, Adds(node), {}) /\ r.missing = {} /\ r.data = d
  <2>1. r = Passed(made, d, made.calls)
    BY <1>3 DEF ProbeNodeResult
  <2>2. ResultOk(r, cx, node.class.created, {}) /\ r.missing = {} /\ r.data = d
    BY <1>1, <2>1, PassedOk DEF Passed, Result
  <2> HIDE DEF r
  <2> QED
    BY <1>2, <2>2, WiderOk
<1>4. ASSUME made.error = "none"
      PROVE  ResultOk(r, cx, Adds(node), {}) /\ r.missing = {} /\ r.data = d
  <2>1. r = Passed(after, d, made.calls)
    BY <1>4 DEF ProbeNodeResult
  <2>2. StepsOk(steps, {node.key}, {})
    BY <1>1, InjectOk
  <2> HIDE DEF steps
  <2>3. SoFar(after, made.ctx, {node.key}, {})
    BY <1>1, <2>2, PerformOk
  <2> HIDE DEF after
  <2>4. SoFar(after, cx, Adds(node), {})
    <3>1. Keeps(cx, made.ctx, Adds(node), {})
      BY <1>2 DEF SoFar, Keeps
    <3>2. Keeps(cx, after.ctx, Adds(node), {})
      BY <1>2, <2>3, <3>1, KeepsOn DEF SoFar
    <3> QED
      BY <2>3, <3>2 DEF SoFar
  <2> QED
    BY <1>1, <2>1, <2>4, PassedOk DEF Passed, Result
<1>5. node.class.out = node.class.in
  BY DEF NodeOk, ClassOk
<1> HIDE DEF r
<1>6. ResultOk(r, cx, Adds(node), {}) /\ r.missing = {} /\ r.data = d
  BY <1>3, <1>4
<1>7. Typed(node, d, r)
  BY <1>5, <1>6 DEF Typed
<1> QED
  BY <1>6, <1>7 DEF r

LEMMA WriteKeeps ==
    ASSUME NEW cx, NEW at0, NEW C, SoFar(at0, cx, C, {}), NEW k, NEW v, IsValue(v), k \in C,
           NEW d, DataOk(d)
    PROVE  LET r == Passed(UpdateContext(at0.ctx, k, v), d, at0.calls) IN
           ResultOk(r, cx, C, {}) /\ r.missing = {}
<1> DEFINE e == UpdateContext(at0.ctx, k, v)
<1>1. e.error \in StepErrors /\ Keeps(at0.ctx, e.ctx, {k}, {})
  BY SetValueKeeps DEF UpdateContext, SoFar, Keeps
<1> HIDE DEF e
<1>2. Keeps(cx, e.ctx, C, {})
  BY <1>1, KeepsOn DEF SoFar
<1>3. /\ Passed(e, d, at0.calls).error = e.error /\ Passed(e, d, at0.calls).missing = {}
      /\ Passed(e, d, at0.calls).data = d /\ Passed(e, d, at0.calls).ctx = e.ctx
      /\ Passed(e, d, at0.calls).calls = at0.calls
  BY DEF Passed, Result
<1>4. ResultOk(Passed(e, d, at0.calls), cx, C, {}) /\ Passed(e, d, at0.calls).missing = {}
  BY <1>1, <1>2, <1>3 DEF ResultOk, SoFar
<1> QED
  BY <1>4 DEF e

LEMMA ScalarsAreValues ==
    ASSUME NEW n
    PROVE  IsValue(Scalar(n))
BY DEF IsValue, Scalar, Kinds, IsSequence, Range

\* What the parameters of a call are known to be.
FoundOk(p, c) ==
    /\ p.error \in {"none", "value", "missing"}
    /\ p.error = "none" => DOMAIN p.args = c.names /\ p.missing = {}
    /\ IsMapping(p.args)

LEMMA ProcessWithOk ==
    ASSUME NEW node, NodeOk(node), node.kind # "contextData", NEW p, FoundOk(p, node.class),
           NEW d, DataOk(d), NEW cx, IsContext(cx)
    PROVE  LET r == ProcessWith(p, node, d, cx) IN
           /\ ResultOk(r, cx, Adds(node), Suppressed(node)) /\ Typed(node, d, r)
           /\ p.error = "none" => r.missing = {}
           /\ p.error # "none" => r.missing = p.missing /\ r.error = p.error /\ r.ctx = cx
<1> DEFINE r == ProcessWith(p, node, d, cx)
           c == node.class
           made == Perform(Run(c, p.args, d.size), cx)
           Good(q) == ResultOk(q, cx, Adds(node), Suppressed(node)) /\ Typed(node, d, q) /\ q.missing = {}
<1>0. c.created \subseteq Adds(node) /\ {} \subseteq Suppressed(node)
  BY DEF Adds, Created
<1>1. ASSUME p.error # "none"
      PROVE  /\ ResultOk(r, cx, Adds(node), Suppressed(node)) /\ Typed(node, d, r)
             /\ r.missing = p.missing /\ r.error = p.error /\ r.ctx = cx
  <2>1. r = Refused(p, d, cx)
    BY <1>1 DEF ProcessWith
  <2>2. /\ r.error = p.error /\ r.missing = p.missing /\ r.ctx = cx /\ r.data = d /\ r.calls = <<>>
    BY <2>1 DEF Refused, Result
  <2>3. AreCalls(<<>>)
    BY DEF AreCalls, IsSequence
  <2> HIDE DEF r
  <2> QED
    BY <1>1, <2>2, <2>3 DEF ResultOk, Typed, FoundOk, StepErrors, Keeps
<1>2. ASSUME p.error = "none", node.kind = "context" PROVE Good(r)
  <2> DEFINE steps == Checked(c, Requests(c.does, p.args))
             after == Perform(steps, cx)
  <2>1. r = Passed(after, d, <<p.args>>)
    BY <1>2 DEF ProcessWith
  <2>2. StepsOk(steps, c.created, c.suppressed)
    BY <1>2, CheckedOk DEF NodeOk, FoundOk
  <2> HIDE DEF steps
  <2>3. SoFar(after, cx, c.created, c.suppressed)
    BY <2>2, PerformOk
  <2> HIDE DEF after
  <2>4. AreCalls(<<p.args>>)
    BY OneCall, ValuesAreArgs DEF FoundOk
  <2>5. ResultOk(r, cx, c.created, c.suppressed) /\ r.missing = {}
    BY <2>1, <2>3, <2>4, PassedOk
  <2>6. c.suppressed = Suppressed(node)
    BY <1>2 DEF Suppressed
  <2> HIDE DEF r
  <2>7. Typed(node, d, r)
    BY <1>2 DEF Typed
  <2> QED
    BY <1>0, <2>5, <2>6, <2>7, WiderOk
<1>3. ASSUME p.error = "none", node.kind = "payloadSource" PROVE Good(r)
  <2>1. r = PayloadSourceResult(c, d, cx, p.args)
    BY <1>3 DEF ProcessWith
  <2>2. IsClass(c) /\ c.cls = "payloadSource" /\ AreArgs(p.args)
    BY <1>3, ValuesAreArgs DEF NodeOk, FoundOk
  <2> HIDE DEF r
  <2>3. ResultOk(r, cx, c.created, {}) /\ r.missing = {} /\ (r.error = "none" => r.data.type = c.out)
    BY <2>1, <2>2, PayloadSourceOk
  <2>4. Typed(node, d, r)
    BY <2>3 DEF Typed
  <2> QED
    BY <1>0, <2>3, <2>4, WiderOk
<1>4. ASSUME p.error = "none", node.kind # "context" PROVE SoFar(made, cx, c.created, {})
  <2>1. StepsOk(Run(c, p.args, d.size), c.created, {})
    BY <1>4, RunOk DEF NodeOk, FoundOk, DataOk
  <2> QED
    BY <2>1, PerformOk
<1>5. ASSUME p.error = "none", node.kind = "probe" PROVE Good(r)
  <2>1. r = ProbeNodeResult(node, d, made)
    BY <1>5 DEF ProcessWith
  <2>2. SoFar(made, cx, c.created, {})
    BY <1>4, <1>5
  <2> HIDE DEF r, made
  <2>3. ResultOk(r, cx, Adds(node), {}) /\ r.missing = {} /\ Typed(node, d, r)
    BY <1>5, <2>1, <2>2, ProbeOk
  <2> QED
    BY <1>0, <2>3, WiderOk
<1>6. ASSUME p.error = "none", node.kind = "injector" PROVE Good(r)
  <2>1. r = InjectorResult(node, d, made)
    BY <1>6 DEF ProcessWith
  <2>2. SoFar(made, cx, c.created, {})
    BY <1>4, <1>6
  <2> HIDE DEF made
  <2>3. SoFar(made, cx, Adds(node), {})
    BY <1>0, <2>2 DEF SoFar, Keeps
  <2>4. AreCalls(made.calls)
    BY <2>3 DEF SoFar
  <2>5. node.key \in Adds(node)
    BY <1>6 DEF Adds
  <2>6. \/ r = Passed(made, d, made.calls)
        \/ r = Passed(UpdateContext(made.ctx, node.key, Scalar(90)), d, made.calls)
    BY <2>1 DEF InjectorResult
  <2> HIDE DEF r
  <2>7. ResultOk(r, cx, Adds(node), {}) /\ r.missing = {}
    BY <2>3, <2>4, <2>5, <2>6, PassedOk, WriteKeeps, ScalarsAreValues
  <2>8. Typed(node, d, r)
    BY <1>6 DEF Typed
  <2> QED
    BY <1>0, <2>7, <2>8, WiderOk
<1>7. ASSUME p.error = "none", node.kind \in {"operation", "source", "sink"} PROVE Good(r)
  <2>1. r = ItemResult(c, d, made)
    BY <1>7 DEF ProcessWith
  <2>2. SoFar(made, cx, c.created, {})
    BY <1>4, <1>7
  <2> HIDE DEF r, made
  <2>3. ResultOk(r, cx, c.created, {}) /\ r.missing = {} /\ Typed(node, d, r)
    BY <1>7, <2>1, <2>2, ItemOk
  <2> QED
    BY <1>0, <2>3, WiderOk
<1>8. node.kind \in NodeKinds
  BY DEF NodeOk
<1> HIDE DEF r
<1>9. p.error = "none" => Good(r)
  <2> HIDE DEF Good
  <2> QED
    BY <1>2, <1>3, <1>5, <1>6, <1>7, <1>8 DEF NodeKinds
<1>10. /\ ResultOk(r, cx, Adds(node), Suppressed(node)) /\ Typed(node, d, r)
       /\ p.error = "none" => r.missing = {}
       /\ p.error # "none" => r.missing = p.missing /\ r.error = p.error /\ r.ctx = cx
  BY <1>1, <1>9
<1> QED
  BY <1>10 DEF r

LEMMA ContextDataOk ==
    ASSUME NEW node, node.kind = "contextData", NEW d, DataOk(d), NEW cx, IsContext(cx)
    PROVE  ResultOk(ContextDataResult(node, d, cx), cx, Adds(node), {})
<1> DEFINE r == ContextDataResult(node, d, cx)
           e == UpdateContext(cx, node.to, Scalar(91))
           call == Only(node.key, GetValue(cx, node.key).value)
<1>0. AreCalls(<<>>)
  BY DEF AreCalls, IsSequence
<1>1. CASE KeysError(cx) # "none"
  <2>1. r = Result(KeysError(cx), d, cx, <<>>)
    BY <1>1 DEF ContextDataResult
  <2>2. KeysError(cx) = "value"
    BY <1>1 DEF KeysError
  <2>3. r.error = "value" /\ r.data = d /\ r.ctx = cx /\ r.calls = <<>>
    BY <2>1, <2>2 DEF Result
  <2> HIDE DEF r
  <2>4. ResultOk(r, cx, Adds(node), {})
    BY <1>0, <2>3 DEF ResultOk, Keeps, StepErrors
  <2> QED
    BY <2>4 DEF r
<1>2. CASE KeysError(cx) = "none" /\ node.key \notin Keys(cx)
  <2>1. r = [Result("missing", d, cx, <<>>) EXCEPT !.missing = {node.key}]
    BY <1>2 DEF ContextDataResult
  <2>2. r.error = "missing" /\ r.data = d /\ r.ctx = cx /\ r.calls = <<>>
    BY <2>1 DEF Result
  <2> HIDE DEF r
  <2>3. ResultOk(r, cx, Adds(node), {})
    BY <1>0, <2>2 DEF ResultOk, Keeps
  <2> QED
    BY <2>3 DEF r
<1>3. CASE KeysError(cx) = "none" /\ node.key \in Keys(cx)
  <2>1. r = Passed(e, d, <<call>>)
    BY <1>3, Zenon DEF ContextDataResult
  <2>2. e.error \in StepErrors /\ Keeps(cx, e.ctx, {node.to}, {})
    BY SetValueKeeps, ScalarsAreValues DEF UpdateContext
  <2>3. AreCalls(<<call>>)
    <3>1. AreArgs(call)
      BY ReadsAreValues DEF AreArgs, Only, IsValue
    <3> HIDE DEF call
    <3> QED
      BY <3>1, OneCall
  <2> HIDE DEF e, call
  <2>4. r.error = e.error /\ r.data = d /\ r.ctx = e.ctx /\ r.calls = <<call>>
    BY <2>1 DEF Passed, Result
  <2>5. node.to \in Adds(node)
    BY DEF Adds
  <2> HIDE DEF r
  <2>6. ResultOk(r, cx, Adds(node), {})
    BY <2>2, <2>3, <2>4, <2>5 DEF ResultOk, Keeps
  <2> QED
    BY <2>6 DEF r
<1> QED
  BY <1>1, <1>2, <1>3

\* A node of a configuration is refused at the gate, for its parameters, or not for them.
Answered(r, node, cx) ==
    LET p == Parameters(node.class, node.config, cx) IN
    \/ r.error = "gate" /\ r.missing = {}
    \/ p.error # "none" /\ r.error = p.error /\ r.missing = p.missing /\ r.ctx = cx
    \/ p.error = "none" /\ r.missing = {}

LEMMA ProcessOk ==
    ASSUME NEW node, NodeOk(node), NEW given, DataOk(given), NEW cx, IsContext(cx)
    PROVE  LET r == Process(node, given, cx) IN
           /\ r.error \in StepErrors \union {"type", "missing", "gate"}
           /\ DataOk(r.data) /\ AreCalls(r.calls) /\ Keeps(cx, r.ctx, Adds(node), Suppressed(node))
           /\ r.error = "gate" => ~IsContextNode(node) /\ ~Sub(given.type, node.class.in)
           /\ r.error = "none" /\ ~IsContextNode(node) /\ node.kind # "injector" =>
                Sub(r.data.type, node.class.out)
           /\ node.kind # "contextData" => Answered(r, node, cx)
<1> DEFINE r == Process(node, given, cx)
           d == IF given = Nothing /\ ~IsContextNode(node) /\ node.class.in = "NoData"
                THEN NoData ELSE given
           p == Parameters(node.class, node.config, cx)
           Good(q) ==
             /\ q.error \in StepErrors \union {"type", "missing", "gate"}
             /\ DataOk(q.data) /\ AreCalls(q.calls) /\ Keeps(cx, q.ctx, Adds(node), Suppressed(node))
             /\ q.error = "gate" => ~IsContextNode(node) /\ ~Sub(given.type, node.class.in)
             /\ q.error = "none" /\ ~IsContextNode(node) /\ node.kind # "injector" =>
                  Sub(q.data.type, node.class.out)
             /\ node.kind # "contextData" => Answered(q, node, cx)
<1>1. DataOk(d)
  BY DEF DataOk, NoData, Types
<1>2. ~Sub(d.type, node.class.in) => d = given
  BY DEF Sub, NoData
<1> HIDE DEF d
<1>3. ASSUME node.kind = "contextData" PROVE Good(r)
  <2>1. r = ContextDataResult(node, d, cx)
    BY <1>3 DEF Process, IsContextNode, d
  <2> HIDE DEF r
  <2>2. ResultOk(r, cx, Adds(node), {})
    BY <1>1, <1>3, <2>1, ContextDataOk
  <2>3. IsContextNode(node)
    BY <1>3 DEF IsContextNode
  <2> QED
    BY <1>3, <2>2, <2>3 DEF ResultOk, Keeps, StepErrors
<1>4. ASSUME node.kind # "contextData", ~IsContextNode(node), ~Sub(d.type, node.class.in) PROVE Good(r)
  <2>1. r = Result("gate", d, cx, <<>>)
    BY <1>4 DEF Process, d
  <2>2. r.error = "gate" /\ r.missing = {} /\ r.data = d /\ r.ctx = cx /\ r.calls = <<>>
    BY <2>1 DEF Result
  <2>3. AreCalls(<<>>)
    BY DEF AreCalls, IsSequence
  <2> HIDE DEF r
  <2>4. Answered(r, node, cx)
    BY <2>2 DEF Answered
  <2> QED
    BY <1>1, <1>2, <1>4, <2>2, <2>3, <2>4 DEF Keeps
<1>5. ASSUME node.kind # "contextData", IsContextNode(node) \/ Sub(d.type, node.class.in) PROVE Good(r)
  <2>1. r = ProcessWith(p, node, d, cx)
    BY <1>5 DEF Process, d
  <2>2. FoundOk(p, node.class)
    BY ParametersOk DEF NodeOk, FoundOk
  <2> HIDE DEF r, p
  <2>3. /\ ResultOk(r, cx, Adds(node), Suppressed(node)) /\ Typed(node, d, r)
        /\ p.error = "none" => r.missing = {}
        /\ p.error # "none" => r.missing = p.missing /\ r.error = p.error /\ r.ctx = cx
    BY <1>1, <1>5, <2>1, <2>2, ProcessWithOk
  <2>4. Answered(r, node, cx)
    BY <2>3 DEF Answered, p
  <2>5. r.error = "none" /\ ~IsContextNode(node) /\ node.kind # "injector" =>
          Sub(r.data.type, node.class.out)
    BY <1>5, <2>3 DEF Typed, Sub, IsContextNode
  <2> QED
    BY <2>3, <2>4, <2>5 DEF ResultOk, StepErrors
<1> HIDE DEF r
<1>6. Good(r)
  <2> HIDE DEF Good
  <2> QED
    BY <1>3, <1>4, <1>5
<1> QED
  BY <1>6 DEF r

-----------------------------------------------------------------------------
(* The invariant                                                           *)

\* The nodes are what the factory makes of the definitions.
PipeOk ==
    /\ IsSequence(pipe) /\ \A i \in DOMAIN pipe : IsDefinition(pipe[i])
    /\ nodes = [i \in DOMAIN pipe |-> Factory(pipe[i])]

\* How far the pipeline has come.
PlaceOk ==
    /\ step \in {"inspect", "instantiate", "run", "refused", "failed", "done", "call"}
    /\ step = "call" => /\ pipe = <<>> /\ ctx.kind = "collection" /\ at \in 1 .. MaxCalls + 1
                        /\ trail = <<>> /\ last.op # "node"
    /\ step # "call" => at \in 1 .. Len(pipe)
    /\ step \in {"inspect", "instantiate", "refused"} => at = 1 /\ trail = <<>> /\ last = NoLast
    /\ step \in {"run", "failed", "done"} => \A i \in DOMAIN pipe : nodes[i].error = "none"
    /\ IsSequence(trail)
    /\ step = "run" => Len(trail) = at - 1 /\ last.error = "none"
    /\ step \in {"failed", "done"} => Len(trail) = at
    /\ last.op = "node" => Len(trail) \in 1 .. Len(pipe) /\ step \in {"run", "failed", "done"}
    /\ last.op = "node" /\ last.error # "none" => step = "failed"
    /\ step = "failed" => last.op = "node"

PayloadOk == IsContext(ctx) /\ DataOk(data) /\ AreCalls(last.calls)

\* What the last node did, as far as its class and its context tell.
LastOk == last.op = "node" =>
    LET node == nodes[Len(trail)] IN
    /\ IsContext(last.before)
    /\ Keeps(last.before, ctx, Adds(node), Suppressed(node))
    /\ (last.passed <=> KeysPresent(node, last.before))
    /\ last.sources = Sources(node, last.before)
    /\ node.kind # "contextData" =>
         Answered([error |-> last.error, missing |-> last.missing, ctx |-> ctx], node, last.before)
    /\ last.error = "gate" => ~IsContextNode(node) /\ ~Sub(data.type, node.class.in)

\* The data are of the type that the node before gives.
Handed ==
    step \in {"run", "failed"} /\ at > 1 /\ ~IsContextNode(nodes[at - 1])
        /\ nodes[at - 1].kind # "injector" => Sub(data.type, nodes[at - 1].class.out)

ReportOk ==
    report.valid => FromConfiguration /\ Inspection(nodes).valid /\ step # "call"

RunInv == PipeOk /\ PlaceOk /\ PayloadOk /\ LastOk /\ Handed /\ ReportOk

LEMMA RunInit == Init => RunInv
<1> SUFFICES ASSUME Init PROVE RunInv
  OBVIOUS
<1> USE NodeRunAssumption DEF NodeRunAssumption
<1>0. IsSequence(<<>>) /\ AreCalls(<<>>) /\ last = NoLast /\ last.op = "none" /\ last.calls = <<>>
      /\ last.error = "none" /\ at = 1 /\ trail = <<>> /\ report.valid = FALSE
  BY DEF Init, NoLast, NoReport, AreCalls, IsSequence, Range
<1>1. CASE step = "inspect"
  <2>1. PICK in \in Inputs : /\ pipe = [i \in DOMAIN in.pipe |-> Definitions[in.pipe[i]]]
                             /\ ctx = in.ctx /\ data = in.data
    BY <1>1 DEF Init
  <2>2. /\ in.pipe \in Seq(DOMAIN Definitions) /\ in.pipe # <<>> /\ IsContext(in.ctx)
        /\ DataOk(in.data)
    BY DEF IsInput, DataOk
  <2>3. /\ Len(in.pipe) \in Nat \ {0} /\ DOMAIN in.pipe = 1 .. Len(in.pipe)
        /\ \A i \in DOMAIN in.pipe : in.pipe[i] \in DOMAIN Definitions
    BY <2>2
  <2>4. DOMAIN pipe = 1 .. Len(in.pipe) /\ pipe = [i \in 1 .. Len(in.pipe) |-> pipe[i]]
    BY <2>1, <2>3
  <2>5. IsSequence(pipe) /\ Len(pipe) = Len(in.pipe)
    BY <2>3, <2>4, SequenceOf1
  <2>6. PipeOk
    BY <2>1, <2>3, <2>5 DEF PipeOk, Init
  <2>7. 1 \in 1 .. Len(pipe)
    BY <2>3, <2>5
  <2>8. PlaceOk
    BY <1>0, <1>1, <2>7 DEF PlaceOk
  <2> QED
    BY <1>0, <1>1, <2>1, <2>2, <2>6, <2>8 DEF RunInv, PayloadOk, LastOk, Handed, ReportOk
<1>2. CASE step = "call" /\ pipe = <<>> /\ ctx \in Collections /\ data = NoData
  <2>1. IsContext(ctx) /\ ctx.kind = "collection" /\ DataOk(data)
    BY <1>2 DEF DataOk, NoData, Types
  <2>2. PipeOk
    BY <1>0, <1>2 DEF PipeOk, Init
  <2>3. PlaceOk
    <3>1. 1 \in 1 .. MaxCalls + 1
      OBVIOUS
    <3> QED
      BY <1>0, <1>2, <2>1, <3>1 DEF PlaceOk
  <2> QED
    BY <1>0, <1>2, <2>1, <2>2, <2>3 DEF RunInv, PayloadOk, LastOk, Handed, ReportOk
<1> QED
  BY <1>1, <1>2 DEF Init

LEMMA InspectStep ==
    ASSUME RunInv, Inspect
    PROVE  RunInv'
<1> USE DEF RunInv, Inspect
<1>1. PipeOk'
  BY DEF PipeOk
<1>2. PlaceOk'
  BY DEF PlaceOk
<1>3. PayloadOk' /\ LastOk' /\ Handed'
  BY DEF PayloadOk, LastOk, Handed, PlaceOk
<1>4. ReportOk'
  <2>1. report'.valid = Inspection(nodes).valid /\ nodes' = nodes /\ pipe' = pipe /\ step' # "call"
    OBVIOUS
  <2>2. FromConfiguration'
    BY DEF FromConfiguration
  <2> QED
    BY <2>1, <2>2 DEF ReportOk
<1> QED
  BY <1>1, <1>2, <1>3, <1>4

LEMMA InstantiateStep ==
    ASSUME RunInv, Instantiate
    PROVE  RunInv'
<1> USE DEF RunInv, Instantiate
<1>1. PipeOk'
  BY DEF PipeOk
<1>2. PlaceOk'
  <2>1. step \in {"inspect", "instantiate"} /\ step' \in {"refused", "run"}
    OBVIOUS
  <2>2. step' = "run" => \A i \in DOMAIN pipe : nodes[i].error = "none"
    BY DEF PipeOk
  <2>3. Len(trail) = 0 /\ at = 1
    BY <2>1 DEF PlaceOk
  <2> QED
    BY <2>1, <2>2, <2>3 DEF PlaceOk, NoLast
<1>3. PayloadOk' /\ LastOk'
  BY DEF PayloadOk, LastOk, PlaceOk
<1>4. Handed'
  BY DEF Handed, PlaceOk
<1>5. ReportOk'
  BY DEF ReportOk, FromConfiguration
<1> QED
  BY <1>1, <1>2, <1>3, <1>4, <1>5

\* A node of a pipeline whose nodes are all there.
LEMMA NodesAre ==
    ASSUME PipeOk, NEW i \in DOMAIN pipe, nodes[i].error = "none"
    PROVE  NodeOk(nodes[i]) /\ (pipe[i].via = "config" => nodes[i].kind \notin {"injector", "contextData"})
<1>1. nodes[i] = Factory(pipe[i]) /\ IsDefinition(pipe[i])
  BY DEF PipeOk
<1> QED
  BY <1>1, NodeOf

LEMMA OneFurther ==
    ASSUME NEW n \in Nat, NEW i \in 1 .. n, i # n
    PROVE  i + 1 \in 1 .. n /\ (i + 1) - 1 = i
OBVIOUS

LEMMA RunNodeStep ==
    ASSUME RunInv, RunNode
    PROVE  RunInv'
<1> DEFINE node == nodes[at]
           r == Process(node, data, ctx)
<1>1. /\ step = "run" /\ ctx' = r.ctx /\ data' = (IF r.error = "none" THEN r.data ELSE data)
      /\ trail' = Append(trail, Keys(r.ctx))
      /\ last' = [op |-> "node", error |-> r.error, missing |-> r.missing, calls |-> r.calls,
                  passed |-> KeysPresent(node, ctx), sources |-> Sources(node, ctx), before |-> ctx]
      /\ IF r.error # "none" THEN step' = "failed" /\ at' = at
         ELSE IF at = Len(pipe) THEN step' = "done" /\ at' = at
         ELSE step' = step /\ at' = at + 1
      /\ pipe' = pipe /\ nodes' = nodes /\ report' = report
  BY DEF RunNode
<1>2. /\ Len(pipe) \in Nat /\ DOMAIN pipe = 1 .. Len(pipe) /\ at \in 1 .. Len(pipe)
      /\ IsSequence(trail) /\ Len(trail) = at - 1
      /\ \A i \in DOMAIN pipe : nodes[i].error = "none"
  BY <1>1, SequenceShape DEF RunInv, PipeOk, PlaceOk
<1>3. NodeOk(node) /\ node.error = "none"
  BY <1>2, NodesAre DEF RunInv
<1> HIDE DEF node
<1>4. /\ r.error \in StepErrors \union {"type", "missing", "gate"}
      /\ DataOk(r.data) /\ AreCalls(r.calls) /\ Keeps(ctx, r.ctx, Adds(node), Suppressed(node))
      /\ r.error = "gate" => ~IsContextNode(node) /\ ~Sub(data.type, node.class.in)
      /\ r.error = "none" /\ ~IsContextNode(node) /\ node.kind # "injector" =>
           Sub(r.data.type, node.class.out)
      /\ node.kind # "contextData" => Answered(r, node, ctx)
  BY <1>3, ProcessOk DEF RunInv, PayloadOk
<1> HIDE DEF r
<1>5. IsSequence(trail') /\ Len(trail') = at
  BY <1>1, <1>2, Appended
<1>6. last'.op = "node" /\ last'.error = r.error /\ last'.missing = r.missing /\ last'.calls = r.calls
      /\ last'.before = ctx /\ last'.sources = Sources(node, ctx)
  BY <1>1
<1>7. last'.passed <=> KeysPresent(node, ctx)
  <2>1. last'.passed = KeysPresent(node, ctx)
    BY <1>1
  <2> QED
    BY <2>1, Zenon
<1>8. PipeOk'
  BY <1>1 DEF RunInv, PipeOk
<1>9. PlaceOk'
  <2>1. CASE r.error # "none"
    BY <1>1, <1>2, <1>5, <1>6, <2>1 DEF PlaceOk
  <2>2. CASE r.error = "none" /\ at = Len(pipe)
    BY <1>1, <1>2, <1>5, <1>6, <2>2 DEF PlaceOk
  <2>3. CASE r.error = "none" /\ at # Len(pipe)
    <3>1. /\ step' = "run" /\ at' = at + 1 /\ at' \in 1 .. Len(pipe) /\ at' - 1 = at
          /\ pipe' = pipe /\ nodes' = nodes
      <4>1. at + 1 \in 1 .. Len(pipe) /\ (at + 1) - 1 = at
        BY <1>2, <2>3, OneFurther
      <4>2. step' = step /\ at' = at + 1
        BY <1>1, <2>3
      <4>3. step = "run" /\ pipe' = pipe /\ nodes' = nodes
        BY <1>1
      <4> QED
        BY <4>1, <4>2, <4>3
    <3>2. at \in 1 .. Len(pipe)
      BY <1>2
    <3> QED
      BY <1>2, <1>5, <1>6, <2>3, <3>1, <3>2 DEF PlaceOk
  <2> QED
    BY <2>1, <2>2, <2>3
<1>10. PayloadOk'
  BY <1>1, <1>4, <1>6 DEF RunInv, PayloadOk, Keeps
<1>11. LastOk'
  <2>1. nodes'[Len(trail')] = node /\ IsContext(ctx)
    BY <1>1, <1>5 DEF node, RunInv, PayloadOk
  <2>2. node.kind # "contextData" =>
          Answered([error |-> r.error, missing |-> r.missing, ctx |-> r.ctx], node, ctx)
    BY <1>4 DEF Answered
  <2>3. r.error = "gate" => data' = data
    BY <1>1
  <2>4. ctx' = r.ctx
    BY <1>1
  <2> QED
    BY <1>4, <1>6, <1>7, <2>1, <2>2, <2>3, <2>4 DEF LastOk
<1>12. Handed'
  <2>1. CASE step' = "run"
    <3>1. r.error = "none" /\ at' = at + 1 /\ data' = r.data
      BY <1>1, <2>1
    <3>2. nodes'[at' - 1] = node
      BY <1>1, <1>2, <3>1 DEF node
    <3> QED
      BY <1>4, <3>1, <3>2 DEF Handed
  <2>2. CASE step' = "failed"
    <3>1. at' = at /\ data' = data /\ nodes' = nodes
      BY <1>1, <2>2
    <3> QED
      BY <1>1, <3>1 DEF RunInv, Handed
  <2> QED
    BY <2>1, <2>2 DEF Handed
<1>13. ReportOk'
  <2>1. FromConfiguration' <=> FromConfiguration
    BY <1>1 DEF FromConfiguration
  <2>2. step' # "call" /\ report' = report /\ nodes' = nodes
    BY <1>1
  <2> QED
    BY <2>1, <2>2 DEF RunInv, ReportOk
<1> QED
  BY <1>8, <1>9, <1>10, <1>11, <1>12, <1>13 DEF RunInv

-----------------------------------------------------------------------------
(* Calls on a collection                                                   *)

\* What a program asks of a collection and what comes of it.
CallOf(op, res) ==
    \/ \E k \in CallKeys, v \in CallValues : op = "append" /\ res = AppendItem(ctx, Only(k, v))
    \/ \E k \in CallKeys, v \in CallValues : op = "set" /\ res = UpdateContext(ctx, k, v)
    \/ \E i \in 1 .. Len(ctx.items) + 1, k \in CallKeys, v \in CallValues :
         op = "setItem" /\ res = SetItemValue(ctx, i, k, v)
    \/ \E k \in CallKeys : op = "delete" /\ res = DeleteContext(ctx, k)
    \/ \E i \in 1 .. Len(ctx.items) + 1, k \in CallKeys :
         op = "deleteItem" /\ res = DeleteItemValue(ctx, i, k)
    \/ op = "clear" /\ res = Clear(ctx)
    \/ \E i \in DOMAIN ctx.items, k \in CallKeys, v \in CallValues :
         op = "slice" /\ res = WriteSlice(ctx, i, k, v)
    \/ \E i \in DOMAIN ctx.items, k \in CallKeys :
         op = "deleteInSlice" /\ res = DeleteInSlice(ctx, i, k)

Calls8 == AppendContext \/ Set \/ SetItem \/ DeleteKey \/ DeleteItem \/ ClearAll \/ WriteView \/ DeleteInView

LEMMA CallIs ==
    ASSUME Calls8
    PROVE  \E op, res : CallOf(op, res) /\ Call(op, res)
<1>1. CASE AppendContext
  <2>1. PICK k \in CallKeys, v \in CallValues : Call("append", AppendItem(ctx, Only(k, v)))
    BY <1>1 DEF AppendContext
  <2>2. CallOf("append", AppendItem(ctx, Only(k, v)))
    BY Zenon DEF CallOf
  <2> QED
    BY <2>1, <2>2
<1>2. CASE Set
  <2>1. PICK k \in CallKeys, v \in CallValues : Call("set", UpdateContext(ctx, k, v))
    BY <1>2 DEF Set
  <2>2. CallOf("set", UpdateContext(ctx, k, v))
    BY Zenon DEF CallOf
  <2> QED
    BY <2>1, <2>2
<1>3. CASE SetItem
  <2>1. PICK i \in 1 .. Len(ctx.items) + 1, k \in CallKeys, v \in CallValues :
          Call("setItem", SetItemValue(ctx, i, k, v))
    BY <1>3 DEF SetItem
  <2>2. CallOf("setItem", SetItemValue(ctx, i, k, v))
    BY Zenon DEF CallOf
  <2> QED
    BY <2>1, <2>2
<1>4. CASE DeleteKey
  <2>1. PICK k \in CallKeys : Call("delete", DeleteContext(ctx, k))
    BY <1>4 DEF DeleteKey
  <2>2. CallOf("delete", DeleteContext(ctx, k))
    BY Zenon DEF CallOf
  <2> QED
    BY <2>1, <2>2
<1>5. CASE DeleteItem
  <2>1. PICK i \in 1 .. Len(ctx.items) + 1, k \in CallKeys : Call("deleteItem", DeleteItemValue(ctx, i, k))
    BY <1>5 DEF DeleteItem
  <2>2. CallOf("deleteItem", DeleteItemValue(ctx, i, k))
    BY Zenon DEF CallOf
  <2> QED
    BY <2>1, <2>2
<1>6. CASE ClearAll
  BY <1>6, Zenon DEF ClearAll, CallOf
<1>7. CASE WriteView
  <2>1. PICK i \in DOMAIN ctx.items, k \in CallKeys, v \in CallValues :
          Call("slice", WriteSlice(ctx, i, k, v))
    BY <1>7 DEF WriteView
  <2>2. CallOf("slice", WriteSlice(ctx, i, k, v))
    BY Zenon DEF CallOf
  <2> QED
    BY <2>1, <2>2
<1>8. CASE DeleteInView
  <2>1. PICK i \in DOMAIN ctx.items, k \in CallKeys :
          Call("deleteInSlice", DeleteInSlice(ctx, i, k))
    BY <1>8 DEF DeleteInView
  <2>2. CallOf("deleteInSlice", DeleteInSlice(ctx, i, k))
    BY Zenon DEF CallOf
  <2> QED
    BY <2>1, <2>2
<1> QED
  BY <1>1, <1>2, <1>3, <1>4, <1>5, <1>6, <1>7, <1>8 DEF Calls8

\* What a call on a context leaves: a context of the same kind, with no new conflict.
StaysCoherent(c, d) == IsContext(d) /\ d.kind = c.kind /\ Conflicts(d) \subseteq Conflicts(c)

LEMMA FewerKeys ==
    ASSUME NEW c, NEW d, IsContext(d), d.kind = c.kind,
           DOMAIN d.global \subseteq DOMAIN c.global, ItemKeys(d) \subseteq ItemKeys(c)
    PROVE  StaysCoherent(c, d)
BY DEF StaysCoherent, Conflicts

LEMMA AppendStays ==
    ASSUME NEW c, IsContext(c), c.kind = "collection", NEW f, IsMapping(f)
    PROVE  IsContext(AppendItem(c, f).ctx) /\ AppendItem(c, f).ctx.kind = c.kind
<1> DEFINE t == Append(c.items, f)
           d == [kind |-> c.kind, global |-> c.global, items |-> t]
<1>1. AppendItem(c, f).ctx = d
  BY DEF AppendItem, Done, IsContext
<1>2. /\ IsSequence(t) /\ DOMAIN t = DOMAIN c.items \union {Len(c.items) + 1}
      /\ \A i \in DOMAIN c.items : t[i] = c.items[i]
      /\ t[Len(c.items) + 1] = f
  BY Appended DEF IsContext
<1> HIDE DEF t
<1>3. \A i \in DOMAIN t : IsMapping(t[i])
  BY <1>2 DEF IsContext
<1>4. IsContext(d)
  BY <1>2, <1>3, ContextOf DEF IsContext
<1> QED
  BY <1>1, <1>4

LEMMA SetStays ==
    ASSUME NEW c, IsContext(c), c.kind = "collection", NEW k, NEW v, IsValue(v)
    PROVE  StaysCoherent(c, SetValue(c, k, v).ctx)
<1> DEFINE d == SetValue(c, k, v).ctx
<1>1. IsContext(d) /\ d.kind = c.kind
  BY SetValueKeeps DEF Keeps
<1>2. CASE k \in DOMAIN c.global \/ (KeysError(c) = "none" /\ k \notin ItemKeys(c))
  <2>1. d = [kind |-> c.kind, global |-> With(c.global, k, v), items |-> c.items]
    BY <1>2 DEF SetValue, SetGlobal, Done, IsContext
  <2>2. DOMAIN With(c.global, k, v) = DOMAIN c.global \union {k}
    BY DEF With, Over, Only
  <2>3. ItemKeys(d) = ItemKeys(c) /\ DOMAIN d.global = DOMAIN c.global \union {k}
    BY <2>1, <2>2 DEF ItemKeys
  <2> HIDE DEF d
  <2>4. Conflicts(d) \subseteq Conflicts(c)
    BY <1>2, <2>3 DEF Conflicts
  <2> QED
    BY <1>1, <2>4 DEF StaysCoherent, d
<1>3. CASE k \notin DOMAIN c.global /\ KeysError(c) # "none"
  <2>1. d = c
    BY <1>3 DEF SetValue, Failed
  <2> QED
    BY <1>1, <2>1 DEF StaysCoherent
<1>4. CASE k \notin DOMAIN c.global /\ KeysError(c) = "none" /\ k \in ItemKeys(c)
  <2> DEFINE fs == [i \in DOMAIN c.items |-> With(c.items[i], k, v)]
  <2>1. d = [kind |-> c.kind, global |-> c.global, items |-> fs]
    BY <1>4 DEF SetValue, Done, IsContext
  <2>2. \A i \in DOMAIN c.items : DOMAIN fs[i] = DOMAIN c.items[i] \union {k}
    BY DEF With, Over, Only
  <2>3. DOMAIN fs = DOMAIN c.items
    OBVIOUS
  <2>4. d.global = c.global /\ d.items = fs
    BY <2>1
  <2> HIDE DEF d, fs
  <2>5. \A x : x \in ItemKeys(d) <=> \E i \in DOMAIN c.items : x \in DOMAIN fs[i]
    BY <2>3, <2>4 DEF ItemKeys
  <2>6. \A x : x \in ItemKeys(d) => x \in ItemKeys(c) \/ x = k
    BY <2>2, <2>5 DEF ItemKeys
  <2>7. Conflicts(d) \subseteq Conflicts(c)
    BY <1>4, <2>4, <2>6 DEF Conflicts
  <2> QED
    BY <1>1, <2>7 DEF StaysCoherent, d
<1> QED
  BY <1>2, <1>3, <1>4

\* One item that loses keys, or that gets one which is not global.
LEMMA ItemStays ==
    ASSUME NEW c, IsContext(c), NEW j \in DOMAIN c.items, NEW m, IsMapping(m),
           \A k \in DOMAIN m : k \in DOMAIN c.items[j] \/ k \notin DOMAIN c.global
    PROVE  StaysCoherent(c, [c EXCEPT !.items[j] = m])
<1> DEFINE d == [c EXCEPT !.items[j] = m]
<1>1. /\ IsContext(d) /\ d.kind = c.kind /\ d.global = c.global
      /\ DOMAIN d.items = DOMAIN c.items /\ d.items[j] = m
      /\ \A i \in DOMAIN c.items : i # j => d.items[i] = c.items[i]
  BY ItemWritten
<1> HIDE DEF d
<1>2. \A x : x \in ItemKeys(d) => x \in ItemKeys(c) \/ x \notin DOMAIN c.global
  BY <1>1 DEF ItemKeys
<1>3. Conflicts(d) \subseteq Conflicts(c)
  BY <1>1, <1>2 DEF Conflicts
<1> QED
  BY <1>1, <1>3 DEF StaysCoherent, d

LEMMA SetItemStays ==
    ASSUME NEW c, IsContext(c), NEW i, NEW k, NEW v, IsValue(v)
    PROVE  StaysCoherent(c, SetItemValue(c, i, k, v).ctx)
<1>1. CASE k \in DOMAIN c.global \/ i \notin DOMAIN c.items
  BY <1>1 DEF SetItemValue, Failed, StaysCoherent
<1>2. CASE k \notin DOMAIN c.global /\ i \in DOMAIN c.items
  <2> DEFINE m == With(c.items[i], k, v)
  <2>1. IsMapping(m)
    BY <1>2, MappingsStay DEF IsContext
  <2>2. DOMAIN m = DOMAIN c.items[i] \union {k}
    BY DEF With, Over, Only
  <2>3. SetItemValue(c, i, k, v).ctx = [c EXCEPT !.items[i] = m]
    BY <1>2 DEF SetItemValue, Done
  <2> HIDE DEF m
  <2> QED
    BY <1>2, <2>1, <2>2, <2>3, ItemStays
<1> QED
  BY <1>1, <1>2

LEMMA DeleteStays ==
    ASSUME NEW c, IsContext(c), NEW k
    PROVE  StaysCoherent(c, DeleteValue(c, k).ctx)
<1> DEFINE d == DeleteValue(c, k).ctx
<1>1. IsContext(d) /\ d.kind = c.kind
  BY DeleteValueKeeps DEF Keeps
<1>2. CASE k \notin Keys(c)
  BY <1>1, <1>2 DEF DeleteValue, Failed, StaysCoherent
<1>3. CASE k \in Keys(c)
  <2> DEFINE fs == [i \in DOMAIN c.items |-> Without(c.items[i], k)]
  <2>1. d.global = Without(c.global, k) /\ d.items = fs
    BY <1>3 DEF DeleteValue, Done, IsContext
  <2>2. DOMAIN fs = DOMAIN c.items /\ \A i \in DOMAIN c.items : DOMAIN fs[i] = DOMAIN c.items[i] \ {k}
    BY WithoutKey
  <2>3. DOMAIN d.global \subseteq DOMAIN c.global
    <3>1. DOMAIN Without(c.global, k) = DOMAIN c.global \ {k}
      BY WithoutKey
    <3> HIDE DEF d
    <3> QED
      BY <2>1, <3>1
  <2> HIDE DEF d, fs
  <2>4. ItemKeys(d) \subseteq ItemKeys(c)
    BY <2>1, <2>2 DEF ItemKeys
  <2> QED
    BY <1>1, <2>3, <2>4, FewerKeys DEF d
<1> QED
  BY <1>2, <1>3

LEMMA DeleteItemStays ==
    ASSUME NEW c, IsContext(c), NEW i, NEW k
    PROVE  /\ StaysCoherent(c, DeleteItemValue(c, i, k).ctx)
           /\ i \in DOMAIN c.items => StaysCoherent(c, DeleteInSlice(c, i, k).ctx)
<1>0. StaysCoherent(c, c)
  BY DEF StaysCoherent
<1>1. CASE i \in DOMAIN c.items /\ k \in DOMAIN c.items[i]
  <2> DEFINE m == Without(c.items[i], k)
  <2>1. IsMapping(m) /\ DOMAIN m \subseteq DOMAIN c.items[i]
    <3>1. IsMapping(m)
      BY <1>1, MappingsStay DEF IsContext
    <3>2. DOMAIN m = DOMAIN c.items[i] \ {k}
      BY WithoutKey
    <3> QED
      BY <3>1, <3>2
  <2>2. /\ DeleteItemValue(c, i, k).ctx = [c EXCEPT !.items[i] = m]
        /\ DeleteInSlice(c, i, k).ctx = [c EXCEPT !.items[i] = m]
    BY <1>1 DEF DeleteItemValue, DeleteInSlice, Done
  <2> HIDE DEF m
  <2>3. StaysCoherent(c, [c EXCEPT !.items[i] = m])
    BY <1>1, <2>1, ItemStays
  <2> QED
    BY <2>2, <2>3
<1>2. CASE i \notin DOMAIN c.items \/ k \notin DOMAIN c.items[i]
  BY <1>0, <1>2 DEF DeleteItemValue, DeleteInSlice, Failed
<1> QED
  BY <1>1, <1>2

LEMMA ClearStays ==
    ASSUME NEW c, IsContext(c)
    PROVE  StaysCoherent(c, Clear(c).ctx)
<1> DEFINE fs == [i \in DOMAIN c.items |-> NoKeys]
           d == [kind |-> c.kind, global |-> NoKeys, items |-> fs]
<1>1. Clear(c).ctx = d
  BY DEF Clear, Done, IsContext
<1>2. DOMAIN fs = DOMAIN c.items /\ fs = [i \in DOMAIN c.items |-> fs[i]]
      /\ \A i \in DOMAIN c.items : fs[i] = NoKeys
  OBVIOUS
<1> HIDE DEF fs
<1>3. IsMapping(NoKeys) /\ DOMAIN NoKeys = {}
  BY DEF IsMapping, NoKeys
<1>4. IsContext(d)
  BY <1>2, <1>3, ItemsKept
<1>5. d.global = NoKeys /\ d.kind = c.kind
  OBVIOUS
<1> HIDE DEF d
<1>6. Conflicts(d) = {}
  BY <1>3, <1>5 DEF Conflicts
<1> QED
  BY <1>1, <1>4, <1>5, <1>6 DEF StaysCoherent

LEMMA CallStays ==
    ASSUME RunInv, step = "call", NEW op, NEW res, CallOf(op, res)
    PROVE  /\ IsContext(res.ctx) /\ res.ctx.kind = "collection" /\ op # "node"
           /\ op \notin {"append", "slice"} => Conflicts(res.ctx) \subseteq Conflicts(ctx)
<1>0. IsContext(ctx) /\ ctx.kind = "collection"
  BY DEF RunInv, PayloadOk, PlaceOk
<1> USE NodeRunAssumption DEF NodeRunAssumption
<1>1. ASSUME NEW k \in CallKeys, NEW v \in CallValues, op = "append", res = AppendItem(ctx, Only(k, v))
      PROVE  IsContext(res.ctx) /\ res.ctx.kind = "collection"
  <2>1. IsMapping(Only(k, v))
    BY DEF Only, IsMapping
  <2> QED
    BY <1>0, <1>1, <2>1, AppendStays
<1>2. ASSUME NEW k \in CallKeys, NEW v \in CallValues, res = UpdateContext(ctx, k, v)
      PROVE  StaysCoherent(ctx, res.ctx)
  BY <1>0, <1>2, SetStays DEF UpdateContext
<1>3. ASSUME NEW i \in 1 .. Len(ctx.items) + 1, NEW k \in CallKeys, NEW v \in CallValues,
             res = SetItemValue(ctx, i, k, v)
      PROVE  StaysCoherent(ctx, res.ctx)
  BY <1>0, <1>3, SetItemStays
<1>4. ASSUME NEW k \in CallKeys, res = DeleteContext(ctx, k) PROVE StaysCoherent(ctx, res.ctx)
  BY <1>0, <1>4, DeleteStays DEF DeleteContext
<1>5. ASSUME NEW i \in 1 .. Len(ctx.items) + 1, NEW k \in CallKeys, res = DeleteItemValue(ctx, i, k)
      PROVE  StaysCoherent(ctx, res.ctx)
  BY <1>0, <1>5, DeleteItemStays
<1>6. ASSUME res = Clear(ctx) PROVE StaysCoherent(ctx, res.ctx)
  BY <1>0, <1>6, ClearStays
<1>7. ASSUME NEW i \in DOMAIN ctx.items, NEW k \in CallKeys, NEW v \in CallValues,
             op = "slice", res = WriteSlice(ctx, i, k, v)
      PROVE  IsContext(res.ctx) /\ res.ctx.kind = "collection"
  <2>1. res.ctx = [ctx EXCEPT !.items[i] = With(@, k, v)]
    BY <1>7 DEF WriteSlice, Done
  <2>2. Keeps(ctx, [ctx EXCEPT !.items[i] = With(@, k, v)], {k}, {})
    BY <1>0, ItemSet
  <2> QED
    BY <1>0, <2>1, <2>2 DEF Keeps
<1>8. ASSUME NEW i \in DOMAIN ctx.items, NEW k \in CallKeys, res = DeleteInSlice(ctx, i, k)
      PROVE  StaysCoherent(ctx, res.ctx)
  BY <1>0, <1>8, DeleteItemStays
<1>9. \/ op \in {"append", "slice"} /\ IsContext(res.ctx) /\ res.ctx.kind = "collection"
      \/ op # "node" /\ StaysCoherent(ctx, res.ctx)
  BY <1>1, <1>2, <1>3, <1>4, <1>5, <1>6, <1>7, <1>8 DEF CallOf
<1> QED
  BY <1>0, <1>9 DEF StaysCoherent

LEMMA CallStep ==
    ASSUME RunInv, Calls8
    PROVE  RunInv'
<1>1. PICK op, res : CallOf(op, res) /\ Call(op, res)
  BY CallIs
<1>2. /\ step = "call" /\ at <= MaxCalls /\ ctx' = res.ctx
      /\ last' = [NoLast EXCEPT !.op = op, !.error = res.error] /\ at' = at + 1
      /\ pipe' = pipe /\ nodes' = nodes /\ step' = step /\ report' = report
      /\ data' = data /\ trail' = trail
  BY <1>1 DEF Call
<1>3. IsContext(ctx') /\ ctx'.kind = "collection" /\ op # "node"
  BY <1>1, <1>2, CallStays
<1>4. last'.op = op /\ last'.calls = <<>>
  BY <1>2 DEF NoLast
<1>5. PipeOk'
  BY <1>2 DEF RunInv, PipeOk
<1>6. at' \in 1 .. MaxCalls + 1
  <2>1. at \in 1 .. MaxCalls + 1
    BY <1>2 DEF RunInv, PlaceOk
  <2> QED
    BY <1>2, <2>1, NodeRunAssumption DEF NodeRunAssumption
<1>7. PlaceOk'
  BY <1>2, <1>3, <1>4, <1>6 DEF RunInv, PlaceOk
<1>8. PayloadOk'
  <2>1. AreCalls(<<>>)
    BY DEF AreCalls, IsSequence, Range
  <2> QED
    BY <1>2, <1>3, <1>4, <2>1 DEF RunInv, PayloadOk
<1>9. LastOk' /\ Handed'
  BY <1>2, <1>3, <1>4 DEF LastOk, Handed
<1>10. ReportOk'
  BY <1>2 DEF RunInv, ReportOk
<1> QED
  BY <1>5, <1>7, <1>8, <1>9, <1>10 DEF RunInv

LEMMA NextKeeps == RunInv /\ [Next]_vars => RunInv'
<1> SUFFICES ASSUME RunInv, [Next]_vars PROVE RunInv'
  OBVIOUS
<1>1. CASE UNCHANGED vars
  <2> USE <1>1 DEF vars
  <2>1. PipeOk' /\ PlaceOk' /\ PayloadOk'
    BY DEF RunInv, PipeOk, PlaceOk, PayloadOk
  <2>2. LastOk' /\ Handed'
    BY DEF RunInv, LastOk, Handed
  <2>3. ReportOk'
    BY DEF RunInv, ReportOk, FromConfiguration
  <2> QED
    BY <2>1, <2>2, <2>3 DEF RunInv
<1>2. CASE Calls8
  BY <1>2, CallStep
<1> QED
  BY <1>1, <1>2, InspectStep, InstantiateStep, RunNodeStep DEF Next, Calls8

\* What every reachable state has in common: where the pipeline is, what was handed to the
\* node that runs next, and what the last node did to its context.
THEOREM RunInvariant == Spec => []RunInv
  BY RunInit, NextKeeps, PTL DEF Spec

\* The state keeps its types: the context is always a context, whatever nodes fail half-way,
\* the data have a type of the library, and code is only ever called with values.
THEOREM RunTypes == Spec => []TypeOK
<1>1. RunInv => TypeOK
  <2> SUFFICES ASSUME RunInv PROVE TypeOK
    OBVIOUS
  <2>1. DOMAIN nodes = DOMAIN pipe /\ Len(pipe) \in Nat /\ DOMAIN pipe = 1 .. Len(pipe)
    BY SequenceShape DEF RunInv, PipeOk
  <2>2. step = "run" => nodes[at].kind \in NodeKinds
    <3>1. step = "run" => at \in DOMAIN pipe /\ nodes[at].error = "none"
      BY <2>1 DEF RunInv, PlaceOk
    <3> QED
      BY <3>1, NodesAre DEF RunInv, NodeOk
  <2>3. at \in 1 .. (IF step = "call" THEN MaxCalls + 1 ELSE Len(pipe))
    BY DEF RunInv, PlaceOk
  <2>4. Len(trail) <= Len(pipe)
    <3>1. CASE step \in {"inspect", "instantiate", "refused", "call"}
      <4>1. trail = <<>>
        BY <3>1 DEF RunInv, PlaceOk
      <4> QED
        BY <2>1, <4>1
    <3>2. CASE step \in {"run", "failed", "done"}
      <4>1. at \in 1 .. Len(pipe) /\ (Len(trail) = at - 1 \/ Len(trail) = at)
        BY <3>2 DEF RunInv, PlaceOk
      <4> QED
        BY <2>1, <4>1
    <3> QED
      BY <3>1, <3>2 DEF RunInv, PlaceOk
  <2>5. /\ step \in {"inspect", "instantiate", "run", "refused", "failed", "done", "call"}
        /\ data.type \in Types /\ data.size \in Nat /\ IsContext(ctx)
        /\ \A i \in DOMAIN last.calls : \A k \in DOMAIN last.calls[i] :
             last.calls[i][k].kind \in Kinds
    BY DEF RunInv, PlaceOk, PayloadOk, DataOk, AreCalls
  <2> QED
    BY <2>1, <2>2, <2>3, <2>4, <2>5 DEF TypeOK, NodeKinds
<1> QED
  BY <1>1, RunInvariant, PTL

\* The last node of a pipeline that comes from a configuration.
LEMMA LastNode ==
    ASSUME RunInv, FromConfiguration, last.op = "node"
    PROVE  LET node == nodes[Len(trail)] IN
           /\ NodeOk(node) /\ node.kind \notin {"injector", "contextData"}
           /\ Len(trail) \in DOMAIN pipe
<1>1. Len(trail) \in DOMAIN pipe
  BY SequenceShape DEF RunInv, PipeOk, PlaceOk
<1>2. nodes[Len(trail)].error = "none"
  BY <1>1 DEF RunInv, PlaceOk
<1> QED
  BY <1>1, <1>2, NodesAre DEF RunInv, FromConfiguration

\* A node writes and deletes only what its class declares, in a context of any shape and even
\* when it fails half-way (_ValidatingContextObserver and the node classes).
THEOREM OnlyDeclared == Spec => []EffectsDeclared
<1>1. RunInv => EffectsDeclared
  <2> SUFFICES ASSUME RunInv, FromConfiguration, last.op = "node"
               PROVE  LET node == nodes[Len(trail)] IN
                      /\ Keys(ctx) \ Keys(last.before) \subseteq Created(node)
                      /\ Keys(last.before) \ Keys(ctx) \subseteq Suppressed(node)
    BY DEF EffectsDeclared
  <2>1. nodes[Len(trail)].kind \notin {"injector", "contextData"}
    BY LastNode
  <2>2. Keeps(last.before, ctx, Adds(nodes[Len(trail)]), Suppressed(nodes[Len(trail)]))
    BY DEF RunInv, LastOk
  <2>3. Adds(nodes[Len(trail)]) = Created(nodes[Len(trail)])
    BY <2>1 DEF Adds
  <2> QED
    BY <2>2, <2>3 DEF Keeps
<1> QED
  BY <1>1, RunInvariant, PTL

-----------------------------------------------------------------------------
(* The inspection walks over the nodes                                     *)

WalkedTo(w, ns, N) ==
    w = [i \in 0 .. N |-> IF i = 0 THEN NotInspected ELSE InspectNode(w[i - 1], ns[i])]

LEMMA WalkExists ==
    ASSUME NEW ns, NEW N \in Nat
    PROVE  \E w : WalkedTo(w, ns, N)
<1> DEFINE G == {n \in Nat : \E w : WalkedTo(w, ns, n)}
<1>1. 0 \in G
  <2> DEFINE w == [i \in 0 .. 0 |-> NotInspected]
  <2>1. WalkedTo(w, ns, 0)
    BY DEF WalkedTo
  <2> QED
    BY <2>1
<1>2. ASSUME NEW n \in 0 .. N - 1, n \in G PROVE n + 1 \in G
  <2>1. PICK w : WalkedTo(w, ns, n)
    BY <1>2
  <2> DEFINE g == [m \in 0 .. n + 1 |-> IF m = n + 1 THEN InspectNode(w[n], ns[m]) ELSE w[m]]
  <2>2. \A m \in 0 .. n + 1 : g[m] = IF m = 0 THEN NotInspected ELSE InspectNode(g[m - 1], ns[m])
    BY <2>1 DEF WalkedTo
  <2>3. g = [m \in 0 .. n + 1 |-> g[m]]
    OBVIOUS
  <2>4. WalkedTo(g, ns, n + 1)
    <3> HIDE DEF g
    <3> QED
      BY <2>2, <2>3 DEF WalkedTo
  <2> QED
    BY <2>4
<1>3. N \in G
  <2> HIDE DEF G
  <2> QED
    BY <1>1, <1>2, StepByStep
<1> QED
  BY <1>3

LEMMA InspectionWalk ==
    ASSUME NEW ns, Len(ns) \in Nat
    PROVE  \E w : /\ w[0] = NotInspected
                  /\ \A i \in 1 .. Len(ns) : w[i] = InspectNode(w[i - 1], ns[i])
                  /\ Inspection(ns).required = w[Len(ns)].required \ w[Len(ns)].created
                  /\ Inspection(ns).valid =>
                       /\ ~w[Len(ns)].errors
                       /\ \A i \in 1 .. Len(ns) - 1 : Compatible(ns[i], ns[i + 1])
<1> DEFINE W == CHOOSE w : WalkedTo(w, ns, Len(ns))
           valid == /\ ~W[Len(ns)].errors
                    /\ \A i \in 1 .. Len(ns) - 1 : Compatible(ns[i], ns[i + 1])
<1>1. WalkedTo(W, ns, Len(ns))
  BY WalkExists, Zenon
<1>2. Inspection(ns) = [required |-> W[Len(ns)].required \ W[Len(ns)].created, valid |-> valid]
  BY Zenon DEF Inspection, WalkedTo
<1> HIDE DEF W
<1>3. W[0] = NotInspected /\ \A i \in 1 .. Len(ns) : W[i] = InspectNode(W[i - 1], ns[i])
  BY <1>1 DEF WalkedTo
<1>4. Inspection(ns).required = W[Len(ns)].required \ W[Len(ns)].created
  BY <1>2
<1>5. Inspection(ns).valid = valid
  <2> HIDE DEF valid
  <2> QED
    BY <1>2
<1>6. Inspection(ns).valid => valid
  <2> HIDE DEF valid
  <2> QED
    BY <1>5, Zenon
<1> QED
  BY <1>3, <1>4, <1>6

LEMMA SubTransitive ==
    ASSUME NEW t, NEW u, NEW v, Sub(t, u), Sub(u, v)
    PROVE  Sub(t, v)
BY DEF Sub

\* Behind a node with types, a validated pipeline never meets data that the next node refuses
\* (_validate_data_flow_compatibility and the type gate of _PayloadProcessor.process).
THEOREM GatesForetold == Spec => []TypeErrorsExplained
<1>1. RunInv => TypeErrorsExplained
  <2> SUFFICES ASSUME RunInv, step = "failed", report.valid, last.error = "gate",
                      at # 1, ~IsContextNode(nodes[at - 1])
               PROVE  FALSE
    BY DEF TypeErrorsExplained
  <2>1. /\ last.op = "node" /\ Len(trail) = at /\ at \in 1 .. Len(pipe)
        /\ \A i \in DOMAIN pipe : nodes[i].error = "none"
        /\ FromConfiguration /\ Inspection(nodes).valid
    BY DEF RunInv, PlaceOk, ReportOk
  <2>2. Len(pipe) \in Nat /\ DOMAIN pipe = 1 .. Len(pipe) /\ DOMAIN nodes = 1 .. Len(pipe)
    BY SequenceShape DEF RunInv, PipeOk
  <2>3. Len(nodes) = Len(pipe)
    <3>1. nodes = [i \in 1 .. Len(pipe) |-> nodes[i]]
      BY <2>2 DEF RunInv, PipeOk
    <3> QED
      BY <2>2, <3>1, SequenceOf1
  <2>4. \A i \in 1 .. Len(nodes) - 1 : Compatible(nodes[i], nodes[i + 1])
    BY <2>1, <2>2, <2>3, InspectionWalk
  <2> DEFINE a == nodes[at - 1]
             b == nodes[at]
  <2>5. at - 1 \in 1 .. Len(pipe) - 1 /\ (at - 1) + 1 = at /\ at - 1 \in DOMAIN pipe /\ at > 1
        /\ at \in DOMAIN pipe
    BY <2>1, <2>2
  <2>6. ~IsContextNode(b) /\ ~Sub(data.type, b.class.in)
    BY <2>1 DEF RunInv, LastOk
  <2>7. a.kind # "injector"
    BY <2>1, <2>5, NodesAre DEF RunInv, FromConfiguration
  <2>8. Sub(data.type, a.class.out)
    BY <2>5, <2>7 DEF RunInv, Handed
  <2>9. Compatible(a, b)
    BY <2>3, <2>4, <2>5
  <2>10. Sub(a.class.out, b.class.in)
    BY <2>1, <2>5, <2>6, <2>9 DEF Compatible
  <2> QED
    BY <2>6, <2>8, <2>10, SubTransitive
<1> QED
  BY <1>1, RunInvariant, PTL

-----------------------------------------------------------------------------
(* What the trace says of a node before it runs                            *)

\* In a single context every name is found or lacking; none is in conflict.
LEMMA SingleReads ==
    ASSUME NEW c, IsContext(c), c.kind = "single"
    PROVE  /\ Keys(c) = DOMAIN c.global /\ View(c) = DOMAIN c.global /\ KeysError(c) = "none"
           /\ \A k \in DOMAIN c.global : GetValue(c, k) = Value(c.global[k])
<1>1. DOMAIN c.items = {}
  BY DEF IsContext
<1>2. ItemKeys(c) = {} /\ Conflicts(c) = {}
  BY <1>1 DEF ItemKeys, Conflicts
<1>3. \A k \in DOMAIN c.global : GetValue(c, k) = Value(c.global[k])
  BY <1>1 DEF GetValue
<1> QED
  BY <1>2, <1>3 DEF Keys, View, KeysError

LEMMA SingleResolves ==
    ASSUME NEW c, ClassOk(c), NEW config, IsMapping(config), NEW ctx0, IsContext(ctx0),
           ctx0.kind = "single", NEW n
    PROVE  LET r == Resolve(n, c, config, ctx0) IN
           /\ r.error \in {"none", "missing"}
           /\ r.error = "missing" <=> n \notin DOMAIN config /\ n \notin DOMAIN ctx0.global
                                      /\ ~HasDefault(c, n)
           /\ n \in DOMAIN config => r.value = config[n]
           /\ n \notin DOMAIN config /\ n \in DOMAIN ctx0.global => r.value = ctx0.global[n]
BY SingleReads DEF Resolve, Value, NoValue

\* Which error the parameters of a call have, when none of them can be in conflict.
LEMMA MissingOnly ==
    ASSUME NEW c, NEW config, NEW ctx0,
           \A n \in c.names : Resolve(n, c, config, ctx0).error \in {"none", "missing"},
           NEW m \in c.names, Resolve(m, c, config, ctx0).error = "missing"
    PROVE  Parameters(c, config, ctx0).error = "missing"
<1> DEFINE found == [name \in c.names |-> Resolve(name, c, config, ctx0)]
           failing == {name \in c.names : found[name].error # "none"}
<1>1. Parameters(c, config, ctx0).error =
        IF failing = {} THEN "none" ELSE found[CHOOSE name \in failing : TRUE].error
  BY DEF Parameters
<1>2. m \in failing /\ \A n \in failing : found[n].error = "missing"
  OBVIOUS
<1> HIDE DEF failing, found
<1>3. (CHOOSE name \in failing : TRUE) \in failing
  BY <1>2, Zenon
<1> QED
  BY <1>1, <1>2, <1>3

\* The pre-checks and parameter sources of the trace tell what the node then does, in a single
\* context; in a collection the check cannot pass (_build_pre_checks,
\* _resolve_params_with_sources and ContextCollectionType.to_dict).
THEOREM TraceForetells == Spec => []PreCheckForetells
<1>1. RunInv => PreCheckForetells
  <2> SUFFICES ASSUME RunInv, FromConfiguration, last.op = "node"
               PROVE  LET node == nodes[Len(trail)]
                          args == Parameters(node.class, node.config, last.before).args
                      IN  IF last.before.kind = "collection" THEN last.passed <=> RequiredKeys(node) = {}
                          ELSE /\ last.passed => last.missing = {}
                               /\ ~last.passed => last.error \in {"missing", "gate"}
                               /\ \A n \in DOMAIN last.sources \intersect node.class.names :
                                    args[n] = IF last.sources[n] = "node" THEN node.config[n]
                                              ELSE last.before.global[n]
    BY DEF PreCheckForetells
  <2> DEFINE node == nodes[Len(trail)]
             c == node.class
             config == node.config
             old == last.before
             p == Parameters(c, config, old)
  <2>1. NodeOk(node) /\ node.kind \notin {"injector", "contextData"}
    BY LastNode
  <2>2. /\ IsContext(old) /\ (last.passed <=> KeysPresent(node, old))
        /\ last.sources = Sources(node, old)
        /\ Answered([error |-> last.error, missing |-> last.missing, ctx |-> ctx], node, old)
    BY <2>1 DEF RunInv, LastOk
  <2>3. ClassOk(c) /\ IsMapping(config)
    BY <2>1 DEF NodeOk
  <2> HIDE DEF node, old
  <2>4. \A n : n \in RequiredKeys(node) <=> n \in c.names /\ n \notin DOMAIN config /\ ~HasDefault(c, n)
    BY DEF RequiredKeys
  <2>5. /\ p.error = "none" => p.missing = {}
        /\ \A n \in DOMAIN p.args : p.args[n] = Resolve(n, c, config, old).value
        /\ \A n \in p.missing : n \in c.names /\ Resolve(n, c, config, old).error = "missing"
        /\ \A n \in c.names : Resolve(n, c, config, old).error = "none" => n \in DOMAIN p.args
    BY <2>2, <2>3, ParametersOk
  <2>6. \/ last.error = "gate" /\ last.missing = {}
        \/ p.error # "none" /\ last.error = p.error /\ last.missing = p.missing
        \/ p.error = "none" /\ last.missing = {}
    BY <2>2 DEF Answered
  <2> HIDE DEF p
  <2>7. CASE old.kind = "collection"
    <3>1. View(old) = Entries
      BY <2>7 DEF View
    <3>2. c.names \intersect Entries = {}
      BY <2>3 DEF ClassOk
    <3>3. RequiredKeys(node) \subseteq c.names
      BY <2>4
    <3>4. last.passed <=> RequiredKeys(node) = {}
      BY <2>2, <3>1, <3>2, <3>3 DEF KeysPresent
    <3> QED
      BY <2>7, <3>4 DEF node, old
  <2>8. CASE old.kind # "collection"
    <3>1. old.kind = "single"
      BY <2>2, <2>8 DEF IsContext
    <3>2. View(old) = DOMAIN old.global
      BY <2>2, <3>1, SingleReads
    <3>3. \A n : /\ Resolve(n, c, config, old).error \in {"none", "missing"}
                 /\ Resolve(n, c, config, old).error = "missing" <=>
                      n \notin DOMAIN config /\ n \notin DOMAIN old.global /\ ~HasDefault(c, n)
                 /\ n \in DOMAIN config => Resolve(n, c, config, old).value = config[n]
                 /\ n \notin DOMAIN config /\ n \in DOMAIN old.global =>
                      Resolve(n, c, config, old).value = old.global[n]
      BY <2>2, <2>3, <3>1, SingleResolves
    <3>4. last.passed => last.missing = {}
      <4> SUFFICES ASSUME last.passed, NEW n \in p.missing PROVE FALSE
        BY <2>6, <2>5
      <4>1. n \in RequiredKeys(node) /\ n \notin DOMAIN old.global
        BY <2>4, <2>5, <3>3
      <4> QED
        BY <2>2, <3>2, <4>1 DEF KeysPresent
    <3>5. ~last.passed => last.error \in {"missing", "gate"}
      <4> SUFFICES ASSUME ~last.passed, last.error # "gate" PROVE last.error = "missing"
        OBVIOUS
      <4>1. PICK m : m \in RequiredKeys(node) /\ m \notin DOMAIN old.global
        BY <2>2, <3>2 DEF KeysPresent
      <4>2. m \in c.names /\ Resolve(m, c, config, old).error = "missing"
        BY <2>4, <3>3, <4>1
      <4>3. p.error = "missing"
        BY <3>3, <4>2, MissingOnly DEF p
      <4> QED
        BY <2>6, <4>3
    <3>6. ASSUME NEW n \in DOMAIN last.sources \intersect c.names
          PROVE  p.args[n] = IF last.sources[n] = "node" THEN config[n] ELSE old.global[n]
      <4>1. n \in DOMAIN config \/ n \in DOMAIN old.global
        BY <2>2, <3>2 DEF Sources
      <4>2. last.sources[n] = IF n \in DOMAIN config THEN "node" ELSE "context"
        BY <2>2 DEF Sources
      <4>3. Resolve(n, c, config, old).error = "none"
        BY <3>3, <4>1
      <4>4. p.args[n] = Resolve(n, c, config, old).value
        BY <2>5, <4>3
      <4> QED
        BY <3>3, <4>1, <4>2, <4>4
    <3> QED
      BY <2>8, <3>4, <3>5, <3>6 DEF node, old, p
  <2> QED
    BY <2>7, <2>8
<1> QED
  BY <1>1, RunInvariant, PTL

-----------------------------------------------------------------------------
(* Three ways to read a collection                                         *)

\* Values, items and slices of a collection without conflicts agree.
Coherent(c) ==
    \A i \in DOMAIN c.items :
        /\ GetItem(c, i) = Value(Slice(c, i))
        /\ \A k \in Keys(c) :
             LET v == GetValue(c, k) IN
             /\ v.error = "none"
             /\ At(Slice(c, i), k) =
                  IF k \in DOMAIN c.global THEN v.value
                  ELSE IF v.value = None THEN None ELSE v.value.of[i]

LEMMA CoherentReads ==
    ASSUME NEW c, IsContext(c), Conflicts(c) = {}
    PROVE  Coherent(c)
<1> SUFFICES ASSUME NEW i \in DOMAIN c.items
             PROVE  /\ GetItem(c, i) = Value(Slice(c, i))
                    /\ \A k \in Keys(c) :
                         LET v == GetValue(c, k) IN
                         /\ v.error = "none"
                         /\ At(Slice(c, i), k) =
                              IF k \in DOMAIN c.global THEN v.value
                              ELSE IF v.value = None THEN None ELSE v.value.of[i]
  BY DEF Coherent
<1>1. \A k, j : j \in DOMAIN c.items /\ k \in DOMAIN c.items[j] => k \notin DOMAIN c.global
  BY DEF Conflicts, ItemKeys
<1>2. GetItem(c, i) = Value(Slice(c, i))
  <2>1. DOMAIN c.items[i] \intersect DOMAIN c.global = {}
    BY <1>1
  <2> QED
    BY <2>1 DEF GetItem, Slice
<1>3. ASSUME NEW k \in Keys(c)
      PROVE  LET v == GetValue(c, k) IN
             /\ v.error = "none"
             /\ At(Slice(c, i), k) =
                  IF k \in DOMAIN c.global THEN v.value
                  ELSE IF v.value = None THEN None ELSE v.value.of[i]
  <2> DEFINE own == [j \in DOMAIN c.items |-> At(c.items[j], k)]
             held == \E j \in DOMAIN own : own[j] # None
             s == Slice(c, i)
  <2>1. DOMAIN own = DOMAIN c.items /\ \A j \in DOMAIN own : own[j] = At(c.items[j], k)
    OBVIOUS
  <2>2. /\ DOMAIN s = DOMAIN c.items[i] \union DOMAIN c.global
        /\ \A x \in DOMAIN s : s[x] = IF x \in DOMAIN c.items[i] THEN c.items[i][x] ELSE c.global[x]
    BY DEF Slice, Over
  <2>3. GetValue(c, k) = IF k \in DOMAIN c.global
                         THEN IF held THEN NoValue("value") ELSE Value(c.global[k])
                         ELSE IF held THEN Value(List(own)) ELSE Value(None)
    BY DEF GetValue
  <2>4. At(s, k) = IF k \in DOMAIN s THEN s[k] ELSE None
    BY DEF At
  <2> HIDE DEF own, s
  <2>5. CASE k \in DOMAIN c.global
    <3>1. ~held
      BY <1>1, <2>1, <2>5 DEF At
    <3>2. GetValue(c, k) = Value(c.global[k]) /\ At(s, k) = c.global[k]
      BY <1>1, <2>2, <2>3, <2>4, <2>5, <3>1
    <3> QED
      BY <2>5, <3>2 DEF Value, s
  <2>6. CASE k \notin DOMAIN c.global
    <3>1. At(s, k) = own[i]
      BY <2>1, <2>2, <2>4, <2>6 DEF At
    <3>2. CASE held
      <4>1. GetValue(c, k) = Value(List(own))
        BY <2>3, <2>6, <3>2
      <4>2. List(own) # None /\ List(own).of = own
        BY DEF List, None
      <4> QED
        BY <2>6, <3>1, <4>1, <4>2 DEF Value, s
    <3>3. CASE ~held
      <4>1. GetValue(c, k) = Value(None) /\ own[i] = None
        BY <2>1, <2>3, <2>6, <3>3
      <4> QED
        BY <2>6, <3>1, <4>1 DEF Value, s
    <3> QED
      BY <3>2, <3>3
  <2> QED
    BY <2>5, <2>6
<1> QED
  BY <1>2, <1>3

\* A conflict of keys comes only from an appended context or a slice that is written, and
\* without one the readings of a collection agree (ContextCollectionType, _ContextObserver).
THEOREM CollectionsCohere == Spec => CollectionCoherent
<1>1. RunInv /\ RunInv' /\ [Next]_vars =>
        [/\ step = "call" /\ last'.op \notin {"append", "slice"} =>
                Conflicts(ctx') \subseteq Conflicts(ctx)
         /\ ctx'.kind = "collection" /\ Conflicts(ctx') = {} =>
                \A i \in DOMAIN ctx'.items :
                    /\ GetItem(ctx', i) = Value(Slice(ctx', i))
                    /\ \A k \in Keys(ctx') :
                         LET v == GetValue(ctx', k) IN
                         /\ v.error = "none"
                         /\ At(Slice(ctx', i), k) =
                              IF k \in DOMAIN ctx'.global THEN v.value
                              ELSE IF v.value = None THEN None ELSE v.value.of[i]]_vars
  <2> SUFFICES ASSUME RunInv, RunInv', Next
               PROVE  /\ step = "call" /\ last'.op \notin {"append", "slice"} =>
                           Conflicts(ctx') \subseteq Conflicts(ctx)
                      /\ ctx'.kind = "collection" /\ Conflicts(ctx') = {} => Coherent(ctx')
    BY DEF Coherent
  <2>1. ctx'.kind = "collection" /\ Conflicts(ctx') = {} => Coherent(ctx')
    <3>1. IsContext(ctx')
      BY DEF RunInv, PayloadOk
    <3> QED
      BY <3>1, CoherentReads
  <2>2. ASSUME step = "call", last'.op \notin {"append", "slice"}
        PROVE  Conflicts(ctx') \subseteq Conflicts(ctx)
    <3>1. Calls8
      BY <2>2 DEF Next, Calls8, Inspect, Instantiate, RunNode
    <3>2. PICK op, res : CallOf(op, res) /\ Call(op, res)
      BY <3>1, CallIs
    <3>3. last'.op = op /\ ctx' = res.ctx
      BY <3>2 DEF Call, NoLast
    <3> QED
      BY <2>2, <3>2, <3>3, CallStays
  <2> QED
    BY <2>1, <2>2
<1> QED
  BY <1>1, RunInvariant, PTL DEF Spec, CollectionCoherent

-----------------------------------------------------------------------------
(* Parameters that nobody provides, in a validated pipeline                *)

\* A set of naturals that is bounded and not empty has a greatest element.
LEMMA Greatest ==
    ASSUME NEW N \in Nat, NEW S \in SUBSET (1 .. N), S # {}
    PROVE  \E n \in S : \A m \in S : m <= n
<1> DEFINE T == {N - n : n \in S}
<1>1. T \in SUBSET Nat /\ T # {}
  <2>1. PICK n \in S : TRUE
    OBVIOUS
  <2>2. N - n \in T
    OBVIOUS
  <2>3. \A m \in S : N - m \in Nat
    OBVIOUS
  <2> QED
    BY <2>2, <2>3
<1>2. PICK t \in T : \A m \in T : t <= m
  <2> HIDE DEF T
  <2> QED
    BY <1>1, Least
<1>3. PICK n \in S : t = N - n
  OBVIOUS
<1>4. ASSUME NEW m \in S PROVE m <= n
  <2>1. N - m \in T
    OBVIOUS
  <2>2. N - n <= N - m
    BY <1>2, <1>3, <2>1
  <2> QED
    BY <2>2
<1> QED
  BY <1>4

\* What is handed on from each step to the next one holds from any step on.
LEMMA StepsFrom ==
    ASSUME NEW N \in Nat, NEW i \in 0 .. N, NEW G, i \in G,
           \A n \in i .. N - 1 : n \in G => n + 1 \in G
    PROVE  \A n \in i .. N : n \in G
<1> DEFINE H == {n \in Nat : n < i \/ n \in G}
<1>1. 0 \in H
  OBVIOUS
<1>2. ASSUME NEW n \in 0 .. N - 1, n \in H PROVE n + 1 \in H
  <2>1. CASE n + 1 < i
    BY <2>1
  <2>2. CASE n + 1 = i
    BY <2>2
  <2>3. CASE n \in i .. N - 1
    BY <1>2, <2>3
  <2> QED
    BY <2>1, <2>2, <2>3
<1>3. \A n \in 0 .. N : n \in H
  <2> HIDE DEF H
  <2> QED
    BY <1>1, <1>2, StepByStep
<1>4. ASSUME NEW n \in i .. N PROVE n \in G
  <2>1. n \in 0 .. N /\ ~(n < i)
    OBVIOUS
  <2> QED
    BY <1>3, <2>1
<1> QED
  BY <1>4

\* A key is still there, or a node from i to j may have deleted it.
Left(ns, k, i, j) == \E m \in i .. j : k \in Suppressed(ns[m])

\* The context that the node which runs next is given; after a failure, that it was given.
Before == IF step = "failed" THEN last.before ELSE ctx

\* The required keys that the payload had, and the keys that were written, went on to the
\* node that runs next, or a node in between declares that it deletes them.
Supplied ==
    step \in {"instantiate", "run", "failed"} /\ report.valid /\ report.supplied =>
        \A k \in Inspection(nodes).required : k \in Keys(Before) \/ Left(nodes, k, 1, at - 1)
Written ==
    step \in {"run", "failed"} =>
        \A j \in 1 .. at - 1 : \A k \in trail[j] : k \in Keys(Before) \/ Left(nodes, k, j + 1, at - 1)

LEMMA NothingYet ==
    ASSUME Init PROVE Supplied /\ Written
<1>1. step \in {"inspect", "call"}
  BY DEF Init
<1> QED
  BY <1>1 DEF Supplied, Written

LEMMA RunNodeHandsOn ==
    ASSUME RunInv, Supplied, Written, RunNode
    PROVE  Supplied' /\ Written'
<1> DEFINE node == nodes[at]
           r == Process(node, data, ctx)
<1>1. /\ step = "run" /\ ctx' = r.ctx /\ trail' = Append(trail, Keys(r.ctx)) /\ last'.before = ctx
      /\ IF r.error # "none" THEN step' = "failed" /\ at' = at
         ELSE IF at = Len(pipe) THEN step' = "done" /\ at' = at
         ELSE step' = step /\ at' = at + 1
      /\ nodes' = nodes /\ report' = report
  BY DEF RunNode
<1>2. /\ Len(pipe) \in Nat /\ DOMAIN pipe = 1 .. Len(pipe) /\ at \in 1 .. Len(pipe)
      /\ IsSequence(trail) /\ Len(trail) = at - 1
      /\ \A i \in DOMAIN pipe : nodes[i].error = "none"
  BY <1>1, SequenceShape DEF RunInv, PipeOk, PlaceOk
<1>3. Keys(ctx) \ Keys(r.ctx) \subseteq Suppressed(node)
  <2>1. NodeOk(node)
    BY <1>2, NodesAre DEF RunInv
  <2> HIDE DEF node
  <2>2. Keeps(ctx, r.ctx, Adds(node), Suppressed(node))
    BY <2>1, ProcessOk DEF RunInv, PayloadOk
  <2> QED
    BY <2>2 DEF Keeps
<1> HIDE DEF r
<1>4. /\ \A j \in 1 .. at - 1 : trail'[j] = trail[j]
      /\ trail'[at] = Keys(r.ctx)
  <2>1. DOMAIN trail = 1 .. at - 1 /\ Len(trail) + 1 = at
    BY <1>2, SequenceShape
  <2>2. /\ \A i \in DOMAIN trail : Append(trail, Keys(r.ctx))[i] = trail[i]
        /\ Append(trail, Keys(r.ctx))[Len(trail) + 1] = Keys(r.ctx)
    BY <1>2, Appended
  <2> QED
    BY <1>1, <2>1, <2>2
<1>5. Before = ctx
  BY <1>1 DEF Before
<1>6. CASE step' = "failed"
  <2>1. at' = at /\ Before' = ctx /\ nodes' = nodes
    BY <1>1, <1>6 DEF Before, Left
  <2>2. Supplied'
    BY <1>1, <1>5, <1>6, <2>1 DEF Supplied
  <2>3. Written'
    BY <1>1, <1>4, <1>5, <2>1 DEF Written
  <2> QED
    BY <2>2, <2>3
<1>7. CASE step' = "run"
  <2>1. at' = at + 1 /\ at' - 1 = at /\ Before' = r.ctx /\ nodes' = nodes
    <3>1. at' = at + 1 /\ nodes' = nodes
      BY <1>1, <1>7
    <3>2. Before' = r.ctx
      BY <1>1, <1>7 DEF Before
    <3>3. (at + 1) - 1 = at
      BY <1>2
    <3> QED
      BY <3>1, <3>2, <3>3
  <2>2. ASSUME NEW k, NEW i \in 1 .. at, k \in Keys(ctx) \/ Left(nodes, k, i, at - 1)
        PROVE  k \in Keys(Before') \/ Left(nodes, k, i, at' - 1)
    <3>1. CASE Left(nodes, k, i, at - 1)
      <4>1. PICK m \in i .. at - 1 : k \in Suppressed(nodes[m])
        BY <3>1 DEF Left
      <4>2. m \in i .. at' - 1
        BY <1>2, <2>1
      <4> QED
        BY <2>1, <4>1, <4>2 DEF Left
    <3>2. CASE k \in Keys(ctx) /\ k \notin Keys(r.ctx)
      <4>1. k \in Suppressed(nodes[at])
        BY <1>3, <3>2
      <4>2. at \in i .. at' - 1
        BY <1>2, <2>1
      <4> QED
        BY <2>1, <4>1, <4>2 DEF Left
    <3>3. CASE k \in Keys(r.ctx)
      BY <2>1, <3>3
    <3> QED
      BY <2>2, <3>1, <3>2, <3>3
  <2>3. Supplied'
    <3>1. SUFFICES ASSUME report.valid, report.supplied, NEW k \in Inspection(nodes).required
                   PROVE  k \in Keys(Before') \/ Left(nodes, k, 1, at' - 1)
      BY <1>1 DEF Supplied
    <3>2. k \in Keys(ctx) \/ Left(nodes, k, 1, at - 1)
      BY <1>1, <1>5, <3>1 DEF Supplied
    <3> QED
      BY <1>2, <2>2, <3>2
  <2>4. Written'
    <3>1. SUFFICES ASSUME NEW j \in 1 .. at, NEW k \in trail'[j]
                   PROVE  k \in Keys(Before') \/ Left(nodes, k, j + 1, at' - 1)
      BY <2>1 DEF Written
    <3>2. CASE j = at
      BY <1>4, <2>1, <3>2
    <3>3. CASE j \in 1 .. at - 1
      <4>1. k \in Keys(ctx) \/ Left(nodes, k, j + 1, at - 1)
        BY <1>1, <1>4, <1>5, <3>3 DEF Written
      <4>2. j + 1 \in 1 .. at
        BY <1>2, <3>3
      <4> QED
        BY <2>2, <4>1, <4>2
    <3> QED
      BY <1>2, <3>2, <3>3
  <2> QED
    BY <2>3, <2>4
<1>8. CASE step' = "done"
  BY <1>8 DEF Supplied, Written
<1> QED
  BY <1>1, <1>6, <1>7, <1>8

LEMMA HandedOn == RunInv /\ Supplied /\ Written /\ [Next]_vars => Supplied' /\ Written'
<1> SUFFICES ASSUME RunInv, Supplied, Written, [Next]_vars PROVE Supplied' /\ Written'
  OBVIOUS
<1>1. CASE UNCHANGED vars
  BY <1>1 DEF vars, Supplied, Written, Before, Left
<1>2. CASE Inspect
  <2>1. /\ step' = "instantiate" /\ nodes' = nodes /\ ctx' = ctx
        /\ report'.supplied = (Inspection(nodes).required \subseteq Keys(ctx))
    BY <1>2 DEF Inspect
  <2>2. Before' = ctx
    BY <2>1 DEF Before
  <2> QED
    BY <2>1, <2>2 DEF Supplied, Written
<1>3. CASE Instantiate
  <2>1. /\ step' \in {"refused", "run"} /\ nodes' = nodes /\ ctx' = ctx /\ at' = at /\ at = 1
        /\ report' = report /\ trail' = trail /\ step \in {"inspect", "instantiate"}
    BY <1>3 DEF Instantiate, RunInv, PlaceOk
  <2>2. report.valid => step = "instantiate"
    BY <1>3 DEF Instantiate, RunInv, ReportOk
  <2>3. Before = ctx /\ Before' = ctx
    BY <2>1 DEF Before
  <2>4. Supplied'
    BY <2>1, <2>2, <2>3 DEF Supplied, Left
  <2>5. Written'
    BY <2>1 DEF Written
  <2> QED
    BY <2>4, <2>5
<1>4. CASE RunNode
  BY <1>4, RunNodeHandsOn
<1>5. CASE Calls8
  <2>1. step' = "call"
    BY <1>5 DEF Calls8, AppendContext, Set, SetItem, DeleteKey, DeleteItem, ClearAll, WriteView,
                DeleteInView, Call
  <2> QED
    BY <2>1 DEF Supplied, Written
<1> QED
  BY <1>1, <1>2, <1>3, <1>4, <1>5 DEF Next, Calls8

\* The inspection of nodes that are all there: what each step makes of the one before.
LEMMA WalkOn ==
    ASSUME NEW w, NEW node, node.error = "none", NEW v, v = InspectNode(w, node)
    PROVE  /\ v.made = w.made \union Created(node) /\ v.created = w.created \union Created(node)
           /\ v.deleted = (w.deleted \ Created(node)) \union Suppressed(node)
           /\ v.required = w.required \union Needs(node, w)
           /\ w.errors => v.errors
           /\ \A k : k \in Needs(node, w) /\ k \in v.deleted /\ k \notin Suppressed(node)
                     /\ k \notin Configured(node, w) => v.errors
<1> DEFINE deleted == (w.deleted \ Created(node)) \union Suppressed(node)
           gone == (Needs(node, w) \intersect deleted) \ Suppressed(node)
           wrong == w.errors \/ ~(gone \subseteq Configured(node, w))
<1>1. v = [made |-> w.made \union Created(node), deleted |-> deleted,
           required |-> w.required \union Needs(node, w),
           created |-> w.created \union Created(node), errors |-> wrong]
  BY DEF InspectNode
<1>2. v.errors = wrong
  <2> HIDE DEF wrong
  <2> QED
    BY <1>1
<1>3. v.deleted = deleted /\ v.made = w.made \union Created(node)
      /\ v.created = w.created \union Created(node) /\ v.required = w.required \union Needs(node, w)
  <2> HIDE DEF wrong
  <2> QED
    BY <1>1
<1>4. wrong => v.errors
  <2> HIDE DEF wrong
  <2> QED
    BY <1>2, Zenon
<1>5. w.errors => v.errors
  BY <1>4, Zenon
<1>6. \A k : k \in Needs(node, w) /\ k \in v.deleted /\ k \notin Suppressed(node)
             /\ k \notin Configured(node, w) => v.errors
  BY <1>3, <1>4, Zenon
<1> QED
  BY <1>3, <1>5, <1>6

\* A name that nothing provides is needed from the context, whatever was created or deleted.
LEMMA NeededHere ==
    ASSUME NEW node, ClassOk(node.class), NEW k \in node.class.names, k \notin DOMAIN node.config,
           ~HasDefault(node.class, k), NEW w
    PROVE  k \in Needs(node, w) /\ k \notin Configured(node, w)
<1>1. k \in Details(node.class)
  BY DEF Details, ClassOk
<1>2. Origin(k, node.class, node.config, w.made, w.deleted) \in {"context", "required"}
  BY DEF Origin
<1> QED
  BY <1>1, <1>2 DEF Needs, Configured

\* The argument: a parameter that is missing at node t, in a pipeline of N nodes whose walk w
\* found no errors. Nothing from t on creates it, and what created it before wrote it.
LEMMA MissingWhy ==
    ASSUME NEW N \in Nat, NEW t \in 1 .. N, NEW ns, \A i \in 1 .. N : ns[i].error = "none",
           NEW w, w[0] = NotInspected, \A i \in 1 .. N : w[i] = InspectNode(w[i - 1], ns[i]),
           ~w[N].errors,
           NEW k, ClassOk(ns[t].class), k \in ns[t].class.names, k \notin DOMAIN ns[t].config,
           ~HasDefault(ns[t].class, k),
           k \in w[N].required \ w[N].created => Left(ns, k, 1, t - 1),
           \A j \in 1 .. t - 1 : k \in Created(ns[j]) => Left(ns, k, j + 1, t - 1),
           \A j \in t .. N : k \notin Created(ns[j])
    PROVE  k \in Suppressed(ns[t]) /\ Left(ns, k, 1, t - 1)
<1>1. \A i \in 1 .. N :
        /\ w[i].created = w[i - 1].created \union Created(ns[i])
        /\ w[i].deleted = (w[i - 1].deleted \ Created(ns[i])) \union Suppressed(ns[i])
        /\ w[i].required = w[i - 1].required \union Needs(ns[i], w[i - 1])
        /\ w[i - 1].errors => w[i].errors
  BY WalkOn
<1>2. /\ k \in Needs(ns[t], w[t - 1]) /\ k \notin Configured(ns[t], w[t - 1])
  BY NeededHere
<1>3. \A n \in 0 .. N - 1 : n + 1 \in 1 .. N /\ (n + 1) - 1 = n
  OBVIOUS
<1>4. Left(ns, k, 1, t - 1)
  <2>1. CASE \E j \in 1 .. t - 1 : k \in Created(ns[j])
    <3>1. PICK j \in 1 .. t - 1 : k \in Created(ns[j])
      BY <2>1
    <3>2. PICK m \in j + 1 .. t - 1 : k \in Suppressed(ns[m])
      BY <3>1 DEF Left
    <3>3. m \in 1 .. t - 1
      OBVIOUS
    <3> QED
      BY <3>2, <3>3 DEF Left
  <2>2. CASE \A j \in 1 .. t - 1 : k \notin Created(ns[j])
    <3>1. \A j \in 1 .. N : k \notin Created(ns[j])
      <4>1. \A j \in 1 .. N : j \in 1 .. t - 1 \/ j \in t .. N
        OBVIOUS
      <4> QED
        BY <2>2, <4>1
    <3>2. k \notin w[N].created
      <4> DEFINE G == {n \in Nat : k \notin w[n].created}
      <4>1. 0 \in G
        BY DEF NotInspected
      <4>2. ASSUME NEW n \in 0 .. N - 1, n \in G PROVE n + 1 \in G
        <5>1. n + 1 \in 1 .. N /\ (n + 1) - 1 = n
          OBVIOUS
        <5>2. w[n + 1].created = w[n].created \union Created(ns[n + 1])
          BY <1>1, <5>1
        <5> QED
          BY <3>1, <4>2, <5>1, <5>2
      <4>3. N \in G
        <5>1. N \in 0 .. N
          OBVIOUS
        <5> HIDE DEF G
        <5> QED
          BY <4>1, <4>2, <5>1, StepByStep
      <4> QED
        BY <4>3
    <3>3. k \in w[N].required
      <4> DEFINE G == {n \in Nat : k \in w[n].required}
      <4>1. t \in G
        BY <1>1, <1>2
      <4>2. ASSUME NEW n \in t .. N - 1, n \in G PROVE n + 1 \in G
        <5>1. n + 1 \in 1 .. N /\ (n + 1) - 1 = n
          OBVIOUS
        <5>2. w[n + 1].required = w[n].required \union Needs(ns[n + 1], w[n])
          BY <1>1, <5>1
        <5> QED
          BY <4>2, <5>1, <5>2
      <4>3. N \in G
        <5>1. N \in t .. N /\ t \in 0 .. N
          OBVIOUS
        <5> HIDE DEF G
        <5> QED
          BY <4>1, <4>2, <5>1, StepsFrom
      <4> QED
        BY <4>3
    <3> QED
      BY <3>2, <3>3
  <2> QED
    BY <2>1, <2>2
<1> DEFINE S == {m \in 1 .. t - 1 : k \in Suppressed(ns[m])}
<1>5. PICK i \in S : \A m \in S : m <= i
  <2>1. S # {} /\ S \in SUBSET (1 .. t - 1) /\ t - 1 \in Nat
    BY <1>4 DEF Left
  <2> HIDE DEF S
  <2> QED
    BY <2>1, Greatest
<1>6. ASSUME NEW j \in i + 1 .. t - 1 PROVE k \notin Created(ns[j])
  <2>1. SUFFICES ASSUME k \in Created(ns[j]) PROVE FALSE
    OBVIOUS
  <2>2. j \in 1 .. t - 1
    OBVIOUS
  <2>3. PICK m \in j + 1 .. t - 1 : k \in Suppressed(ns[m])
    BY <2>1, <2>2 DEF Left
  <2>4. m \in S /\ m > i
    BY <2>3
  <2> QED
    BY <1>5, <2>4
<1>7. k \in w[t - 1].deleted
  <2> DEFINE G == {n \in Nat : k \in w[n].deleted}
  <2>1. i \in G
    <3>1. i \in 1 .. N /\ k \in Suppressed(ns[i])
      BY <1>5
    <3> QED
      BY <1>1, <3>1
  <2>2. ASSUME NEW n \in i .. (t - 1) - 1, n \in G PROVE n + 1 \in G
    <3>1. n + 1 \in 1 .. N /\ (n + 1) - 1 = n /\ n + 1 \in i + 1 .. t - 1
      BY <1>5
    <3>2. w[n + 1].deleted = (w[n].deleted \ Created(ns[n + 1])) \union Suppressed(ns[n + 1])
      BY <1>1, <3>1
    <3>3. k \notin Created(ns[n + 1])
      BY <1>6, <3>1
    <3> QED
      BY <2>2, <3>1, <3>2, <3>3
  <2>3. t - 1 \in G
    <3>1. t - 1 \in i .. t - 1 /\ i \in 0 .. t - 1 /\ t - 1 \in Nat
      BY <1>5
    <3> HIDE DEF G, S
    <3> QED
      BY <2>1, <2>2, <3>1, StepsFrom
  <2> QED
    BY <2>3
<1>8. ~w[t].errors
  <2>1. SUFFICES ASSUME w[t].errors PROVE w[N].errors
    OBVIOUS
  <2> DEFINE G == {n \in Nat : w[n].errors}
  <2>2. t \in G
    BY <2>1
  <2>3. ASSUME NEW n \in t .. N - 1, n \in G PROVE n + 1 \in G
    <3>1. n + 1 \in 1 .. N /\ (n + 1) - 1 = n
      OBVIOUS
    <3>2. w[n].errors => w[n + 1].errors
      BY <1>1, <3>1
    <3> QED
      BY <2>3, <3>1, <3>2
  <2>4. N \in G
    <3>1. N \in t .. N /\ t \in 0 .. N
      OBVIOUS
    <3> HIDE DEF G
    <3> QED
      BY <2>2, <2>3, <3>1, StepsFrom
  <2> QED
    BY <2>4
<1>9. k \in Suppressed(ns[t])
  <2>1. k \in w[t].deleted
    <3>1. k \notin Created(ns[t])
      OBVIOUS
    <3> QED
      BY <1>1, <1>7, <3>1
  <2>2. \A q : q \in Needs(ns[t], w[t - 1]) /\ q \in w[t].deleted /\ q \notin Suppressed(ns[t])
               /\ q \notin Configured(ns[t], w[t - 1]) => w[t].errors
    BY WalkOn
  <2> QED
    BY <1>2, <1>8, <2>1, <2>2
<1> QED
  BY <1>4, <1>9

\* A pipeline that was validated and given its required keys lacks a parameter only where the
\* inspection is known not to see it (build_pipeline_inspection, resolve_runtime_value): a node
\* of its own or later creates the key, this node and an earlier one both delete it, or an
\* earlier one did not write what it says that it creates. It holds for pipelines of any length.
THEOREM MissingForetold == Spec => []MissingExplained
<1>1. RunInv /\ Supplied /\ Written => MissingExplained
  <2> SUFFICES ASSUME RunInv, Supplied, Written, step = "failed", report.valid, report.supplied,
                      NEW k \in last.missing,
                      \A j \in at .. Len(pipe) : k \notin Created(nodes[j]),
                      \A j \in 1 .. at - 1 : k \in Created(nodes[j]) => k \in trail[j]
               PROVE  k \in Suppressed(nodes[at]) /\ \E j \in 1 .. at - 1 : k \in Suppressed(nodes[j])
    BY DEF MissingExplained
  <2>1. /\ last.op = "node" /\ Len(trail) = at /\ at \in 1 .. Len(pipe)
        /\ \A i \in DOMAIN pipe : nodes[i].error = "none"
        /\ FromConfiguration /\ Inspection(nodes).valid
    BY DEF RunInv, PlaceOk, ReportOk
  <2>2. Len(pipe) \in Nat /\ DOMAIN pipe = 1 .. Len(pipe) /\ DOMAIN nodes = 1 .. Len(pipe)
    BY SequenceShape DEF RunInv, PipeOk
  <2>3. Len(nodes) = Len(pipe)
    <3>1. nodes = [i \in 1 .. Len(pipe) |-> nodes[i]]
      BY <2>2 DEF RunInv, PipeOk
    <3> QED
      BY <2>2, <3>1, SequenceOf1
  <2> DEFINE node == nodes[at]
             p == Parameters(node.class, node.config, last.before)
  <2>4. NodeOk(node) /\ node.kind # "contextData"
    BY <2>1, LastNode
  <2>5. IsContext(last.before)
    BY <2>1 DEF RunInv, LastOk
  <2>6. last.missing = p.missing
    <3>1. Answered([error |-> last.error, missing |-> last.missing, ctx |-> ctx], node, last.before)
      BY <2>1, <2>4 DEF RunInv, LastOk
    <3> QED
      BY <3>1 DEF Answered
  <2>7. k \in node.class.names /\ Resolve(k, node.class, node.config, last.before).error = "missing"
    BY <2>4, <2>5, <2>6, ParametersOk DEF NodeOk
  <2>8. /\ k \notin DOMAIN node.config /\ ~HasDefault(node.class, k)
        /\ k \notin Keys(last.before)
    BY <2>4, <2>5, <2>7, ResolveOk DEF NodeOk
  <2>9. Before = last.before
    BY DEF Before
  <2>10. k \in Inspection(nodes).required => Left(nodes, k, 1, at - 1)
    BY <2>8, <2>9 DEF Supplied
  <2>11. \A j \in 1 .. at - 1 : k \in Created(nodes[j]) => Left(nodes, k, j + 1, at - 1)
    BY <2>8, <2>9 DEF Written
  <2>12. PICK w : /\ w[0] = NotInspected
                  /\ \A i \in 1 .. Len(nodes) : w[i] = InspectNode(w[i - 1], nodes[i])
                  /\ Inspection(nodes).required = w[Len(nodes)].required \ w[Len(nodes)].created
                  /\ ~w[Len(nodes)].errors
    BY <2>1, <2>2, <2>3, InspectionWalk
  <2>13. ClassOk(node.class)
    BY <2>4 DEF NodeOk
  <2>14. k \in Suppressed(nodes[at]) /\ Left(nodes, k, 1, at - 1)
    BY <2>1, <2>2, <2>3, <2>7, <2>8, <2>10, <2>11, <2>12, <2>13, MissingWhy
  <2> QED
    BY <2>14 DEF Left
<1>2. Init => RunInv /\ Supplied /\ Written
  BY RunInit, NothingYet
<1>3. RunInv /\ Supplied /\ Written /\ [Next]_vars => (RunInv /\ Supplied /\ Written)'
  BY NextKeeps, HandedOn
<1> QED
  BY <1>1, <1>2, <1>3, PTL DEF Spec

-----------------------------------------------------------------------------
(* Every combination, and every position                                   *)

\* From number i the fastest j names take the values at p, in whichever block it is.
Takes(i, p, seqs, names, block, j) ==
    \A k \in 1 .. j : \A q \in Nat :
        ((q * block[j] + i) \div block[k - 1]) % Len(seqs[names[k]]) = p[names[k]]

LEMMA Below ==
    ASSUME NEW b \in Nat \ {0}, NEW n \in Nat \ {0}, NEW d \in 0 .. n - 1, NEW i \in 0 .. b - 1
    PROVE  b * d + i \in 0 .. (b * n) - 1
<1>1. PICK e \in Nat : n = d + 1 + e
  <2>1. n - 1 - d \in Nat /\ n = d + 1 + (n - 1 - d)
    OBVIOUS
  <2> QED
    BY <2>1
<1>2. b * n = b * d + b + b * e
  BY <1>1
<1>3. b * d \in Nat /\ b * e \in Nat
  <2>1. \A x, y \in Nat : x * y \in Nat
    OBVIOUS
  <2> QED
    BY <1>1, <2>1
<1> HIDE <1>1
<1> QED
  BY <1>2, <1>3

SameNumber(b, n, d, i, q) == q * (b * n) + (b * d + i) = b * (n * q + d) + i

LEMMA Regrouped ==
    ASSUME NEW b \in Nat, NEW n \in Nat, NEW d \in Nat, NEW i \in Nat, NEW q \in Nat
    PROVE  SameNumber(b, n, d, i, q)
<1>1. q * (b * n) = b * (n * q)
  OBVIOUS
<1>2. n * q \in Nat
  OBVIOUS
<1>3. \A x \in Nat : b * (x + d) = b * x + b * d
  OBVIOUS
<1>4. b * (n * q + d) = b * (n * q) + b * d
  BY <1>2, <1>3
<1>5. b * d \in Nat /\ b * (n * q) \in Nat
  <2>1. \A x, y \in Nat : x * y \in Nat
    OBVIOUS
  <2> QED
    BY <1>2, <2>1
<1>6. \A x, y \in Nat : x + (y + i) = (x + y) + i
  OBVIOUS
<1> QED
  BY <1>1, <1>2, <1>4, <1>5, <1>6 DEF SameNumber

LEMMA TakesMore ==
    ASSUME NEW seqs, NEW names, NEW block, NEW j \in Nat, NEW b \in Nat \ {0}, b = block[j],
           NEW n \in Nat \ {0}, n = Len(seqs[names[j + 1]]), block[j + 1] = b * n,
           NEW p, NEW d \in 0 .. n - 1, d = p[names[j + 1]],
           NEW i \in 0 .. b - 1, Takes(i, p, seqs, names, block, j)
    PROVE  /\ b * d + i \in 0 .. block[j + 1] - 1
           /\ Takes(b * d + i, p, seqs, names, block, j + 1)
<1>1. b * d + i \in 0 .. (b * n) - 1
  BY Below
<1>2. ASSUME NEW q \in Nat
      PROVE  q * block[j + 1] + (b * d + i) = b * (n * q + d) + i /\ n * q + d \in Nat
  <2>1. d \in Nat /\ i \in Nat /\ b \in Nat /\ n \in Nat
    OBVIOUS
  <2>2. SameNumber(b, n, d, i, q)
    BY <2>1, Regrouped, Zenon
  <2>3. n * q + d \in Nat
    <3>1. \A x \in Nat : x + d \in Nat
      OBVIOUS
    <3>2. n * q \in Nat
      OBVIOUS
    <3> QED
      BY <3>1, <3>2
  <2> QED
    BY <2>2, <2>3, Zenon DEF SameNumber
<1>3. ASSUME NEW k \in 1 .. j + 1, NEW q \in Nat
      PROVE  ((q * block[j + 1] + (b * d + i)) \div block[k - 1]) % Len(seqs[names[k]]) = p[names[k]]
  <2> DEFINE r == n * q + d
  <2>1. q * block[j + 1] + (b * d + i) = b * r + i /\ r \in Nat
    BY <1>2
  <2>2. CASE k = j + 1
    <3>1. block[k - 1] = b
      BY <2>2
    <3>2. (b * r + i) \div b = r
      <4>1. r \in Int
        BY <2>1
      <4> HIDE DEF r
      <4> QED
        BY <4>1, DivisionUnique
    <3>3. r % n = d
      <4>1. q \in Int
        OBVIOUS
      <4> QED
        BY <4>1, DivisionUnique
    <3> HIDE DEF r
    <3> QED
      BY <2>1, <2>2, <3>1, <3>2, <3>3
  <2>3. CASE k # j + 1
    <3>1. k \in 1 .. j
      BY <2>3
    <3> HIDE DEF r
    <3>2. ((r * block[j] + i) \div block[k - 1]) % Len(seqs[names[k]]) = p[names[k]]
      BY <2>1, <3>1 DEF Takes
    <3>3. r * block[j] + i = b * r + i
      BY <2>1
    <3> QED
      BY <2>1, <3>2, <3>3
  <2> QED
    BY <2>2, <2>3
<1> QED
  BY <1>1, <1>3 DEF Takes

LEMMA TakesAny ==
    ASSUME NEW seqs, NEW names, NEW N \in Nat, NEW block, BlocksTo(block, seqs, names, N),
           \A j \in 1 .. N : Len(seqs[names[j]]) \in Nat \ {0},
           NEW p, \A j \in 1 .. N : p[names[j]] \in 0 .. Len(seqs[names[j]]) - 1
    PROVE  \E i \in 0 .. block[N] - 1 : Takes(i, p, seqs, names, block, N)
<1> DEFINE G == {j \in Nat : \E i \in 0 .. block[j] - 1 : Takes(i, p, seqs, names, block, j)}
<1>1. \A j \in 0 .. N : block[j] \in Nat \ {0}
  BY BlocksCount
<1>2. 0 \in G
  <2>1. block[0] = 1
    BY DEF BlocksTo
  <2>2. Takes(0, p, seqs, names, block, 0)
    BY DEF Takes
  <2> QED
    BY <2>1, <2>2
<1>3. ASSUME NEW j \in 0 .. N - 1, j \in G PROVE j + 1 \in G
  <2>1. PICK i \in 0 .. block[j] - 1 : Takes(i, p, seqs, names, block, j)
    BY <1>3
  <2> DEFINE n == Len(seqs[names[j + 1]])
             d == p[names[j + 1]]
             b == block[j]
  <2>2. block[j + 1] = b * n
    BY DEF BlocksTo
  <2>3. n \in Nat \ {0} /\ d \in 0 .. n - 1 /\ b \in Nat \ {0} /\ i \in 0 .. b - 1 /\ j \in Nat
    BY <1>1
  <2>4. b = block[j] /\ n = Len(seqs[names[j + 1]]) /\ d = p[names[j + 1]]
    OBVIOUS
  <2> HIDE DEF b, n, d
  <2>5. /\ b * d + i \in 0 .. block[j + 1] - 1
        /\ Takes(b * d + i, p, seqs, names, block, j + 1)
    BY <2>1, <2>2, <2>3, <2>4, TakesMore
  <2>6. j + 1 \in Nat
    OBVIOUS
  <2> QED
    BY <2>5, <2>6
<1>4. \A j \in 0 .. N : j \in G
  <2> HIDE DEF G
  <2> QED
    BY <1>2, <1>3, StepByStep
<1> QED
  BY <1>4

\* The steps are the combinations of the values: as many as the lengths make, and each of them.
Crossed(steps, seqs) ==
    /\ Len(steps) = ProductOver([v \in DOMAIN seqs |-> Len(seqs[v])], DOMAIN seqs)
    /\ \A i \in DOMAIN steps, v \in DOMAIN seqs : steps[i][v] \in Range(seqs[v])
    /\ \A f : (\A v \in DOMAIN seqs : f[v] \in Range(seqs[v])) =>
                \E i \in DOMAIN steps : \A v \in DOMAIN seqs : steps[i][v] = f[v]

LEMMA CombinationsCrossed ==
    ASSUME NEW seqs, AreLists(seqs), NEW names, IsSequence(names), Range(names) = DOMAIN seqs,
           Enumerates(names, Len(names), DOMAIN seqs),
           NEW block, BlocksTo(block, seqs, names, Len(names))
    PROVE  Crossed(Combined(seqs, names, block), seqs)
<1> DEFINE N == Len(names)
           place(v) == CHOOSE j \in DOMAIN names : names[j] = v
           at0(i, v) == ((i - 1) \div block[place(v) - 1]) % Len(seqs[v])
           P == Combined(seqs, names, block)
<1>1. N \in Nat /\ DOMAIN names = 1 .. N
  BY SequenceShape
<1>2. \A v \in DOMAIN seqs : place(v) \in 1 .. N /\ names[place(v)] = v
  <2> SUFFICES ASSUME NEW v \in DOMAIN seqs PROVE place(v) \in DOMAIN names /\ names[place(v)] = v
    BY <1>1
  <2>1. \E j \in DOMAIN names : names[j] = v
    BY DEF Range
  <2> QED
    BY <2>1, Zenon
<1>3. \A j \in 1 .. N : names[j] \in DOMAIN seqs
  BY <1>1 DEF Range
<1>4. \A j \in 1 .. N : Len(seqs[names[j]]) \in Nat \ {0}
  BY <1>3 DEF AreLists
<1>5. \A j \in 0 .. N : block[j] \in Nat \ {0}
  BY <1>1, <1>4, BlocksCount
<1>6. DOMAIN P = 1 .. block[N] /\ \A i \in 1 .. block[N], v \in DOMAIN seqs : P[i][v] = seqs[v][at0(i, v) + 1]
  BY DEF Combined
<1>7. Len(P) = block[N]
  <2>1. P = [i \in 1 .. block[N] |-> P[i]]
    BY DEF Combined
  <2>2. block[N] \in Nat
    BY <1>1, <1>5
  <2> HIDE DEF P
  <2> QED
    BY <2>1, <2>2, SequenceOf1
<1> HIDE DEF P, place
<1>8. block[N] = ProductOver([v \in DOMAIN seqs |-> Len(seqs[v])], DOMAIN seqs)
  <2> DEFINE f == [v \in DOMAIN seqs |-> Len(seqs[v])]
  <2>1. \A x \in DOMAIN seqs : f[x] \in Nat
    BY DEF AreLists
  <2>2. Multiplies(block, f, names, N)
    <3>1. block[0] = 1
      BY <1>1 DEF BlocksTo
    <3>2. ASSUME NEW n \in 0 .. N - 1 PROVE block[n + 1] = block[n] * f[names[n + 1]]
      <4>1. n + 1 \in 1 .. N /\ n + 1 \in 0 .. N /\ n + 1 # 0 /\ (n + 1) - 1 = n
        BY <1>1
      <4>2. block[n + 1] = block[n] * Len(seqs[names[n + 1]])
        BY <4>1 DEF BlocksTo
      <4>3. names[n + 1] \in DOMAIN seqs
        BY <1>3, <4>1
      <4> QED
        BY <4>2, <4>3
    <3> QED
      BY <3>1, <3>2 DEF Multiplies
  <2> HIDE DEF f
  <2>3. block[N] = ProductOver(f, DOMAIN seqs)
    BY <1>1, <2>1, <2>2, ProductAlong
  <2> QED
    BY <2>3 DEF f
<1>9. ASSUME NEW i \in DOMAIN P, NEW v \in DOMAIN seqs PROVE P[i][v] \in Range(seqs[v])
  <2> DEFINE y == (i - 1) \div block[place(v) - 1]
  <2>1. y \in Int
    <3>1. place(v) - 1 \in 0 .. N /\ i - 1 \in Int
      BY <1>1, <1>2, <1>5, <1>6
    <3> QED
      BY <1>5, <3>1
  <2> HIDE DEF y
  <2>2. Len(seqs[v]) \in Nat \ {0} /\ IsSequence(seqs[v])
    BY DEF AreLists
  <2>3. (y % Len(seqs[v])) + 1 \in 1 .. Len(seqs[v])
    BY <2>1, <2>2, Within
  <2>4. DOMAIN seqs[v] = 1 .. Len(seqs[v])
    BY <2>2, SequenceShape
  <2>5. P[i][v] = seqs[v][(y % Len(seqs[v])) + 1]
    BY <1>6 DEF y
  <2> QED
    BY <2>3, <2>4, <2>5 DEF Range
<1>10. ASSUME NEW f, \A v \in DOMAIN seqs : f[v] \in Range(seqs[v])
       PROVE  \E i \in DOMAIN P : \A v \in DOMAIN seqs : P[i][v] = f[v]
  <2> DEFINE p == [v \in DOMAIN seqs |-> (CHOOSE x \in 1 .. Len(seqs[v]) : seqs[v][x] = f[v]) - 1]
  <2>1. ASSUME NEW v \in DOMAIN seqs
        PROVE  p[v] \in 0 .. Len(seqs[v]) - 1 /\ seqs[v][p[v] + 1] = f[v]
    <3> DEFINE x == CHOOSE x \in 1 .. Len(seqs[v]) : seqs[v][x] = f[v]
    <3>1. IsSequence(seqs[v]) /\ Len(seqs[v]) \in Nat
      BY DEF AreLists
    <3>2. DOMAIN seqs[v] = 1 .. Len(seqs[v])
      BY <3>1, SequenceShape
    <3>3. \E y \in 1 .. Len(seqs[v]) : seqs[v][y] = f[v]
      BY <1>10, <3>2 DEF Range
    <3>4. x \in 1 .. Len(seqs[v]) /\ seqs[v][x] = f[v]
      BY <3>3, Zenon
    <3>5. p[v] = x - 1
      OBVIOUS
    <3> HIDE DEF x, p
    <3>6. (x - 1) + 1 = x /\ x - 1 \in 0 .. Len(seqs[v]) - 1
      BY <3>1, <3>4
    <3> QED
      BY <3>4, <3>5, <3>6
  <2> HIDE DEF p
  <2>2. \A j \in 1 .. N : p[names[j]] \in 0 .. Len(seqs[names[j]]) - 1
    BY <1>3, <2>1
  <2>3. PICK i \in 0 .. block[N] - 1 : Takes(i, p, seqs, names, block, N)
    BY <1>1, <1>4, <2>2, TakesAny
  <2>4. block[N] \in Nat \ {0} /\ i + 1 \in DOMAIN P /\ (i + 1) - 1 = i
    BY <1>1, <1>5, <1>6
  <2>5. ASSUME NEW v \in DOMAIN seqs PROVE P[i + 1][v] = f[v]
    <3> DEFINE k == place(v)
    <3>1. k \in 1 .. N /\ names[k] = v
      BY <1>2
    <3>2. ((0 * block[N] + i) \div block[k - 1]) % Len(seqs[names[k]]) = p[names[k]]
      BY <2>3, <3>1 DEF Takes
    <3>3. 0 * block[N] + i = i
      BY <2>4
    <3>4. (i \div block[k - 1]) % Len(seqs[v]) = p[v]
      BY <3>1, <3>2, <3>3
    <3>5. P[i + 1][v] = seqs[v][p[v] + 1]
      BY <1>6, <2>4, <3>4
    <3> QED
      BY <2>1, <3>5
  <2> QED
    BY <2>4, <2>5
<1>11. Crossed(P, seqs)
  <2>1. \A i \in DOMAIN P, v \in DOMAIN seqs : P[i][v] \in Range(seqs[v])
    BY <1>9
  <2> QED
    BY <1>7, <1>8, <1>10, <2>1 DEF Crossed
<1> QED
  BY <1>11 DEF P

LEMMA ProductCrossed ==
    ASSUME NEW seqs, AreLists(seqs), DOMAIN seqs \in SUBSET Int, IsFiniteSet(DOMAIN seqs)
    PROVE  Crossed(Product(seqs), seqs)
<1> DEFINE names == Reverse(Sorted(DOMAIN seqs))
           block == CHOOSE b : BlocksTo(b, seqs, names, Len(names))
<1>1. Product(seqs) = Combined(seqs, names, block)
  BY Zenon DEF Product, BlocksTo, Combined
<1>2. IsSequence(names) /\ Range(names) = DOMAIN seqs /\ Enumerates(names, Len(names), DOMAIN seqs)
  <2>1. /\ Len(names) = Cardinality(DOMAIN seqs)
        /\ IsSequence(names) /\ Range(names) = DOMAIN seqs
        /\ Enumerates(names, Cardinality(DOMAIN seqs), DOMAIN seqs)
    BY NamesOf, Zenon
  <2> HIDE DEF names
  <2> QED
    BY <2>1
<1> HIDE DEF names
<1>3. Len(names) \in Nat
  BY <1>2, SequenceShape, Zenon
<1>4. BlocksTo(block, seqs, names, Len(names))
  BY <1>3, BlocksExist, Zenon
<1> HIDE DEF block
<1> QED
  BY <1>1, <1>2, <1>4, CombinationsCrossed, Zenon

\* The steps are the positions of the longest list; the shorter ones start again.
Aligned(steps, seqs, broadcast) ==
    /\ broadcast \/ \A v \in DOMAIN seqs : Len(seqs[v]) = Len(steps)
    /\ \E v \in DOMAIN seqs : Len(seqs[v]) = Len(steps)
    /\ \A v \in DOMAIN seqs : Len(seqs[v]) <= Len(steps)
    /\ \A i \in DOMAIN steps, v \in DOMAIN seqs :
         steps[i][v] = seqs[v][((i - 1) % Len(seqs[v])) + 1]

LEMMA PositionsAligned ==
    ASSUME NEW seqs, AreLists(seqs), DOMAIN seqs # {},
           DOMAIN seqs \in SUBSET Int, IsFiniteSet(DOMAIN seqs),
           NEW broadcast, broadcast \/ Cardinality(Lengths(seqs)) = 1
    PROVE  Aligned(ByPosition(seqs, Max(Lengths(seqs))), seqs, broadcast)
<1> DEFINE n == Max(Lengths(seqs))
           P == ByPosition(seqs, n)
           names == Reverse(Sorted(DOMAIN seqs))
<1>1. IsSequence(names) /\ Range(names) = DOMAIN seqs
  BY NamesOf, Zenon
<1> HIDE DEF names
<1>2. /\ n \in Nat /\ \E v \in DOMAIN seqs : Len(seqs[v]) = n
      /\ \A v \in DOMAIN seqs : Len(seqs[v]) <= n
  BY <1>1, Longest, Zenon
<1> HIDE DEF n
<1>3. /\ P = [i \in 1 .. n |-> P[i]]
      /\ DOMAIN P = 1 .. n
      /\ \A i \in 1 .. n, v \in DOMAIN seqs : P[i][v] = seqs[v][((i - 1) % Len(seqs[v])) + 1]
  BY DEF ByPosition
<1> HIDE DEF P
<1>4. Len(P) = n
  BY <1>2, <1>3, SequenceOf1
<1>5. ASSUME Cardinality(Lengths(seqs)) = 1 PROVE \A v \in DOMAIN seqs : Len(seqs[v]) = n
  <2>1. Lengths(seqs) \subseteq 0 .. n
    BY <1>2 DEF Lengths, AreLists
  <2>2. IsFiniteSet(0 .. n)
    BY <1>2, FS_Interval
  <2>3. IsFiniteSet(Lengths(seqs))
    BY <2>1, <2>2, FS_Subset
  <2>4. PICK x : Lengths(seqs) = {x}
    BY <1>5, <2>3, FS_Singleton
  <2>5. \A v \in DOMAIN seqs : Len(seqs[v]) = x
    BY <2>4 DEF Lengths
  <2> QED
    BY <1>2, <2>5
<1>6. broadcast \/ \A v \in DOMAIN seqs : Len(seqs[v]) = n
  BY <1>5
<1> QED
  BY <1>2, <1>3, <1>4, <1>6 DEF Aligned, P, n

\* What a sweep that is not refused goes through.
Swept(steps, seqs, mode, broadcast) ==
    /\ AreSteps(steps, seqs)
    /\ IF mode = "combinatorial" THEN Crossed(steps, seqs) ELSE Aligned(steps, seqs, broadcast)

LEMMA IterateExact ==
    ASSUME NEW seqs, AreLists(seqs), DOMAIN seqs # {}, NEW mode, NEW broadcast,
           DOMAIN seqs \in SUBSET Int, IsFiniteSet(DOMAIN seqs),
           Iterate(seqs, mode, broadcast).error = "none"
    PROVE  Swept(Iterate(seqs, mode, broadcast).steps, seqs, mode, broadcast)
<1> DEFINE it == Iterate(seqs, mode, broadcast)
<1>1. AreSteps(it.steps, seqs)
  BY IterateSteps, Zenon
<1>2. CASE mode = "combinatorial"
  <2>1. it.steps = Product(seqs)
    BY <1>2 DEF Iterate
  <2>2. Crossed(Product(seqs), seqs)
    BY ProductCrossed
  <2> QED
    BY <1>1, <1>2, <2>1, <2>2 DEF Swept
<1>3. CASE mode # "combinatorial"
  <2>1. (broadcast \/ Cardinality(Lengths(seqs)) = 1) /\ it.steps = ByPosition(seqs, Max(Lengths(seqs)))
    BY <1>3, Zenon DEF Iterate
  <2>2. Aligned(ByPosition(seqs, Max(Lengths(seqs))), seqs, broadcast)
    BY <2>1, PositionsAligned, Zenon
  <2> QED
    BY <1>1, <1>3, <2>1, <2>2 DEF Swept
<1> QED
  BY <1>2, <1>3

-----------------------------------------------------------------------------
(* What is performed without an error                                      *)

\* The states of steps of which none fails.
Passes(f, steps, cx, C, S) ==
    /\ f[0] = Begun(cx)
    /\ \A n \in 1 .. Len(steps) : f[n] = Advance(f[n - 1], steps[n])
    /\ \A n \in 0 .. Len(steps) : f[n].error = "none" /\ SoFar(f[n], cx, C, S)
    /\ Perform(steps, cx) = f[Len(steps)]

LEMMA NoneFailed ==
    ASSUME NEW steps, NEW cx, IsContext(cx), NEW C, NEW S, StepsOk(steps, C, S),
           Perform(steps, cx).error = "none"
    PROVE  \E f : Passes(f, steps, cx, C, S)
<1> DEFINE N == Len(steps)
<1>1. N \in Nat /\ DOMAIN steps = 1 .. N
  BY SequenceShape DEF StepsOk
<1>2. PICK f : /\ f[0] = Begun(cx)
               /\ \A n \in 1 .. N : f[n] = Advance(f[n - 1], steps[n])
               /\ Perform(steps, cx) = f[N]
  BY <1>1, PerformSteps
<1> HIDE DEF N
<1>3. \A m \in 0 .. N : f[N - m].error = "none"
  <2> DEFINE G == {m \in Nat : f[N - m].error = "none"}
  <2>1. 0 \in G
    <3>1. N - 0 = N
      BY <1>1
    <3> QED
      BY <1>2, <3>1
  <2>2. ASSUME NEW m \in 0 .. N - 1, m \in G PROVE m + 1 \in G
    <3>1. N - m \in 1 .. N /\ (N - m) - 1 = N - (m + 1) /\ m + 1 \in Nat
      BY <1>1
    <3>2. f[N - m] = Advance(f[N - (m + 1)], steps[N - m])
      BY <1>2, <3>1
    <3>3. f[N - (m + 1)].error = "none"
      BY <2>2, <3>2 DEF Advance
    <3> QED
      BY <3>1, <3>3
  <2>3. \A m \in 0 .. N : m \in G
    <3> HIDE DEF G
    <3> QED
      BY <1>1, <2>1, <2>2, StepByStep
  <2> QED
    BY <2>3
<1>4. \A n \in 0 .. N : SoFar(f[n], cx, C, S)
  <2> DEFINE G == {n \in Nat : SoFar(f[n], cx, C, S)}
  <2>1. 0 \in G
    <3>1. AreCalls(<<>>)
      BY DEF AreCalls, IsSequence
    <3>2. SoFar(Begun(cx), cx, C, S)
      BY <3>1 DEF SoFar, Begun, Keeps, StepErrors
    <3> QED
      BY <1>2, <3>2
  <2>2. ASSUME NEW n \in 0 .. N - 1, n \in G PROVE n + 1 \in G
    <3>1. n + 1 \in 1 .. N /\ (n + 1) - 1 = n /\ n + 1 \in Nat
      BY <1>1
    <3>2. f[n + 1] = Advance(f[n], steps[n + 1]) /\ StepOk(steps[n + 1], C, S)
      BY <1>1, <1>2, <3>1 DEF StepsOk
    <3>3. SoFar(f[n + 1], cx, C, S)
      BY <2>2, <3>2, AdvanceKeeps
    <3> QED
      BY <3>1, <3>3
  <2>3. \A n \in 0 .. N : n \in G
    <3> HIDE DEF G
    <3> QED
      BY <1>1, <2>1, <2>2, StepByStep
  <2> QED
    BY <2>3
<1>5. ASSUME NEW n \in 0 .. N PROVE f[n].error = "none"
  <2>1. N - n \in 0 .. N /\ N - (N - n) = n
    BY <1>1
  <2> QED
    BY <1>3, <2>1
<1> QED
  BY <1>2, <1>4, <1>5 DEF Passes, N

LEMMA Advances ==
    ASSUME NEW now, NEW cx, NEW C, NEW S, SoFar(now, cx, C, S), now.error = "none", NEW s
    PROVE  /\ s.do = "call" => Advance(now, s).calls = Append(now.calls, s.args)
           /\ s.do # "call" => /\ Advance(now, s).calls = now.calls
                               /\ Advance(now, s).error = Effect(now.ctx, s).error
                               /\ Advance(now, s).ctx = Effect(now.ctx, s).ctx
BY DEF Advance, SoFar

\* The first n members of a sequence.
FirstOf(s, n) == [i \in 1 .. n |-> s[i]]

LEMMA FirstOfMore ==
    ASSUME NEW s, NEW n \in Nat
    PROVE  Append(FirstOf(s, n), s[n + 1]) = FirstOf(s, n + 1)
<1> DEFINE t == FirstOf(s, n)
<1>1. t = [i \in 1 .. n |-> t[i]] /\ DOMAIN t = 1 .. n /\ \A i \in 1 .. n : t[i] = s[i]
  BY DEF FirstOf
<1> HIDE DEF t
<1>2. IsSequence(t) /\ Len(t) = n
  BY <1>1, SequenceOf1
<1> DEFINE u == Append(t, s[n + 1])
<1>3. IsSequence(u) /\ DOMAIN u = 1 .. n + 1 /\ \A i \in 1 .. n + 1 : u[i] = s[i]
  <2>1. /\ IsSequence(u) /\ DOMAIN u = DOMAIN t \union {Len(t) + 1}
        /\ \A i \in DOMAIN t : u[i] = t[i]
        /\ u[Len(t) + 1] = s[n + 1]
    BY <1>2, Appended
  <2> HIDE DEF u
  <2>2. 1 .. n + 1 = (1 .. n) \union {n + 1}
    OBVIOUS
  <2> QED
    BY <1>1, <1>2, <2>1, <2>2
<1> HIDE DEF u
<1>4. u = [i \in 1 .. n + 1 |-> u[i]]
  BY <1>3, SequenceShape
<1>5. u = FirstOf(s, n + 1)
  BY <1>3, <1>4 DEF FirstOf
<1> QED
  BY <1>5 DEF t, u

\* The steps begin with the calls of a class.
BeginWith(steps, c, argss) ==
    /\ Len(Calls(c, argss)) <= Len(steps)
    /\ Len(Calls(c, argss)) = Len(argss) * (Len(c.does.writes) + 1)
    /\ \A n \in 1 .. Len(Calls(c, argss)) : steps[n] = Calls(c, argss)[n]

\* The calls are those of the arguments, one after the other, whatever is written between them.
LEMMA CallsMade ==
    ASSUME NEW c, IsClass(c), c.does.kind = "code", NEW argss, IsSequence(argss),
           NEW steps, NEW cx, NEW C, NEW S, NEW f, Passes(f, steps, cx, C, S), Len(steps) \in Nat,
           BeginWith(steps, c, argss)
    PROVE  f[Len(Calls(c, argss))].calls = argss
<1> USE DEF BeginWith
<1> DEFINE W == Len(c.does.writes)
           w == W + 1
           L == Len(argss)
           G == {i \in Nat : f[i * w].calls = FirstOf(argss, i)}
<1>1. W \in Nat /\ L \in Nat /\ DOMAIN argss = 1 .. L
  BY SequenceShape DEF IsClass, IsWork
<1>2. w \in Nat \ {0} /\ L * w \in Nat /\ w - 1 = W
  BY <1>1
<1>3. Len(Calls(c, argss)) = L * w /\ L * w <= Len(steps)
  OBVIOUS
<1>4. ASSUME NEW i \in 0 .. L - 1, NEW k \in 0 .. W
      PROVE  /\ i * w + (k + 1) \in 1 .. L * w
             /\ k = 0 => steps[i * w + (k + 1)] = Calling(argss[i + 1])
             /\ k # 0 => steps[i * w + (k + 1)].do = "update"
  <2> DEFINE n == i * w + (k + 1)
  <2>1. w * i + k \in 0 .. (w * L) - 1
    <3>1. L \in Nat \ {0} /\ k \in 0 .. w - 1
      BY <1>1, <1>2
    <3> HIDE DEF w
    <3> QED
      BY <1>2, <3>1, Below
  <2>2. w * i = i * w /\ w * L = L * w /\ i * w \in Nat
    BY <1>1, <1>2
  <2>3. n \in 1 .. L * w /\ n - 1 = w * i + k
    <3> DEFINE y == i * w  z == L * w
    <3>1. y + k \in 0 .. z - 1 /\ y \in Nat /\ z \in Nat /\ w * i = y
      BY <1>2, <2>1, <2>2
    <3> HIDE DEF y, z
    <3>2. y + (k + 1) \in 1 .. z /\ (y + (k + 1)) - 1 = y + k
      BY <1>1, <3>1
    <3> QED
      BY <3>1, <3>2 DEF y, z
  <2>4. (n - 1) \div w = i /\ (n - 1) % w = k
    <3>1. k \in 0 .. w - 1 /\ i \in Int
      BY <1>1, <1>2
    <3>2. (w * i + k) \div w = i /\ (w * i + k) % w = k
      <4> HIDE DEF w
      <4> QED
        BY <1>2, <3>1, DivisionUnique
    <3> QED
      BY <2>3, <3>2
  <2>5. steps[n] = IF (n - 1) % w = 0 THEN Calling(argss[((n - 1) \div w) + 1])
                   ELSE Write(c, c.does.writes[(n - 1) % w])
    <3>1. steps[n] = Calls(c, argss)[n]
      BY <1>3, <2>3
    <3>2. \A m \in 1 .. L * w :
            Calls(c, argss)[m] = IF (m - 1) % w = 0 THEN Calling(argss[((m - 1) \div w) + 1])
                                 ELSE Write(c, c.does.writes[(m - 1) % w])
      BY DEF Calls
    <3> HIDE DEF n, w, L
    <3> QED
      BY <2>3, <3>1, <3>2
  <2> HIDE DEF n, w, L
  <2> QED
    BY <2>3, <2>4, <2>5 DEF n, Write, Updating
<1>5. \A n \in 0 .. L * w : f[n].error = "none" /\ SoFar(f[n], cx, C, S)
  BY <1>2, <1>3 DEF Passes
<1>6. \A n \in 1 .. L * w : f[n] = Advance(f[n - 1], steps[n])
  BY <1>2, <1>3 DEF Passes
<1> HIDE DEF w, L
<1>7. 0 \in G
  <2>1. 0 * w = 0
    BY <1>2
  <2>2. f[0].calls = <<>>
    BY DEF Passes, Begun
  <2>3. FirstOf(argss, 0) = <<>>
    BY DEF FirstOf
  <2> QED
    BY <2>1, <2>2, <2>3
<1>8. ASSUME NEW i \in 0 .. L - 1, i \in G PROVE i + 1 \in G
  <2> DEFINE b == i * w
             H == {k \in Nat : f[b + k].calls = FirstOf(argss, i + 1)}
  <2>0. b \in Nat /\ i \in Nat /\ i + 1 \in Nat /\ (i + 1) * w = b + w
    BY <1>1, <1>2
  <2>1. \A k \in 0 .. W : b + (k + 1) \in 1 .. L * w
    BY <1>4
  <2>2. 1 \in H
    <3>1. 0 \in 0 .. W /\ 0 + 1 = 1
      BY <1>1
    <3>2. steps[b + 1] = Calling(argss[i + 1]) /\ b + 1 \in 1 .. L * w
      BY <1>4, <3>1
    <3>3. (b + 1) - 1 = b /\ b \in 0 .. L * w
      BY <1>2, <2>0, <3>2
    <3>4. f[b + 1] = Advance(f[b], steps[b + 1]) /\ f[b].error = "none" /\ SoFar(f[b], cx, C, S)
      BY <1>5, <1>6, <3>2, <3>3
    <3>5. f[b + 1].calls = Append(f[b].calls, argss[i + 1])
      BY <3>2, <3>4, Advances DEF Calling
    <3>6. Append(FirstOf(argss, i), argss[i + 1]) = FirstOf(argss, i + 1)
      BY <2>0, FirstOfMore
    <3>7. f[b].calls = FirstOf(argss, i)
      BY <1>8
    <3> QED
      BY <3>5, <3>6, <3>7
  <2>3. ASSUME NEW k \in 1 .. w - 1, k \in H PROVE k + 1 \in H
    <3>1. k \in 0 .. W /\ k # 0 /\ k + 1 \in Nat
      BY <1>2
    <3>2. b + (k + 1) \in 1 .. L * w /\ steps[b + (k + 1)].do = "update"
      BY <1>4, <3>1
    <3>3. (b + (k + 1)) - 1 = b + k /\ b + k \in 0 .. L * w
      BY <1>2, <2>0, <3>2
    <3>4. /\ f[b + (k + 1)] = Advance(f[b + k], steps[b + (k + 1)])
          /\ f[b + k].error = "none" /\ SoFar(f[b + k], cx, C, S)
      BY <1>5, <1>6, <3>2, <3>3
    <3>5. f[b + (k + 1)].calls = f[b + k].calls
      BY <3>2, <3>4, Advances
    <3> QED
      BY <2>3, <3>1, <3>5
  <2>4. w \in H
    <3>1. w \in Nat /\ 1 \in 0 .. w
      BY <1>2
    <3> HIDE DEF H
    <3> QED
      BY <2>2, <2>3, <3>1, UpTo
  <2> QED
    BY <2>0, <2>4
<1>9. \A i \in 0 .. L : i \in G
  <2> HIDE DEF G
  <2> QED
    BY <1>1, <1>7, <1>8, StepByStep
<1>10. f[L * w].calls = FirstOf(argss, L)
  BY <1>1, <1>9
<1>11. FirstOf(argss, L) = argss
  BY <1>1, SequenceShape DEF FirstOf
<1> QED
  BY <1>3, <1>10, <1>11 DEF w, L

\* A value that was set is what the context has for its key, unless the items have the key.
Published(c, k, v) == k \in ItemKeys(c) \/ (k \in DOMAIN c.global /\ c.global[k] = v)

LEMMA GlobalPublishes ==
    ASSUME NEW c, IsContext(c), NEW k, NEW v
    PROVE  LET d == SetGlobal(c, k, v).ctx IN
           Published(d, k, v) /\ \A x, y : x # k /\ Published(c, x, y) => Published(d, x, y)
<1> DEFINE g == With(c.global, k, v)
           d == [kind |-> c.kind, global |-> g, items |-> c.items]
<1>1. SetGlobal(c, k, v).ctx = d
  BY DEF SetGlobal, Done, IsContext
<1>2. /\ DOMAIN g = DOMAIN c.global \union {k} /\ g[k] = v
      /\ \A x \in DOMAIN c.global : x # k => g[x] = c.global[x]
  BY DEF With, Over, Only
<1> HIDE DEF g
<1>3. d.global = g /\ ItemKeys(d) = ItemKeys(c)
  BY DEF ItemKeys
<1> HIDE DEF d
<1> QED
  BY <1>1, <1>2, <1>3 DEF Published

LEMMA SetPublishes ==
    ASSUME NEW c, IsContext(c), NEW k, NEW v, SetValue(c, k, v).error = "none"
    PROVE  LET d == SetValue(c, k, v).ctx IN
           Published(d, k, v) /\ \A x, y : x # k /\ Published(c, x, y) => Published(d, x, y)
<1>1. CASE c.kind = "single" \/ k \in DOMAIN c.global
  BY <1>1, GlobalPublishes DEF SetValue
<1>2. CASE ~(c.kind = "single" \/ k \in DOMAIN c.global) /\ KeysError(c) # "none"
  BY <1>2 DEF SetValue, Failed, KeysError
<1>3. CASE ~(c.kind = "single" \/ k \in DOMAIN c.global) /\ KeysError(c) = "none" /\ k \in ItemKeys(c)
  <2> DEFINE fs == [i \in DOMAIN c.items |-> With(c.items[i], k, v)]
             d == [kind |-> c.kind, global |-> c.global, items |-> fs]
  <2>1. SetValue(c, k, v).ctx = d
    BY <1>3 DEF SetValue, Done, IsContext
  <2>2. DOMAIN fs = DOMAIN c.items /\ \A i \in DOMAIN c.items : DOMAIN fs[i] = DOMAIN c.items[i] \union {k}
    BY DEF With, Over, Only
  <2> HIDE DEF fs
  <2>3. d.global = c.global /\ d.items = fs
    OBVIOUS
  <2> HIDE DEF d
  <2>4. \A x : x \in ItemKeys(c) => x \in ItemKeys(d)
    BY <2>2, <2>3 DEF ItemKeys
  <2> QED
    BY <1>3, <2>1, <2>3, <2>4 DEF Published
<1>4. CASE ~(c.kind = "single" \/ k \in DOMAIN c.global) /\ KeysError(c) = "none" /\ k \notin ItemKeys(c)
  BY <1>4, GlobalPublishes DEF SetValue
<1> QED
  BY <1>1, <1>2, <1>3, <1>4

LEMMA PublishedReads ==
    ASSUME NEW c, NEW k, NEW v, Published(c, k, v), k \notin ItemKeys(c)
    PROVE  GetValue(c, k) = Value(v)
<1> DEFINE own == [i \in DOMAIN c.items |-> At(c.items[i], k)]
<1>1. \A i \in DOMAIN own : own[i] = None
  BY DEF ItemKeys, At
<1>2. k \in DOMAIN c.global /\ c.global[k] = v
  BY DEF Published
<1> QED
  BY <1>1, <1>2 DEF GetValue

\* What is published last has been called before, and is in the context.
LEMMA AllPublished ==
    ASSUME NEW steps, Len(steps) \in Nat, NEW cx, NEW C, NEW S, NEW f, Passes(f, steps, cx, C, S),
           NEW M \in Nat, M <= Len(steps), NEW seqs, NEW names, IsSequence(names),
           \A i, j \in DOMAIN names : names[i] = names[j] => i = j,
           \A i \in DOMAIN names : names[i] \in Int,
           Len(steps) = M + Len(names),
           \A j \in DOMAIN names : steps[M + j] = Setting(ValuesKey(names[j]), List(seqs[names[j]]))
    PROVE  /\ Perform(steps, cx).calls = f[M].calls
           /\ \A j \in DOMAIN names :
                Published(Perform(steps, cx).ctx, ValuesKey(names[j]), List(seqs[names[j]]))
<1> DEFINE N == Len(names)
           key(j) == ValuesKey(names[j])
           list(j) == List(seqs[names[j]])
           G == {j \in Nat : /\ f[M + j].calls = f[M].calls
                             /\ \A i \in 1 .. j : Published(f[M + j].ctx, key(i), list(i))}
<1>1. N \in Nat /\ DOMAIN names = 1 .. N
  BY SequenceShape
<1>2. \A i, j \in 1 .. N : key(i) = key(j) => i = j
  BY <1>1 DEF ValuesKey
<1>3. Len(steps) = M + N
  OBVIOUS
<1> HIDE DEF N
<1>4. 0 \in G
  OBVIOUS
<1>5. ASSUME NEW j \in 0 .. N - 1, j \in G PROVE j + 1 \in G
  <2>1. j + 1 \in 1 .. N /\ M + (j + 1) \in 1 .. Len(steps) /\ (M + (j + 1)) - 1 = M + j
        /\ M + j \in 0 .. Len(steps) /\ M + (j + 1) \in 0 .. Len(steps) /\ j \in Nat
    BY <1>1, <1>3
  <2> DEFINE now == f[M + j]
             next == f[M + (j + 1)]
             s == steps[M + (j + 1)]
  <2>2. next = Advance(now, s) /\ now.error = "none" /\ next.error = "none" /\ SoFar(now, cx, C, S)
    BY <2>1 DEF Passes
  <2>3. s = Setting(key(j + 1), list(j + 1))
    BY <1>1, <2>1
  <2>4. \A i \in 1 .. j : Published(now.ctx, key(i), list(i))
    BY <1>5
  <2>5. now.calls = f[M].calls
    BY <1>5
  <2>6. \A i \in 1 .. j : key(i) # key(j + 1)
    BY <1>1, <1>2, <2>1
  <2> HIDE DEF key, list, now, next, s, G
  <2>7. s.do # "call" /\ Effect(now.ctx, s) = SetValue(now.ctx, key(j + 1), list(j + 1))
    BY <2>3 DEF Setting, Effect, UpdateContext
  <2>8. /\ next.calls = now.calls
        /\ next.ctx = SetValue(now.ctx, key(j + 1), list(j + 1)).ctx
        /\ SetValue(now.ctx, key(j + 1), list(j + 1)).error = "none"
    BY <2>2, <2>7, Advances
  <2>9. IsContext(now.ctx)
    BY <2>2 DEF SoFar, Keeps
  <2>10. /\ Published(next.ctx, key(j + 1), list(j + 1))
         /\ \A x, y : x # key(j + 1) /\ Published(now.ctx, x, y) => Published(next.ctx, x, y)
    BY <2>8, <2>9, SetPublishes
  <2>11. ASSUME NEW i \in 1 .. j + 1 PROVE Published(next.ctx, key(i), list(i))
    <3>1. CASE i = j + 1
      BY <2>10, <3>1
    <3>2. CASE i # j + 1
      <4>1. i \in 1 .. j
        BY <3>2
      <4> QED
        BY <2>4, <2>6, <2>10, <4>1
    <3> QED
      BY <3>1, <3>2
  <2> QED
    BY <2>1, <2>5, <2>8, <2>11 DEF next, G
<1>6. \A j \in 0 .. N : j \in G
  <2> HIDE DEF G
  <2> QED
    BY <1>1, <1>4, <1>5, StepByStep
<1>7. /\ f[M + N].calls = f[M].calls
      /\ \A i \in 1 .. N : Published(f[M + N].ctx, key(i), list(i))
  <2>1. N \in 0 .. N
    BY <1>1
  <2> HIDE DEF key, list
  <2> QED
    BY <1>6, <2>1
<1>8. Perform(steps, cx) = f[M + N]
  BY <1>3 DEF Passes
<1> QED
  BY <1>1, <1>7, <1>8

LEMMA FailsAtOnce ==
    ASSUME NEW why, why # "none", NEW cx
    PROVE  Perform(<<Failing(why)>>, cx).error # "none"
<1> DEFINE s == Failing(why)  steps == <<s>>
<1>1. Len(steps) = 1 /\ steps[1] = s
  OBVIOUS
<1> HIDE DEF steps
<1>2. PICK f : /\ f[0] = Begun(cx)
               /\ \A n \in 1 .. Len(steps) : f[n] = Advance(f[n - 1], steps[n])
               /\ Perform(steps, cx) = f[Len(steps)]
  BY <1>1, PerformSteps
<1>3. f[1] = Advance(Begun(cx), s) /\ Perform(steps, cx) = f[1]
  <2>1. f[1] = Advance(f[1 - 1], steps[1])
    BY <1>1, <1>2
  <2> QED
    BY <1>1, <1>2, <2>1
<1>4. Advance(Begun(cx), s).error = why
  BY DEF Advance, Begun, Failing, Effect, Failed
<1> QED
  BY <1>3, <1>4 DEF steps

\* What is left of a sweep that completes.
SweptBy(steps, c, args, made) ==
    LET d    == c.does
        seqs == Materialize(d.vars, args)
    IN  /\ DOMAIN seqs = DOMAIN d.vars /\ DOMAIN seqs # {} /\ AreLists(seqs)
        /\ Swept(steps, seqs, d.mode, d.broadcast)
        /\ made.calls = [i \in DOMAIN steps |-> SweepArgs(d, args, steps[i])]
        /\ c.cls # "probe" =>
             \A v \in DOMAIN seqs : Published(made.ctx, ValuesKey(v), List(seqs[v]))

LEMMA JoinedIs ==
    ASSUME NEW s, NEW t, IsSequence(s), IsSequence(t)
    PROVE  /\ Len(s \o t) = Len(s) + Len(t)
           /\ \A n \in 1 .. Len(s) : (s \o t)[n] = s[n]
           /\ \A n \in 1 .. Len(t) : (s \o t)[Len(s) + n] = t[n]
<1> DEFINE S == Range(s) \union Range(t)
<1>1. s \in Seq(S) /\ t \in Seq(S)
  BY DEF IsSequence
<1> HIDE DEF S
<1>2. /\ Len(s \o t) = Len(s) + Len(t)
      /\ \A n \in 1 .. Len(s) + Len(t) :
           (s \o t)[n] = IF n <= Len(s) THEN s[n] ELSE t[n - Len(s)]
  BY <1>1
<1>3. Len(s) \in Nat /\ Len(t) \in Nat
  BY SequenceShape
<1>4. ASSUME NEW n \in 1 .. Len(t) PROVE (s \o t)[Len(s) + n] = t[n]
  <2>1. Len(s) + n \in 1 .. Len(s) + Len(t) /\ ~(Len(s) + n <= Len(s)) /\ (Len(s) + n) - Len(s) = n
    BY <1>3
  <2> QED
    BY <1>2, <2>1
<1> QED
  BY <1>2, <1>3, <1>4

LEMMA SweepCompletes ==
    ASSUME NEW c, SweepOk(c), NEW args, IsMapping(args), DOMAIN args = c.names,
           NEW cx, IsContext(cx), Perform(RunSweep(c, args), cx).error = "none"
    PROVE  \E steps : SweptBy(steps, c, args, Perform(RunSweep(c, args), cx))
<1> DEFINE d    == c.does
           bad  == MaterializeError(d.vars, args)
           seqs == Materialize(d.vars, args)
           iter == Iterate(seqs, d.mode, d.broadcast)
           argss == [i \in DOMAIN iter.steps |-> SweepArgs(d, args, iter.steps[i])]
           calls == Calls(d.element, argss)
           after == IF c.cls = "probe" THEN <<>> ELSE Publish(seqs)
           steps == RunSweep(c, args)
           made == Perform(steps, cx)
           names == Reverse(Sorted(DOMAIN seqs))
<1>1. bad = "none"
  <2> SUFFICES ASSUME bad # "none" PROVE FALSE
    OBVIOUS
  <2>1. RunSweep(c, args) = <<Failing(bad)>>
    BY Zenon DEF RunSweep
  <2> HIDE DEF bad
  <2> QED
    BY <2>1, FailsAtOnce
<1>2. iter.error = "none"
  <2> SUFFICES ASSUME iter.error # "none" PROVE FALSE
    OBVIOUS
  <2>1. RunSweep(c, args) = <<Failing(iter.error)>>
    BY <1>1, Zenon DEF RunSweep
  <2> HIDE DEF iter
  <2> QED
    BY <2>1, FailsAtOnce
<1>3. steps = calls \o after
  BY <1>1, <1>2, Zenon DEF RunSweep
<1>4. /\ IsClass(d.element) /\ d.element.does.kind = "code"
      /\ \A v \in DOMAIN d.vars : IsRange(d.vars[v])
      /\ \A v \in Asked(d.vars) : d.vars[v].key \in DOMAIN args
      /\ DOMAIN d.vars # {}
      /\ DOMAIN d.vars \in SUBSET Int /\ IsFiniteSet(DOMAIN d.vars)
  BY DEF SweepOk, IsClass
<1>5. StepsOk(steps, c.created, {})
  BY RunSweepOk
<1>a. made.error = "none"
  OBVIOUS
<1>b. /\ \A v \in DOMAIN d.vars : ValuesKey(v) \in c.created
      /\ d.element.created \subseteq c.created
      /\ d.free \subseteq DOMAIN args /\ \A p \in DOMAIN d.exprs : d.exprs[p] \in DOMAIN d.vars
  BY DEF SweepOk
<1> HIDE DEF d, steps, made
<1>6. DOMAIN seqs = DOMAIN d.vars /\ AreLists(seqs)
  BY <1>1, <1>4, MaterializeLists, Zenon
<1> HIDE DEF seqs
<1>7. Swept(iter.steps, seqs, d.mode, d.broadcast)
  BY <1>2, <1>4, <1>6, IterateExact, Zenon
<1>8. AreSteps(iter.steps, seqs)
  BY <1>7 DEF Swept
<1> HIDE DEF iter
<1>9. IsSequence(argss) /\ DOMAIN argss = DOMAIN iter.steps
  <2>1. Len(iter.steps) \in Nat /\ DOMAIN iter.steps = 1 .. Len(iter.steps)
    BY <1>8, SequenceShape DEF AreSteps
  <2>2. DOMAIN argss = DOMAIN iter.steps /\ argss = [i \in DOMAIN iter.steps |-> argss[i]]
    OBVIOUS
  <2> HIDE DEF argss
  <2> QED
    BY <2>1, <2>2, SequenceOf1
<1>10. ASSUME NEW i \in DOMAIN argss PROVE AreArgs(argss[i])
  <2> DEFINE bound == [p \in DOMAIN d.exprs |-> iter.steps[i][d.exprs[p]]]
             rest == Restrict(args, d.free)
  <2>1. argss[i] = Over(bound, rest)
    BY DEF SweepArgs
  <2>2. AreArgs(bound)
    <3>1. DOMAIN iter.steps[i] = DOMAIN d.vars /\ AreArgs(iter.steps[i])
      BY <1>6, <1>8, <1>9 DEF AreSteps
    <3> QED
      BY <1>b, <3>1 DEF AreArgs
  <2>3. AreArgs(rest)
    BY <1>b, ValuesAreArgs DEF AreArgs, Restrict
  <2> HIDE DEF bound, rest
  <2> QED
    BY <2>1, <2>2, <2>3 DEF Over, AreArgs
<1>c. argss = [i \in DOMAIN iter.steps |-> SweepArgs(d, args, iter.steps[i])]
  OBVIOUS
<1> HIDE DEF argss
<1>11. /\ StepsOk(calls, c.created, {})
       /\ Len(calls) = Len(argss) * (Len(d.element.does.writes) + 1)
  BY <1>4, <1>9, <1>10, <1>b, CallsOk
<1>12. IsSequence(calls) /\ Len(calls) \in Nat
  BY <1>11, SequenceShape DEF StepsOk
<1>13. StepsOk(after, c.created, {})
  BY <1>4, <1>6, <1>b, PublishOk, NoSteps
<1>14. IsSequence(after) /\ Len(after) \in Nat
  BY <1>13, SequenceShape DEF StepsOk
<1>15. PICK f : Passes(f, steps, cx, c.created, {})
  BY <1>5, <1>a, NoneFailed DEF made
<1>16. /\ Len(steps) = Len(calls) + Len(after) /\ Len(steps) \in Nat /\ Len(calls) <= Len(steps)
       /\ \A n \in 1 .. Len(calls) : steps[n] = calls[n]
       /\ \A n \in 1 .. Len(after) : steps[Len(calls) + n] = after[n]
  <2> HIDE DEF calls, after
  <2>1. /\ Len(calls \o after) = Len(calls) + Len(after)
        /\ \A n \in 1 .. Len(calls) : (calls \o after)[n] = calls[n]
        /\ \A n \in 1 .. Len(after) : (calls \o after)[Len(calls) + n] = after[n]
    BY <1>12, <1>14, JoinedIs
  <2> QED
    BY <1>3, <1>12, <1>14, <2>1
<1>17. f[Len(calls)].calls = argss
  <2>1. BeginWith(steps, d.element, argss)
    BY <1>11, <1>16 DEF BeginWith
  <2> DEFINE el == d.element  declared == c.created  none == {}
  <2>2. /\ IsClass(el) /\ el.does.kind = "code" /\ IsSequence(argss) /\ Len(steps) \in Nat
        /\ BeginWith(steps, el, argss) /\ Passes(f, steps, cx, declared, none)
    BY <1>4, <1>9, <1>15, <1>16, <2>1
  <2> HIDE DEF el, declared, none
  <2>3. f[Len(Calls(el, argss))].calls = argss
    BY <2>2, CallsMade
  <2> QED
    BY <2>3 DEF el
<1> HIDE DEF calls
<1>18. /\ made.calls = argss
       /\ c.cls # "probe" => \A v \in DOMAIN seqs : Published(made.ctx, ValuesKey(v), List(seqs[v]))
  <2>1. CASE c.cls = "probe"
    <3>1. after = <<>>
      BY <2>1
    <3>2. Len(after) = 0
      BY <3>1
    <3> HIDE DEF after
    <3>3. Len(steps) = Len(calls)
      BY <1>12, <1>16, <3>2
    <3> QED
      BY <1>15, <1>17, <2>1, <3>3 DEF Passes, made
  <2>2. CASE c.cls # "probe"
    <3>1. after = Publish(seqs)
      BY <2>2
    <3>2. DOMAIN names \subseteq Int /\ IsSequence(names) /\ Range(names) = DOMAIN seqs
          /\ (\A i, j \in DOMAIN names : names[i] = names[j] => i = j)
          /\ (\A i \in DOMAIN names : names[i] \in Int)
      <4>1. /\ Cardinality(DOMAIN seqs) \in Nat /\ Len(names) = Cardinality(DOMAIN seqs)
            /\ IsSequence(names) /\ Range(names) = DOMAIN seqs
            /\ Enumerates(names, Cardinality(DOMAIN seqs), DOMAIN seqs)
        BY <1>4, <1>6, NamesOf, Zenon
      <4> HIDE DEF names
      <4>2. DOMAIN names = 1 .. Cardinality(DOMAIN seqs)
        BY <4>1, SequenceShape
      <4> QED
        BY <1>4, <1>6, <4>1, <4>2 DEF Enumerates
    <3>3. DOMAIN after = DOMAIN names /\ after = [j \in DOMAIN names |-> after[j]]
          /\ \A j \in DOMAIN names : after[j] = Setting(ValuesKey(names[j]), List(seqs[names[j]]))
      <4> HIDE DEF after
      <4> QED
        BY <3>1 DEF Publish
    <3> HIDE DEF names, after
    <3>4. Len(after) = Len(names) /\ DOMAIN names = 1 .. Len(names) /\ Len(names) \in Nat
      BY <3>2, <3>3, SequenceShape, SequenceOf1
    <3>5. \A j \in DOMAIN names : steps[Len(calls) + j] = Setting(ValuesKey(names[j]), List(seqs[names[j]]))
      BY <1>16, <3>3, <3>4
    <3>6. Len(steps) = Len(calls) + Len(names)
      BY <1>16, <3>4
    <3>7. /\ Perform(steps, cx).calls = f[Len(calls)].calls
          /\ \A j \in DOMAIN names :
               Published(Perform(steps, cx).ctx, ValuesKey(names[j]), List(seqs[names[j]]))
      BY <1>12, <1>15, <1>16, <3>2, <3>5, <3>6, AllPublished
    <3>8. ASSUME NEW v \in DOMAIN seqs PROVE Published(made.ctx, ValuesKey(v), List(seqs[v]))
      <4>1. PICK j \in DOMAIN names : names[j] = v
        BY <3>2 DEF Range
      <4> QED
        BY <3>7, <4>1 DEF made
    <3> QED
      BY <1>17, <3>7, <3>8 DEF made
  <2> QED
    BY <2>1, <2>2
<1>19. SweptBy(iter.steps, c, args, made)
  <2>1. made.calls = [i \in DOMAIN iter.steps |-> SweepArgs(d, args, iter.steps[i])]
    BY <1>18, <1>c
  <2>2. DOMAIN seqs # {}
    BY <1>4, <1>6
  <2> QED
    BY <1>6, <1>7, <1>18, <2>1, <2>2, Zenon DEF SweptBy, seqs, d
<1> QED
  BY <1>19, Zenon DEF made, steps

-----------------------------------------------------------------------------
(* Sweeps are exact                                                        *)

\* A node of a swept class that runs without an error.
SweptNode(node, args, r) ==
    \E steps, made :
        /\ SweptBy(steps, node.class, args, made) /\ r.calls = made.calls
        /\ node.class.cls # "probe" =>
             r.ctx = made.ctx /\ r.data = Output(node.class, Len(made.calls))

LEMMA SweepProcessed ==
    ASSUME NEW node, NodeOk(node), node.class.does.kind = "sweep", NEW given, DataOk(given),
           NEW cx, IsContext(cx), Process(node, given, cx).error = "none"
    PROVE  /\ SweepOk(node.class)
           /\ SweptNode(node, Parameters(node.class, node.config, cx).args, Process(node, given, cx))
<1> DEFINE c == node.class
           p == Parameters(c, node.config, cx)
           r == Process(node, given, cx)
           d == IF given = Nothing /\ ~IsContextNode(node) /\ node.class.in = "NoData"
                THEN NoData ELSE given
           made == Perform(RunSweep(c, p.args), cx)
<1>1. ~IsClass(c)
  BY UserClass
<1>2. node.kind \in {"operation", "probe", "source", "sink"} /\ c.cls = node.kind /\ SweepOk(c)
      /\ ClassOk(c) /\ IsMapping(node.config)
  BY <1>1 DEF NodeOk, NodeKinds, IsWorker
<1>3. node.kind \in {"operation", "probe", "source"}
  BY <1>2 DEF SweepOk
<1>4. r = ProcessWith(p, node, d, cx)
  <2>1. ~IsContextNode(node) /\ node.kind # "contextData"
    BY <1>3 DEF IsContextNode
  <2>2. r = IF ~Sub(d.type, c.in) THEN Result("gate", d, cx, <<>>) ELSE ProcessWith(p, node, d, cx)
    BY <2>1, Zenon DEF Process
  <2>3. r.error = "none" /\ Result("gate", d, cx, <<>>).error = "gate"
    BY DEF Result
  <2> HIDE DEF r, d
  <2> QED
    BY <2>2, <2>3
<1> HIDE DEF r, d
<1>a. r.error = "none"
  BY DEF r
<1>5. p.error = "none"
  <2> SUFFICES ASSUME p.error # "none" PROVE FALSE
    OBVIOUS
  <2>1. r = Refused(p, d, cx)
    BY <1>4 DEF ProcessWith
  <2> HIDE DEF p
  <2> QED
    BY <1>a, <2>1 DEF Refused, Result
<1>6. IsMapping(p.args) /\ DOMAIN p.args = c.names
  BY <1>2, <1>5, ParametersOk
<1>7. Run(c, p.args, d.size) = RunSweep(c, p.args)
  BY DEF Run
<1> DEFINE performed == Perform(Run(c, p.args, d.size), cx)
<1>8. performed = made
  BY <1>7
<1>9. r = IF node.kind = "probe" THEN ProbeNodeResult(node, d, made) ELSE ItemResult(c, d, made)
  <2>1. r = IF node.kind = "probe" THEN ProbeNodeResult(node, d, performed) ELSE ItemResult(c, d, performed)
    <3> HIDE DEF p, performed
    <3>1. node.kind # "context" /\ node.kind # "payloadSource" /\ node.kind # "injector"
      BY <1>3
    <3>2. ProcessWith(p, node, d, cx) =
            IF node.kind = "probe" THEN ProbeNodeResult(node, d, performed) ELSE ItemResult(c, d, performed)
      <4>1. CASE node.kind = "probe"
        BY <1>5, <3>1, <4>1 DEF ProcessWith, performed
      <4>2. CASE node.kind # "probe"
        BY <1>5, <3>1, <4>2 DEF ProcessWith, performed
      <4> QED
        BY <4>1, <4>2
    <3> QED
      BY <1>4, <3>2
  <2> HIDE DEF performed, made
  <2> QED
    BY <1>8, <2>1
<1> HIDE DEF p
<1>10. /\ made.error = "none" /\ r.calls = made.calls
       /\ c.cls # "probe" => r.ctx = made.ctx /\ r.data = Output(c, Len(made.calls))
  <2> HIDE DEF made
  <2>1. CASE node.kind = "probe"
    <3>1. r = ProbeNodeResult(node, d, made)
      BY <1>9, <2>1
    <3> QED
      BY <1>2, <1>a, <2>1, <3>1 DEF ProbeNodeResult, Passed, Result
  <2>2. CASE node.kind # "probe"
    <3>1. r = ItemResult(c, d, made) /\ c.cls # "sink"
      BY <1>2, <1>3, <1>9, <2>2
    <3> QED
      BY <1>a, <3>1 DEF ItemResult, Passed, Result
  <2> QED
    BY <2>1, <2>2
<1>11. PICK steps : SweptBy(steps, c, p.args, made)
  BY <1>2, <1>6, <1>10, SweepCompletes
<1>12. SweptNode(node, p.args, r)
  BY <1>10, <1>11 DEF SweptNode
<1> QED
  BY <1>2, <1>12 DEF p, r

\* What the last node did, when it was of a swept class and completed.
SweptOk ==
    last.op = "node" /\ last.error = "none" /\ nodes[Len(trail)].class.does.kind = "sweep" =>
        LET node == nodes[Len(trail)] IN
        /\ SweepOk(node.class)
        /\ SweptNode(node, Parameters(node.class, node.config, last.before).args,
                     [calls |-> last.calls, ctx |-> ctx, data |-> data])

LEMMA SweptStep == RunInv /\ SweptOk /\ [Next]_vars => SweptOk'
<1> SUFFICES ASSUME RunInv, SweptOk, [Next]_vars PROVE SweptOk'
  OBVIOUS
<1>1. CASE UNCHANGED vars
  BY <1>1 DEF vars, SweptOk
<1>2. CASE Inspect
  BY <1>2 DEF Inspect, SweptOk
<1>3. CASE Instantiate
  BY <1>3 DEF Instantiate, SweptOk
<1>4. CASE RunNode
  <2> DEFINE node == nodes[at]
             r == Process(node, data, ctx)
  <2>1. /\ step = "run" /\ ctx' = r.ctx /\ data' = (IF r.error = "none" THEN r.data ELSE data)
        /\ trail' = Append(trail, Keys(r.ctx)) /\ nodes' = nodes
        /\ last' = [op |-> "node", error |-> r.error, missing |-> r.missing, calls |-> r.calls,
                    passed |-> KeysPresent(node, ctx), sources |-> Sources(node, ctx), before |-> ctx]
    BY <1>4 DEF RunNode
  <2>2. /\ Len(pipe) \in Nat /\ DOMAIN pipe = 1 .. Len(pipe) /\ at \in 1 .. Len(pipe)
        /\ IsSequence(trail) /\ Len(trail) = at - 1
        /\ \A i \in DOMAIN pipe : nodes[i].error = "none"
    BY <2>1, SequenceShape DEF RunInv, PipeOk, PlaceOk
  <2>3. NodeOk(node)
    BY <2>2, NodesAre DEF RunInv
  <2>4. Len(trail') = at
    BY <2>1, <2>2, Appended
  <2>5. nodes'[Len(trail')] = node
    BY <2>1, <2>4
  <2>6. IsContext(ctx) /\ DataOk(data)
    BY DEF RunInv, PayloadOk
  <2> HIDE DEF node
  <2>7. r.error = "none" /\ node.class.does.kind = "sweep" =>
          /\ SweepOk(node.class)
          /\ SweptNode(node, Parameters(node.class, node.config, ctx).args, r)
    BY <2>3, <2>6, SweepProcessed
  <2> HIDE DEF r
  <2>8. last'.error = r.error /\ last'.calls = r.calls /\ last'.before = ctx
    BY <2>1
  <2>9. r.error = "none" => data' = r.data /\ ctx' = r.ctx
    BY <2>1
  <2> SUFFICES ASSUME r.error = "none", node.class.does.kind = "sweep"
               PROVE  /\ SweepOk(node.class)
                      /\ SweptNode(node, Parameters(node.class, node.config, ctx).args,
                                   [calls |-> r.calls, ctx |-> r.ctx, data |-> r.data])
    BY <2>5, <2>8, <2>9 DEF SweptOk
  <2> QED
    BY <2>7 DEF SweptNode
<1>5. CASE Calls8
  <2>1. last'.op # "node"
    BY <1>5 DEF Calls8, AppendContext, Set, SetItem, DeleteKey, DeleteItem, ClearAll, WriteView,
                DeleteInView, Call, NoLast
  <2> QED
    BY <2>1 DEF SweptOk
<1> QED
  BY <1>1, <1>2, <1>3, <1>4, <1>5 DEF Next, Calls8

\* The calls of a sweep, as the property has them.
CallsAre(d, seqs, args, calls) ==
    LET n    == Len(calls)
        used == {d.exprs[p] : p \in DOMAIN d.exprs}
        value(i, v) == calls[i][CHOOSE p \in DOMAIN d.exprs : d.exprs[p] = v]
        drawn(i) == [v \in used |-> value(i, v)]
    IN  /\ IF d.mode = "combinatorial"
           THEN /\ n = ProductOver([v \in DOMAIN seqs |-> Len(seqs[v])], DOMAIN seqs)
                /\ {drawn(i) : i \in 1 .. n} =
                     {f \in [used -> UNION {Range(seqs[v]) : v \in used}] :
                        \A v \in used : f[v] \in Range(seqs[v])}
           ELSE /\ d.broadcast \/ \A v \in DOMAIN seqs : Len(seqs[v]) = n
                /\ \E v \in DOMAIN seqs : Len(seqs[v]) = n
                /\ \A v \in DOMAIN seqs : Len(seqs[v]) <= n
                /\ \A i \in 1 .. n, v \in used :
                     value(i, v) = seqs[v][((i - 1) % Len(seqs[v])) + 1]
        /\ \A i \in 1 .. n, p \in d.free : calls[i][p] = args[p]

LEMMA CallsExact ==
    ASSUME NEW c, SweepOk(c), NEW args, NEW steps, NEW made, SweptBy(steps, c, args, made)
    PROVE  CallsAre(c.does, Materialize(c.does.vars, args), args, made.calls)
<1> DEFINE d     == c.does
           seqs  == Materialize(d.vars, args)
           calls == made.calls
           used  == {d.exprs[p] : p \in DOMAIN d.exprs}
           by(v) == CHOOSE p \in DOMAIN d.exprs : d.exprs[p] = v
           value(i, v) == calls[i][by(v)]
           drawn(i) == [v \in used |-> value(i, v)]
           all   == {f \in [used -> UNION {Range(seqs[v]) : v \in used}] :
                        \A v \in used : f[v] \in Range(seqs[v])}
<1>1. /\ DOMAIN seqs = DOMAIN d.vars /\ DOMAIN seqs # {} /\ AreLists(seqs)
      /\ Swept(steps, seqs, d.mode, d.broadcast)
      /\ calls = [i \in DOMAIN steps |-> SweepArgs(d, args, steps[i])]
  BY DEF SweptBy
<1>2. /\ d.free \intersect DOMAIN d.exprs = {}
      /\ \A p \in DOMAIN d.exprs : d.exprs[p] \in DOMAIN d.vars
  BY DEF SweepOk
<1> HIDE DEF d, seqs, calls
<1>3. /\ Len(steps) \in Nat /\ DOMAIN steps = 1 .. Len(steps)
      /\ \A i \in DOMAIN steps : DOMAIN steps[i] = DOMAIN seqs
  BY <1>1, SequenceShape DEF Swept, AreSteps
<1>4. Len(calls) = Len(steps)
  <2>1. calls = [i \in 1 .. Len(steps) |-> calls[i]]
    BY <1>1, <1>3
  <2> QED
    BY <1>3, <2>1, SequenceOf1
<1>5. \A v \in used : by(v) \in DOMAIN d.exprs /\ d.exprs[by(v)] = v
  <2> SUFFICES ASSUME NEW v \in used PROVE by(v) \in DOMAIN d.exprs /\ d.exprs[by(v)] = v
    OBVIOUS
  <2>1. \E p \in DOMAIN d.exprs : d.exprs[p] = v
    OBVIOUS
  <2> QED
    BY <2>1, Zenon
<1>6. used \subseteq DOMAIN seqs
  BY <1>1, <1>2
<1>7. ASSUME NEW i \in DOMAIN steps
      PROVE  /\ \A p \in DOMAIN d.exprs : calls[i][p] = steps[i][d.exprs[p]]
             /\ \A p \in d.free : calls[i][p] = args[p]
  <2>1. calls[i] = Over([p \in DOMAIN d.exprs |-> steps[i][d.exprs[p]]], Restrict(args, d.free))
    BY <1>1 DEF SweepArgs
  <2> QED
    BY <1>2, <2>1 DEF Over, Restrict
<1>8. ASSUME NEW i \in DOMAIN steps, NEW v \in used PROVE value(i, v) = steps[i][v]
  <2>1. calls[i][by(v)] = steps[i][d.exprs[by(v)]]
    BY <1>5, <1>7
  <2> QED
    BY <1>5, <2>1
<1> HIDE DEF by
<1>9. ASSUME d.mode = "combinatorial"
      PROVE  /\ Len(calls) = ProductOver([v \in DOMAIN seqs |-> Len(seqs[v])], DOMAIN seqs)
             /\ {drawn(i) : i \in 1 .. Len(calls)} = all
  <2>1. Crossed(steps, seqs)
    BY <1>1, <1>9 DEF Swept
  <2>2. /\ \A i \in DOMAIN steps, v \in DOMAIN seqs : steps[i][v] \in Range(seqs[v])
        /\ \A f : (\A v \in DOMAIN seqs : f[v] \in Range(seqs[v])) =>
                    \E i \in DOMAIN steps : \A v \in DOMAIN seqs : steps[i][v] = f[v]
        /\ Len(steps) = ProductOver([v \in DOMAIN seqs |-> Len(seqs[v])], DOMAIN seqs)
    BY <2>1 DEF Crossed
  <2>3. ASSUME NEW i \in DOMAIN steps PROVE drawn(i) \in all
    <3>1. \A v \in used : value(i, v) \in Range(seqs[v])
      BY <1>6, <1>8, <2>2
    <3> HIDE DEF used, value
    <3> QED
      BY <3>1
  <2>4. ASSUME NEW g \in all PROVE \E i \in DOMAIN steps : drawn(i) = g
    <3> DEFINE f == [v \in DOMAIN seqs |-> IF v \in used THEN g[v] ELSE seqs[v][1]]
    <3>1. g = [v \in used |-> g[v]] /\ \A v \in used : g[v] \in Range(seqs[v])
      <4> HIDE DEF used
      <4> QED
        OBVIOUS
    <3>2. ASSUME NEW v \in DOMAIN seqs PROVE f[v] \in Range(seqs[v])
      <4>1. seqs[v][1] \in Range(seqs[v])
        <5>1. 1 \in DOMAIN seqs[v]
          BY <1>1, SequenceShape DEF AreLists
        <5> QED
          BY <5>1 DEF Range
      <4> HIDE DEF used
      <4> QED
        BY <3>1, <4>1
    <3> HIDE DEF f
    <3>3. PICK i \in DOMAIN steps : \A v \in DOMAIN seqs : steps[i][v] = f[v]
      BY <2>2, <3>2
    <3>4. \A v \in used : f[v] = g[v]
      BY <1>6 DEF f
    <3>5. \A v \in used : value(i, v) = g[v]
      BY <1>6, <1>8, <3>3, <3>4
    <3> HIDE DEF used, value
    <3>6. drawn(i) = g
      BY <3>1, <3>5
    <3> QED
      BY <3>6
  <2> HIDE DEF drawn, all
  <2> QED
    BY <1>3, <1>4, <2>2, <2>3, <2>4
<1>10. ASSUME d.mode # "combinatorial"
       PROVE  /\ d.broadcast \/ \A v \in DOMAIN seqs : Len(seqs[v]) = Len(calls)
              /\ \E v \in DOMAIN seqs : Len(seqs[v]) = Len(calls)
              /\ \A v \in DOMAIN seqs : Len(seqs[v]) <= Len(calls)
              /\ \A i \in 1 .. Len(calls), v \in used :
                   value(i, v) = seqs[v][((i - 1) % Len(seqs[v])) + 1]
  <2>1. Aligned(steps, seqs, d.broadcast)
    BY <1>1, <1>10 DEF Swept
  <2> HIDE DEF used, value
  <2> QED
    BY <1>3, <1>4, <1>6, <1>8, <2>1 DEF Aligned
<1>11. \A i \in 1 .. Len(calls), p \in d.free : calls[i][p] = args[p]
  BY <1>3, <1>4, <1>7
<1> QED
  <2>1. IF d.mode = "combinatorial"
        THEN /\ Len(calls) = ProductOver([v \in DOMAIN seqs |-> Len(seqs[v])], DOMAIN seqs)
             /\ {drawn(i) : i \in 1 .. Len(calls)} = all
        ELSE /\ d.broadcast \/ \A v \in DOMAIN seqs : Len(seqs[v]) = Len(calls)
             /\ \E v \in DOMAIN seqs : Len(seqs[v]) = Len(calls)
             /\ \A v \in DOMAIN seqs : Len(seqs[v]) <= Len(calls)
             /\ \A i \in 1 .. Len(calls), v \in used :
                  value(i, v) = seqs[v][((i - 1) % Len(seqs[v])) + 1]
    <3> HIDE DEF used, value, drawn, all
    <3> QED
      BY <1>9, <1>10
  <2> QED
    BY <1>11, <2>1, Zenon DEF CallsAre, d, seqs, calls, by

LEMMA SweptExactly == SweptOk => SweepExact
<1> SUFFICES ASSUME SweptOk, last.op = "node", last.error = "none",
                    nodes[Len(trail)].class.does.kind = "sweep"
             PROVE  SweepExact
  BY DEF SweepExact
<1> DEFINE node == nodes[Len(trail)]
           c    == node.class
           d    == c.does
           args == Parameters(node.class, node.config, last.before).args
           seqs == Materialize(d.vars, args)
           r    == [calls |-> last.calls, ctx |-> ctx, data |-> data]
<1>1. SweepOk(c) /\ SweptNode(node, args, r)
  BY DEF SweptOk
<1>2. PICK steps, made : /\ SweptBy(steps, c, args, made) /\ r.calls = made.calls
                         /\ c.cls # "probe" => r.ctx = made.ctx /\ r.data = Output(c, Len(made.calls))
  BY <1>1 DEF SweptNode
<1>3. CallsAre(d, seqs, args, last.calls)
  <2>1. last.calls = made.calls
    BY <1>2
  <2>2. CallsAre(c.does, Materialize(c.does.vars, args), args, made.calls)
    <3> HIDE DEF c, args
    <3> QED
      BY <1>1, <1>2, CallsExact
  <2> QED
    BY <2>1, <2>2
<1>4. ASSUME c.cls # "probe"
      PROVE  /\ data = [type |-> c.out, size |-> Len(last.calls)]
             /\ \A v \in DOMAIN seqs : ValuesKey(v) \notin ItemKeys(ctx) =>
                  GetValue(ctx, ValuesKey(v)) = Value(List(seqs[v]))
  <2>1. ctx = made.ctx /\ data = Output(c, Len(last.calls))
    BY <1>2, <1>4
  <2>2. \A v \in DOMAIN seqs : Published(ctx, ValuesKey(v), List(seqs[v]))
    BY <1>2, <1>4, <2>1 DEF SweptBy
  <2>3. \A v \in DOMAIN seqs : ValuesKey(v) \notin ItemKeys(ctx) =>
                  GetValue(ctx, ValuesKey(v)) = Value(List(seqs[v]))
    <3> HIDE DEF seqs
    <3> QED
      BY <2>2, PublishedReads
  <2>4. MakesMany(c)
    BY DEF MakesMany
  <2> QED
    BY <2>1, <2>3, <2>4 DEF Output
<1> HIDE DEF r
<1> QED
  BY <1>3, <1>4, Zenon DEF SweepExact, CallsAre, node, c, d, args, seqs

\* A node of a swept class that completes makes one call of its element for each
\* combination of the values of its variables, or for each position of the longest of
\* them, with what the node was given for the other parameters, and hands on a
\* collection of as many items and a context with the values of every variable
\* (parametric_sweep_factory.py).
THEOREM SweepsAreExact == Spec => []SweepExact
<1>1. Init => RunInv /\ SweptOk
  <2>1. Init => SweptOk
    BY DEF Init, NoLast, SweptOk
  <2> QED
    BY <2>1, RunInit
<1>2. RunInv /\ SweptOk /\ [Next]_vars => (RunInv /\ SweptOk)'
  BY NextKeeps, SweptStep
<1> QED
  BY <1>1, <1>2, SweptExactly, PTL DEF Spec

================================================================================
