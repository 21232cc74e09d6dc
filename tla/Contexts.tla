-------------------------------- MODULE Contexts --------------------------------
(***************************************************************************)
(* The context of a payload and the ways to read and write it              *)
(* (context_processors/context_types.py, context_observer.py).             *)
(*                                                                         *)
(* A single context is a mapping of keys to values. A collection has a     *)
(* global mapping and one mapping per item; a key that is in both is a     *)
(* conflict, which most operations refuse. Every operation is an operator  *)
(* that gives an error ("none" when there is none) with the context it     *)
(* leaves or the value it returns.                                         *)
(***************************************************************************)
EXTENDS Integers, Sequences, SequencesExt, FiniteSetsExt

\* Values. A list is a sequence of values.
None      == [kind |-> "none", n |-> 0, of |-> <<>>]
Scalar(n) == [kind |-> "scalar", n |-> n, of |-> <<>>]
List(s)   == [kind |-> "list", n |-> 0, of |-> s]

NoKeys == [k \in {} |-> None]
Only(k, v)     == [x \in {k} |-> v]
Over(f, g)     == [x \in DOMAIN f \union DOMAIN g |-> IF x \in DOMAIN f THEN f[x] ELSE g[x]]
With(f, k, v)  == Over(Only(k, v), f)
Without(f, k)  == Restrict(f, DOMAIN f \ {k})
At(f, k)       == IF k \in DOMAIN f THEN f[k] ELSE None

Single(f)          == [kind |-> "single", global |-> f, items |-> <<>>]
Collection(g, fs)  == [kind |-> "collection", global |-> g, items |-> fs]

\* What a value and a context are; of the members of a list only the kind matters.
Kinds == {"none", "scalar", "list"}
IsSequence(s) == s \in Seq(Range(s))
IsValue(v) ==
    /\ v = [kind |-> v.kind, n |-> v.n, of |-> v.of] /\ v.kind \in Kinds
    /\ IsSequence(v.of) /\ \A i \in DOMAIN v.of : v.of[i].kind \in Kinds
IsMapping(f) == \A k \in DOMAIN f : IsValue(f[k])
IsContext(c) ==
    /\ c = [kind |-> c.kind, global |-> c.global, items |-> c.items]
    /\ c.kind \in {"single", "collection"} /\ (c.kind = "single" => c.items = <<>>)
    /\ IsSequence(c.items)
    /\ IsMapping(c.global) /\ \A i \in DOMAIN c.items : IsMapping(c.items[i])

Done(c)        == [error |-> "none", ctx |-> c]
Failed(why, c) == [error |-> why, ctx |-> c]
Value(v)       == [error |-> "none", value |-> v]
NoValue(why)   == [error |-> why, value |-> None]
-----------------------------------------------------------------------------
(* ContextType and ContextCollectionType *)

ItemKeys(c)  == UNION {DOMAIN c.items[i] : i \in DOMAIN c.items}
Conflicts(c) == DOMAIN c.global \intersect ItemKeys(c)
Keys(c)      == DOMAIN c.global \union ItemKeys(c)

\* keys() of a collection raises ValueError on any conflict.
KeysError(c) == IF Conflicts(c) = {} THEN "none" ELSE "value"

GetValue(c, k) ==
    LET own == [i \in DOMAIN c.items |-> At(c.items[i], k)]
        held == \E i \in DOMAIN own : own[i] # None
    IN  IF k \in DOMAIN c.global
        THEN IF held THEN NoValue("value") ELSE Value(c.global[k])
        ELSE IF held THEN Value(List(own)) ELSE Value(None)

AppendItem(c, f) == Done([c EXCEPT !.items = Append(@, f)])

SetGlobal(c, k, v) == Done([c EXCEPT !.global = With(@, k, v)])

SetValueGlobally(c, k, v) == SetGlobal(c, k, v)      \* mutant: the items are not looked at

\* A key of the items is set in every item, even in those that lack it.
SetValue(c, k, v) ==
    IF c.kind = "single" \/ k \in DOMAIN c.global THEN SetGlobal(c, k, v)
    ELSE IF KeysError(c) # "none" THEN Failed(KeysError(c), c)
    ELSE IF k \in ItemKeys(c)
    THEN Done([c EXCEPT !.items = [i \in DOMAIN c.items |-> With(c.items[i], k, v)]])
    ELSE SetGlobal(c, k, v)

SetItemValue(c, i, k, v) ==
    IF k \in DOMAIN c.global THEN Failed("value", c)
    ELSE IF i \notin DOMAIN c.items THEN Failed("index", c)
    ELSE Done([c EXCEPT !.items[i] = With(@, k, v)])

DeleteItemValue(c, i, k) ==
    IF i \notin DOMAIN c.items THEN Failed("index", c)
    ELSE IF k \notin DOMAIN c.items[i] THEN Failed("key", c)
    ELSE Done([c EXCEPT !.items[i] = Without(@, k)])

DeleteValue(c, k) ==
    IF k \notin Keys(c) THEN Failed("key", c)
    ELSE Done([c EXCEPT !.global = Without(@, k),
                        !.items = [i \in DOMAIN c.items |-> Without(c.items[i], k)]])

Clear(c) == Done([c EXCEPT !.global = NoKeys, !.items = [i \in DOMAIN c.items |-> NoKeys]])

\* get_item: one merged context, unless a key of the item is also global.
GetItem(c, i) ==
    IF DOMAIN c.items[i] \intersect DOMAIN c.global # {} THEN NoValue("value")
    ELSE Value(Over(c.items[i], c.global))

\* get_slice_context: a view of the item over the globals, never refused.
Slice(c, i) == Over(c.items[i], c.global)
-----------------------------------------------------------------------------
(* _ContextObserver. Without an index it acts on the context as a whole;   *)
(* a slice is written in the mapping of its item, whatever is global.      *)

WriteSlice(c, i, k, v) == Done([c EXCEPT !.items[i] = With(@, k, v)])
DeleteInSlice(c, i, k) ==
    IF k \notin DOMAIN c.items[i] THEN Failed("key", c)
    ELSE Done([c EXCEPT !.items[i] = Without(@, k)])

UpdateContext(c, k, v) == SetValue(c, k, v)
DeleteContext(c, k)    == DeleteValue(c, k)

\* _ValidatingContextObserver: only declared keys.
ValidatedUpdate(c, k, v, declared) ==
    IF k \in declared THEN UpdateContext(c, k, v) ELSE Failed("key", c)
ValidatedDelete(c, k, declared) ==
    IF k \in declared THEN DeleteContext(c, k) ELSE Failed("key", c)

\* What code does to a context is a sequence of steps: it calls user code, or it
\* changes the context, or it gives up.
Calling(args)             == [do |-> "call", args |-> args]
Setting(k, v)             == [do |-> "set", key |-> k, value |-> v]
Updating(k, v, declared)  == [do |-> "update", key |-> k, value |-> v, declared |-> declared]
Deleting(k, declared)     == [do |-> "delete", key |-> k, declared |-> declared]
Adding(k, v)              == [do |-> "add", key |-> k, value |-> v]
SettingItem(i, k, v)      == [do |-> "setItem", item |-> i, key |-> k, value |-> v]
Failing(why)              == [do |-> "fail", why |-> why]

\* A key that is there already cannot be added.
AddKey(c, k, v) ==
    IF KeysError(c) # "none" THEN Failed(KeysError(c), c)
    ELSE IF k \in Keys(c) THEN Failed("key", c) ELSE SetValue(c, k, v)

Effect(c, s) ==
    CASE s.do = "set" -> UpdateContext(c, s.key, s.value)
      [] s.do = "update" -> ValidatedUpdate(c, s.key, s.value, s.declared)
      [] s.do = "delete" -> ValidatedDelete(c, s.key, s.declared)
      [] s.do = "add" -> AddKey(c, s.key, s.value)
      [] s.do = "setItem" -> SetItemValue(c, s.item, s.key, s.value)
      [] s.do = "fail" -> Failed(s.why, c)

\* A step that fails is the last one.
Advance(at, s) ==
    IF at.error # "none" THEN at
    ELSE IF s.do = "call" THEN [at EXCEPT !.calls = Append(@, s.args)]
    ELSE LET after == Effect(at.ctx, s)
         IN  [error |-> after.error, ctx |-> after.ctx, calls |-> at.calls]

Perform(steps, ctx) ==
    LET after[n \in 0 .. Len(steps)] ==
            IF n = 0 THEN [error |-> "none", ctx |-> ctx, calls |-> <<>>]
            ELSE Advance(after[n - 1], steps[n])
    IN  after[Len(steps)]

\* What the trace sees of a context: to_dict() of a collection has two entries of its own.
GlobalEntry == 98
LocalsEntry == 99
Entries == {GlobalEntry, LocalsEntry}
View(c) == IF c.kind = "single" THEN DOMAIN c.global ELSE Entries
================================================================================
