----------------------------- MODULE Enumeration -----------------------------
(***************************************************************************)
(* Finite sets of numbers in order, as Python's sorted() gives them, and   *)
(* the product over a set that counts combinations. Run spaces and sweeps  *)
(* are built with the first and measured with the second.                  *)
(***************************************************************************)
EXTENDS Integers, Sequences, FiniteSets, Functions

\* The numbers of a finite set, the smallest first.
Sorted(S) ==
    CHOOSE s \in [1 .. Cardinality(S) -> S] : \A i, j \in DOMAIN s : i < j => s[i] < s[j]

\* The product of f[x] for all x of a finite set.
ProductOver(f, S) == FoldFunctionOnSet(LAMBDA x, y : x * y, 1, f, S)
==============================================================================
