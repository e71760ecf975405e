---------------------------- MODULE Collections -----------------------------
(***************************************************************************)
(* Totals over dicts and orders without repetition.                        *)
(*                                                                         *)
(* `sum(...)` over a dict is stated as the number of units its keys hold,  *)
(* one pair <<key, unit>> per unit.  Stated this way a sum is a            *)
(* cardinality, so its laws are proved (CollectionTheorems) without        *)
(* induction over a recursive definition.                                  *)
(***************************************************************************)
EXTENDS Integers, FiniteSets, Sequences

\* The units held by the keys in S when key x holds f[x] of them.
Units(f, S) == UNION {{x} \X (1..f[x]) : x \in S}

\* The total of f over the keys in S.
Sum(f, S) == Cardinality(Units(f, S))

\* The elements of a sequence.
Elements(s) == {s[i] : i \in DOMAIN s}

\* No element occurs twice in the sequence s.
Distinct(s) == \A i, j \in DOMAIN s : s[i] = s[j] => i = j

\* The sequences that list every element of the finite set S exactly once.
Orderings(S) ==
    {s \in [1..Cardinality(S) -> S] : Elements(s) = S}

\* The sequence s without its element x, which it holds at most once.
Without(s, x) ==
    IF x \notin Elements(s)
    THEN s
    ELSE LET at == CHOOSE i \in DOMAIN s : s[i] = x
         IN  [i \in 1..(Len(s) - 1) |-> IF i < at THEN s[i] ELSE s[i + 1]]
=============================================================================
