------------------------------- MODULE Lists -------------------------------
(***************************************************************************)
(* The list comprehensions of the code, as operators that the proofs can   *)
(* speak about: what is kept is a set, not a test.                         *)
(***************************************************************************)
EXTENDS Integers, Sequences, FiniteSets, SequencesExt

\* [x for x in s if x in T].
Those(s, T) == FlattenSeq([i \in DOMAIN s |-> IF s[i] \in T THEN <<s[i]>> ELSE <<>>])

\* sorted(S), of a set of numbers: each comes after those less than it.
Sorted(S) ==
    [k \in 1 .. Cardinality(S) |-> CHOOSE x \in S : Cardinality({y \in S : y < x}) = k - 1]
=============================================================================
