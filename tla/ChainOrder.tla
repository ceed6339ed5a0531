----------------------------- MODULE ChainOrder -----------------------------
(***************************************************************************)
(* Sequences of logs in chain order. A log is a natural number, ordered like *)
(* its position on the chain. (SetToSortSeq and SelectSeq of the libraries   *)
(* have no definition the proof system can expand.)                         *)
(***************************************************************************)
EXTENDS Naturals, Sequences, FiniteSets

\* The members of S in increasing order: member i has i members up to itself.
InOrder(S) ==
    [i \in 1..Cardinality(S) |-> CHOOSE x \in S : Cardinality({y \in S : y <= x}) = i]

\* The members of s that are in T, in the order they have in s.
Among(s, T) ==
    LET at == InOrder({i \in DOMAIN s : s[i] \in T})
    IN [k \in DOMAIN at |-> s[at[k]]]
=============================================================================
