----------------------------- MODULE Selections -----------------------------
(***************************************************************************)
(* The sort and the filter of a list, for the modules that theorems are    *)
(* proved about: SetToSortSeq and SelectSeq of the community modules rest  *)
(* on operators that the provers do not know.  An order is a set of pairs, *)
(* and a filter the set of the positions that stay, so that the facts      *)
(* about them are about sets.                                              *)
(***************************************************************************)
EXTENDS Integers, FiniteSets, SequencesExt

(* before orders the members of S.                                         *)
IsOrder(S, before) ==
  /\ \A x, y \in S : x = y \/ <<x, y>> \in before \/ <<y, x>> \in before
  /\ \A x, y \in S : ~(<<x, y>> \in before /\ <<y, x>> \in before)
  /\ \A x, y, z \in S : <<x, y>> \in before /\ <<y, z>> \in before => <<x, z>> \in before

Preceding(S, before, x) == {y \in S : <<y, x>> \in before}

(* The members of S in that order.                                         *)
Ranked(S, before) ==
  [n \in 1 .. Cardinality(S) |-> CHOOSE x \in S : Cardinality(Preceding(S, before, x)) = n - 1]

(* What stays of s when only the positions in "kept" do.                   *)
Ascending(kept) == {p \in kept \X kept : p[1] < p[2]}
Selected(s, kept) ==
  LET positions == Ranked(kept, Ascending(kept)) IN [n \in DOMAIN positions |-> s[positions[n]]]

(* Its members that belong to T, and those that do not.                    *)
Among(s, T) == Selected(s, {n \in DOMAIN s : s[n] \in T})
Apart(s, T) == Selected(s, {n \in DOMAIN s : s[n] \notin T})
=============================================================================
