------------------------------ MODULE Collections -----------------------------
(***************************************************************************)
(* What the code does with Python's lists, for sets and functions in place *)
(* of the predicates that no lemma could be about: a list comprehension    *)
(* that filters, and sorted(); and, for properties, the sum over a set.    *)
(***************************************************************************)
EXTENDS Integers, Sequences, FiniteSets

(* The elements of q that are in S, in their order.                        *)
Only(q, S) ==
  LET upto[k \in 0..Len(q)] ==
        IF k = 0 THEN <<>>
        ELSE IF q[k] \in S THEN Append(upto[k - 1], q[k]) ELSE upto[k - 1]
  IN  upto[Len(q)]

(* The places of a list in their new order, when before[j] are the places  *)
(* that come before place j.                                               *)
Ranked(before) ==
  [k \in DOMAIN before |-> CHOOSE j \in DOMAIN before : Cardinality(before[j]) = k - 1]

(* The joules of a set of requests, one element each, so that their sum is *)
(* a cardinality.                                                          *)
JouleUnits(S, energy) == UNION {{r} \X (1..energy[r]) : r \in S}
=============================================================================
