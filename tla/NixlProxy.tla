------------------------------ MODULE NixlProxy ------------------------------
(***************************************************************************)
(* The proxy behind the disaggregated gate                                 *)
(* (scripts/eenergy/nixl_toy_proxy_server.py): a request is sent to a      *)
(* prefill instance with max_tokens 1, and when that has answered, its     *)
(* decode is streamed from a decode instance.  Each pool is taken in turn. *)
(* Code between two awaits is one action; the two awaits are the prefill   *)
(* request and the stream.  The clients have no timeout, so an instance    *)
(* may never answer.                                                       *)
(***************************************************************************)
EXTENDS Integers, FiniteSets

CONSTANTS
  Requests,
  Instances      \* the number of instances of each pool

Pools == {"prefill", "decode"}

VARIABLES
  leg,    \* how far each request is
  at,     \* the instance each request was given, for either pool
  turn    \* prefill_iterator and decode_iterator: the next instance

nixlVars == <<leg, at, turn>>

Legs == {"none", "prefill", "decode", "refused", "served", "broken"}

Nobody == -1     \* no instance was given

TypeOK ==
  /\ leg \in [Requests -> Legs]
  /\ \A p \in Pools : turn[p] \in 0..(Instances[p] - 1)
  /\ \A p \in Pools, r \in Requests : at[p][r] \in {Nobody} \cup 0..(Instances[p] - 1)

Init ==
  /\ leg = [r \in Requests |-> "none"]
  /\ at = [p \in Pools |-> [r \in Requests |-> Nobody]]
  /\ turn = [p \in Pools |-> 0]

-----------------------------------------------------------------------------
(* Mutant: one iterator serves both pools.                                 *)
NextOfOneIterator(r, p) ==
  /\ at' = [at EXCEPT ![p][r] = turn[p]]
  /\ turn' = [q \in Pools |-> (turn[q] + 1) % Instances[q]]

(* Mutant: the iterator is not a cycle.                                    *)
NextWithoutCycle(r, p) ==
  /\ at' = [at EXCEPT ![p][r] = turn[p]]
  /\ turn' = [turn EXCEPT ![p] = @ + 1]

get_next_client(r, p) ==
  /\ at' = [at EXCEPT ![p][r] = turn[p]]
  /\ turn' = [turn EXCEPT ![p] = (@ + 1) % Instances[p]]

(* _handle_completions, to the await of the prefill instance.              *)
ReceiveRequest(r) ==
  /\ leg[r] = "none"
  /\ leg' = [leg EXCEPT ![r] = "prefill"]
  /\ get_next_client(r, "prefill")

(* The prefill instance has answered.  Its kv_transfer_params go into the  *)
(* request, and the response starts with status 200.                       *)
PrefillReturns(r) ==
  /\ leg[r] = "prefill"
  /\ leg' = [leg EXCEPT ![r] = "decode"]
  /\ get_next_client(r, "decode")

(* It refuses, breaks off or answers an error status: the exception is     *)
(* raised again and the client gets status 500.                            *)
PrefillFails(r) ==
  /\ leg[r] = "prefill"
  /\ leg' = [leg EXCEPT ![r] = "refused"]
  /\ UNCHANGED <<at, turn>>

(* The stream is at its end, or it broke, which raise_for_status may do    *)
(* with its first chunk: the 200 has been sent by then.                    *)
StreamEnds(r) ==
  /\ leg[r] = "decode"
  /\ leg' = [leg EXCEPT ![r] = "served"]
  /\ UNCHANGED <<at, turn>>

StreamBreaks(r) ==
  /\ leg[r] = "decode"
  /\ leg' = [leg EXCEPT ![r] = "broken"]
  /\ UNCHANGED <<at, turn>>

Next ==
  \E r \in Requests :
    \/ ReceiveRequest(r)
    \/ PrefillReturns(r)
    \/ PrefillFails(r)
    \/ StreamEnds(r)
    \/ StreamBreaks(r)

Spec == Init /\ [][Next]_nixlVars

-----------------------------------------------------------------------------
Got(p, i) == {r \in Requests : at[p][r] = i}

(* Each pool's requests are spread evenly over its instances, however      *)
(* requests overlap and whichever of them fail between the two legs: no    *)
(* instance is ever more than one request ahead of another                 *)
(* (get_next_client: "in round-robin fashion").                            *)
LegsBalanced ==
  \A p \in Pools : \A i, j \in 0..(Instances[p] - 1) :
    Cardinality(Got(p, i)) <= Cardinality(Got(p, j)) + 1
=============================================================================
