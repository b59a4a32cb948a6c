---------------------------- MODULE PoolContent ----------------------------
(***************************************************************************)
(* What muxContent promises (content.go:534-593): the fate of every media  *)
(* pool is decided once, in any order, before it returns, and it reports   *)
(* an error only if a pool was denied.                                     *)
(***************************************************************************)
CONSTANT Pools

VARIABLES
  fate,  \* of every pool
  result \* of muxContent, "none" while it runs

vars == <<fate, result>>

Init == fate = [p \in Pools |-> "pending"] /\ result = "none"

Decide(p) ==
  /\ result = "none"
  /\ fate[p] = "pending"
  /\ \E f \in {"served", "denied"} : fate' = [fate EXCEPT ![p] = f]
  /\ UNCHANGED result

Return ==
  /\ result = "none"
  /\ \A p \in Pools : fate[p] # "pending"
  /\ \/ result' = "ok"
     \/ result' = "error" /\ \E p \in Pools : fate[p] = "denied"
  /\ UNCHANGED fate

Next == (\E p \in Pools : Decide(p)) \/ Return

Spec == Init /\ [][Next]_vars
=============================================================================
