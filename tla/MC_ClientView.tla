--------------------------- MODULE MC_ClientView ---------------------------
(* Two servers one after the other, three identifiers of objects.  The     *)
(* kinds have nothing to do with one another: one of them is in use at a   *)
(* time.                                                                   *)
EXTENDS ClientViewInv, FiniteSets, TLC

Symmetry == Permutations(AOIDs)

InUse(kind) ==
  \/ \E id \in Ids(kind) : shown[kind][id] \notin {None, Player}
  \/ tracked[kind] # Untracked[kind]
  \/ \E k \in Conns : packet[k].kind = kind /\ packet[k].op # "own"
OneKind == Cardinality({kind \in Kinds : InUse(kind)}) <= 1

\* Bound: objects of a server at a time, its player object aside.
FewObjects == Cardinality(known) <= 1
\* Bound: no interaction that InteractionReaches says nothing about.
AimedClicks == click.pc # "idle" => click.aim
\* Bound: no message that MessagesReachObject says nothing about.
AimedMessages ==
  \A k \in Conns : packet[k].op = "msg" => Attached(k) /\ packet[k].id \in aimed
===========================================================================
