-------------------------- MODULE MC_AuthBackends --------------------------
(* Two callers at the same time, with both backends.  Accounts and bans    *)
(* share no state: a behaviour of the instance has calls of one kind only. *)
EXTENDS AuthBackends, TLC

OneKind ==
  \/ \A g \in Callers : pc[g] \notin WriterPcs \cup ReaderPcs
     /\ \A n \in Names : ~account[n].exists
  \/ /\ \A g \in Callers : ~Moderates(g)
     /\ bans = NoEntries
     /\ admitted = {}

Symmetry ==
  Permutations(Callers) \cup Permutations(Names) \cup Permutations(Passwords)
    \cup Permutations(Addrs)
==========================================================================
