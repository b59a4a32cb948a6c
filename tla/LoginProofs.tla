---------------------------- MODULE LoginProofs ----------------------------
(***************************************************************************)
(* The safety properties of Login hold for any number of connections and   *)
(* names and any user limit.  IInv is inductive.  Only three steps matter  *)
(* to the user limit: the one that admits a client compares the size of    *)
(* the registry, into which all admitted clients inject.                   *)
(***************************************************************************)
EXTENDS Login, FiniteSetTheorems, TLAPS

\* Everything in IInv but the user limit.
NamesInv == TypeOK /\ OrderInv /\ NamesOwned /\ RegistersOnce

\* The steps of ToSrvInit.
LEMMA InitStepNames ==
  ASSUME NamesInv, NEW c \in Clients, InitStep(c)
  PROVE  NamesInv'
<1> USE LoginAssumption DEF NamesInv, TypeOK, OrderInv, NamesOwned, RegistersOnce, Owns,
        At, Goto, SetState, Recv, MayKick, connVars, nameVars, authVars, joinVars
<1>1. ASSUME InitInvalid(c) PROVE NamesInv'
  BY <1>1 DEF InitInvalid
<1>2. ASSUME InitRegister(c) PROVE NamesInv'
  BY <1>2 DEF InitRegister
<1>3. ASSUME InitTaken(c) PROVE NamesInv'
  BY <1>3 DEF InitTaken
<1>4. ASSUME TakenEnd(c) PROVE NamesInv'
  BY <1>4 DEF TakenEnd
<1>5. ASSUME InitRefuse(c) PROVE NamesInv'
  BY <1>5 DEF InitRefuse
<1>6. ASSUME InitPass(c) PROVE NamesInv'
  BY <1>6 DEF InitPass
<1>7. ASSUME InitBanned(c) PROVE NamesInv'
  BY <1>7 DEF InitBanned
<1>8. ASSUME InitHello(c) PROVE NamesInv'
  BY <1>8 DEF InitHello
<1>9. ASSUME NEW n \in Names, InitRecv(c, n) PROVE NamesInv'
  BY <1>9 DEF InitRecv
<1> QED
  BY <1>1, <1>2, <1>3, <1>4, <1>5, <1>6, <1>7, <1>8, <1>9 DEF InitStep

\* The steps of the authentication.
LEMMA AuthStepNames ==
  ASSUME NamesInv, NEW c \in Clients, AuthStep(c)
  PROVE  NamesInv'
<1> USE LoginAssumption DEF NamesInv, TypeOK, OrderInv, NamesOwned, RegistersOnce, Owns,
        At, Goto, SetState, Recv, MayKick, connVars, nameVars, authVars, joinVars
<1>1. ASSUME FirstSRP(c) PROVE NamesInv'
  BY <1>1 DEF FirstSRP
<1>2. ASSUME FirstSRPFail(c) PROVE NamesInv'
  BY <1>2 DEF FirstSRPFail
<1>3. ASSUME WrongMethod(c) PROVE NamesInv'
  BY <1>3 DEF WrongMethod
<1>4. ASSUME BytesA(c) PROVE NamesInv'
  BY <1>4 DEF BytesA, MayBytesA
<1>5. ASSUME BytesAFail(c) PROVE NamesInv'
  BY <1>5 DEF BytesAFail, MayBytesA
<1>6. ASSUME BytesM(c) PROVE NamesInv'
  BY <1>6 DEF BytesM
<1>7. ASSUME BytesMFail(c) PROVE NamesInv'
  BY <1>7 DEF BytesMFail
<1>8. ASSUME Passwd(c) PROVE NamesInv'
  BY <1>8 DEF Passwd
<1> QED
  BY <1>1, <1>2, <1>3, <1>4, <1>5, <1>6, <1>7, <1>8 DEF AuthStep

\* The other steps of a client.
LEMMA CltStepNames ==
  ASSUME NamesInv, NEW c \in Clients, CltStep(c)
  PROVE  NamesInv'
<1> USE LoginAssumption DEF NamesInv, TypeOK, OrderInv, NamesOwned, RegistersOnce, Owns,
        At, Goto, SetState, Recv, MayKick, connVars, nameVars, authVars, joinVars
<1>1. ASSUME Accept(c) PROVE NamesInv'
  BY <1>1 DEF Accept
<1>2. ASSUME KickEnd(c) PROVE NamesInv'
  BY <1>2 DEF KickEnd
<1>3. ASSUME Init2(c) PROVE NamesInv'
  BY <1>3 DEF Init2
<1>4. ASSUME CltReady(c) PROVE NamesInv'
  BY <1>4 DEF CltReady, HandleJoin
<1>5. ASSUME CltClose(c) PROVE NamesInv'
  BY <1>5 DEF CltClose
<1>6. ASSUME Leave(c) PROVE NamesInv'
  BY <1>6 DEF Leave, HandleLeave
<1>7. ASSUME Unlist(c) PROVE NamesInv'
  BY <1>7 DEF Unlist
<1>8. ASSUME Collect(c) PROVE NamesInv'
  BY <1>8 DEF Collect
<1>9. ASSUME Init2End(c) PROVE NamesInv'
  BY <1>9 DEF Init2End
<1> QED
  BY <1>1, <1>2, <1>3, <1>4, <1>5, <1>6, <1>7, <1>8, <1>9 DEF CltStep

\* The admitted clients are no more than the names of the registry.
AdmittedFit ==
  /\ IsFiniteSet(players)
  /\ IsFiniteSet(admitted)
  /\ Cardinality(admitted) <= Cardinality(players)

\* It follows from the registry: different admitted clients own different names.
LEMMA AdmittedInject == NamesInv => AdmittedFit
<1> SUFFICES ASSUME NamesInv PROVE AdmittedFit
  OBVIOUS
<1> DEFINE f == [c \in admitted |-> name[c]]
<1>1. IsFiniteSet(players)
  BY LoginAssumption, FS_Subset DEF NamesInv, TypeOK
<1>2. \A c \in admitted : c \in Clients /\ Owns(c) /\ name[c] \in players
  BY DEF NamesInv, TypeOK, OrderInv, NamesOwned
<1>3. \A c, d \in admitted : name[c] = name[d] => c = d
  BY <1>2 DEF NamesInv, NamesOwned
<1>4. f \in Injection(admitted, players)
  BY <1>2, <1>3 DEF Injection, IsInjective
<1> QED
  BY <1>1, <1>4, FS_Injection DEF AdmittedFit

\* A step that admits nobody keeps the limit; the one that does counts first.
LEMMA LimitStep ==
  ASSUME IInv, NamesInv', Next
  PROVE  LimitKept'
<1>1. /\ IsFiniteSet(admitted)
      /\ IsFiniteSet(admitted')
      /\ IsFiniteSet(players')
      /\ Cardinality(admitted') <= Cardinality(players')
  <2>1. NamesInv
    BY DEF IInv, NamesInv
  <2>2. AdmittedFit
    BY <2>1, AdmittedInject
  <2>3. AdmittedFit'
    BY AdmittedInject, PTL
  <2> QED
    BY <2>2, <2>3 DEF AdmittedFit
<1>2. /\ Cardinality(admitted) \in Nat /\ Cardinality(admitted') \in Nat
      /\ UserLimit \in Nat /\ Cardinality(players') \in Nat
  BY <1>1, FS_CardinalityType, LoginAssumption
<1>3. PICK c \in Clients : InitStep(c) \/ AuthStep(c) \/ CltStep(c)
  BY DEF Next
<1>4. CASE InitPass(c)
  BY <1>1, <1>2, <1>4 DEF InitPass, Full, LimitKept
<1>5. CASE ~InitPass(c)
  <2>1. admitted' \subseteq admitted
    BY <1>3, <1>5 DEF InitStep, InitInvalid, InitRegister, InitTaken, TakenEnd, InitRefuse,
       InitBanned, InitHello, InitRecv, AuthStep, FirstSRP, FirstSRPFail, WrongMethod, BytesA,
       BytesAFail, BytesM, BytesMFail, Passwd, CltStep, Accept, KickEnd, Init2, Init2End,
       CltReady, CltClose, Leave, Unlist, Collect, connVars, nameVars
  <2>2. Cardinality(admitted') <= Cardinality(admitted)
    BY <1>1, <2>1, FS_Subset
  <2> QED
    BY <1>2, <2>2 DEF IInv, LimitKept
<1> QED
  BY <1>4, <1>5

\* The invariant holds before the first connection.
LEMMA InitInv == Init => IInv
<1> SUFFICES ASSUME Init PROVE IInv
  OBVIOUS
<1>1. NamesInv
  BY LoginAssumption DEF Init, NamesInv, TypeOK, OrderInv, NamesOwned, RegistersOnce, Owns
<1>2. LimitKept
  BY FS_EmptySet, LoginAssumption DEF Init, LimitKept
<1> QED
  BY <1>1, <1>2 DEF IInv, NamesInv

\* No step leads out of the invariant.
LEMMA NextInv == IInv /\ [Next]_vars => IInv'
<1> SUFFICES ASSUME IInv, [Next]_vars PROVE IInv'
  OBVIOUS
<1>1. CASE Next
  <2>1. NamesInv'
    BY <1>1, InitStepNames, AuthStepNames, CltStepNames DEF Next, IInv, NamesInv
  <2>2. LimitKept'
    BY <1>1, <2>1, LimitStep
  <2> QED
    BY <2>1, <2>2 DEF IInv, NamesInv
<1>2. CASE UNCHANGED vars
  BY <1>2 DEF vars, connVars, nameVars, authVars, joinVars, IInv, TypeOK, OrderInv,
     NamesOwned, RegistersOnce, LimitKept, Owns
<1> QED
  BY <1>1, <1>2

\* The invariant holds in every reachable state.
THEOREM Inductive == Spec => []IInv
  BY InitInv, NextInv, PTL DEF Spec

\* The variables keep their types, for any number of connections.
THEOREM TypeCorrect == Spec => []TypeOK
<1>1. IInv => TypeOK
  BY DEF IInv
<1> QED
  BY <1>1, Inductive, PTL

\* Two players never share a name, and the registry is exact (process.go:83-105).
THEOREM NamesUnique == Spec => []NamesOwned
<1>1. IInv => NamesOwned
  BY DEF IInv
<1> QED
  BY <1>1, Inductive, PTL

\* No more clients pass the tests of ToSrvInit, and stay, than the limit allows, for any
\* limit, number of connections and order of packets (process.go:134).
THEOREM UsersLimited == Spec => []LimitKept
<1>1. IInv => LimitKept
  BY DEF IInv
<1> QED
  BY <1>1, Inductive, PTL

\* Nobody registers a name that has an account, in whatever order packets arrive
\* (process.go:155-202).
THEOREM AccountsKept == Spec => []RegistersOnce
<1>1. IInv => RegistersOnce
  BY DEF IInv
<1> QED
  BY <1>1, Inductive, PTL
=============================================================================
