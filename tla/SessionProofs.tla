--------------------------- MODULE SessionProofs ---------------------------
(***************************************************************************)
(* The safety properties of Session hold for any number of goroutines,     *)
(* connections and servers.  IInv (SessionInv) is inductive: one lemma for *)
(* each group of actions, one step for each action.  An action that gives  *)
(* a Boolean variable a value has a step of its own for that value.        *)
(***************************************************************************)
EXTENDS SessionInv, TLAPS

\* HopRaw, whoever calls it.
LEMMA HopStepInv ==
  ASSUME IInv, NEW p \in Hoppers \cup Conns, HopStep(p)
  PROVE  IInv'
<1> USE ProcessesAssumption, ConfigAssumption DEF IInv, TypeOK, PcInv, MutexInv, TargetInv, FirstInv, HopInv,
    DialInv, DepartInv, PairInv, SingleUpstream, DroppedIsDetached,
    HopCrashNeedsDeparture, NoOrphan,
    Pcs, HopPc, FallbackPc, LeavingPcs, DetachedPcs, HopperPcs, HandlerPcs,
    RunPcs, ShutPcs, Callers, At, Running, Goto, Stop, Forget, CcMuFree,
    ScMuFree, Closed, cltVars, bindVars, storeVars, connVars, localVars, lockVars
<1>1. ASSUME HopLock(p) PROVE IInv'
  BY <1>1 DEF HopLock
<1>2. ASSUME HopRefuse(p) PROVE IInv'
  BY <1>2 DEF HopRefuse, HopError
<1>3. ASSUME HopCheck(p) PROVE IInv'
  BY <1>3 DEF HopCheck
<1>4. ASSUME HopNil(p) PROVE IInv'
  BY <1>4 DEF HopNil
<1>5. ASSUME HopRead(p) PROVE IInv'
  BY <1>5 DEF HopRead
<1>6. ASSUME HopLockSrv(p) PROVE IInv'
  BY <1>6 DEF HopLockSrv
<1>7. ASSUME HopDetach(p) PROVE IInv'
  BY <1>7 DEF HopDetach
<1>8. ASSUME HopUnlockSrv(p) PROVE IInv'
  BY <1>8 DEF HopUnlockSrv
<1>9. ASSUME HopClose(p) PROVE IInv'
  BY <1>9 DEF HopClose
<1>10. ASSUME HopReset(p) PROVE IInv'
  BY <1>10 DEF HopReset
<1>11. ASSUME HopClear(p) PROVE IInv'
  BY <1>11 DEF HopClear
<1>12. ASSUME HopDialFail(p) PROVE IInv'
  BY <1>12 DEF HopDialFail, HopError
<1>13. ASSUME HopRejoin(p) PROVE IInv'
  BY <1>13 DEF HopRejoin
<1>14. ASSUME NEW s \in Conns, HopDial(p, s) PROVE IInv'
  BY <1>14 DEF HopDial, Dial
<1> QED
  BY <1>1, <1>2, <1>3, <1>4, <1>5, <1>6, <1>7, <1>8, <1>9, <1>10, <1>11,
     <1>12, <1>13, <1>14 DEF HopStep

\* connect, called by HopRaw or by Run.
LEMMA ConnStepInv ==
  ASSUME IInv, NEW p \in Hoppers \cup Conns \cup {Run}, ConnStep(p)
  PROVE  IInv'
<1> USE ProcessesAssumption, ConfigAssumption DEF IInv, TypeOK, PcInv, MutexInv, TargetInv, FirstInv, HopInv,
    DialInv, DepartInv, PairInv, SingleUpstream, DroppedIsDetached,
    HopCrashNeedsDeparture, NoOrphan,
    Pcs, HopPc, FallbackPc, LeavingPcs, DetachedPcs, HopperPcs, HandlerPcs,
    RunPcs, ShutPcs, Callers, At, Running, Goto, Stop, Forget, CcMuFree,
    ScMuFree, Closed, cltVars, bindVars, storeVars, connVars, localVars, lockVars
<1>1. ASSUME ConnCheck(p) PROVE IInv'
  BY <1>1 DEF ConnCheck
<1>2. ASSUME ConnAttach(p) PROVE IInv'
  BY <1>2, SMTT(40) DEF ConnAttach
<1> QED
  BY <1>1, <1>2 DEF ConnStep

\* fallback, called by the goroutine of connection s.
LEMMA FallbackStepInv ==
  ASSUME IInv, NEW s \in Conns, FallbackStep(s)
  PROVE  IInv'
<1> USE ProcessesAssumption, ConfigAssumption DEF IInv, TypeOK, PcInv, MutexInv, TargetInv, FirstInv, HopInv,
    DialInv, DepartInv, PairInv, SingleUpstream, DroppedIsDetached,
    HopCrashNeedsDeparture, NoOrphan,
    Pcs, HopPc, FallbackPc, LeavingPcs, DetachedPcs, HopperPcs, HandlerPcs,
    RunPcs, ShutPcs, Callers, At, Running, Goto, Stop, Forget, CcMuFree,
    ScMuFree, Closed, cltVars, bindVars, storeVars, connVars, localVars, lockVars
<1>1. ASSUME FallbackNowhere(s) PROVE IInv'
  BY <1>1 DEF FallbackNowhere
<1>2. ASSUME FallbackKick(s) PROVE IInv'
  BY <1>2 DEF FallbackKick
<1>3. ASSUME FallbackHop(s) PROVE IInv'
  BY <1>3 DEF FallbackHop
<1>4. ASSUME FbClosed(s) PROVE IInv'
  BY <1>4 DEF FbClosed
<1>5. ASSUME FbClear(s) PROVE IInv'
  BY <1>5 DEF FbClear
<1>6. ASSUME FbRead(s) PROVE IInv'
  BY <1>6 DEF FbRead
<1>7. ASSUME FbDetach(s) PROVE IInv'
  BY <1>7 DEF FbDetach
<1>8. ASSUME FbEnd(s) PROVE IInv'
  BY <1>8 DEF FbEnd
<1>9. ASSUME FbAck(s) PROVE IInv'
  <2>1. cltOpen' \in BOOLEAN /\ ~cltOpen'
    BY <1>9, Zenon DEF FbAck
  <2>2. /\ Running
        /\ pc[s] = "fbKick"
        /\ pc' = [pc EXCEPT ![s] = "fbClear"]
        /\ UNCHANGED <<stopped, cltPc, bindVars, storeVars, connVars, target, seen, lockVars>>
    BY <1>9 DEF FbAck
  <2> QED
    BY <2>1, <2>2
<1> QED
  BY <1>1, <1>2, <1>3, <1>4, <1>5, <1>6, <1>7, <1>8, <1>9 DEF FallbackStep

\* What happens to connection s: packets, its greeter, its timer, its loss.
PacketStep(s) ==
  \/ KickRecv(s) \/ KickForward(s) \/ FwdClosed(s) \/ FwdDetach(s)
  \/ LostFallback(s) \/ LostAlone(s) \/ GreetCheck(s) \/ GreetSend(s)
  \/ PeerClose(s) \/ FwdAck(s) \/ TimerFires(s)

\* handleSrv outside of fallback.
LEMMA PacketStepInv ==
  ASSUME IInv, NEW s \in Conns, PacketStep(s)
  PROVE  IInv'
<1> USE ProcessesAssumption, ConfigAssumption DEF IInv, TypeOK, PcInv, MutexInv, TargetInv, FirstInv, HopInv,
    DialInv, DepartInv, PairInv, SingleUpstream, DroppedIsDetached,
    HopCrashNeedsDeparture, NoOrphan,
    Pcs, HopPc, FallbackPc, LeavingPcs, DetachedPcs, HopperPcs, HandlerPcs,
    RunPcs, ShutPcs, Callers, At, Running, Goto, Stop, Forget, CcMuFree,
    ScMuFree, Closed, cltVars, bindVars, storeVars, connVars, localVars, lockVars
<1>1. ASSUME KickRecv(s) PROVE IInv'
  BY <1>1 DEF KickRecv
<1>2. ASSUME KickForward(s) PROVE IInv'
  BY <1>2 DEF KickForward
<1>3. ASSUME FwdClosed(s) PROVE IInv'
  BY <1>3 DEF FwdClosed
<1>4. ASSUME FwdDetach(s) PROVE IInv'
  BY <1>4 DEF FwdDetach
<1>5. ASSUME LostFallback(s) PROVE IInv'
  BY <1>5 DEF LostFallback
<1>6. ASSUME LostAlone(s) PROVE IInv'
  BY <1>6 DEF LostAlone
<1>7. ASSUME GreetCheck(s) PROVE IInv'
  BY <1>7 DEF GreetCheck
<1>8. ASSUME GreetSend(s) PROVE IInv'
  BY <1>8 DEF GreetSend
<1>9. ASSUME PeerClose(s) PROVE IInv'
  BY <1>9 DEF PeerClose
<1>10. ASSUME FwdAck(s) PROVE IInv'
  <2>1. cltOpen' \in BOOLEAN /\ ~cltOpen'
    BY <1>10, Zenon DEF FwdAck
  <2>2. /\ Running
        /\ pc[s] = "fwdKick"
        /\ pc' = [pc EXCEPT ![s] = "fwdDetach"]
        /\ UNCHANGED <<stopped, cltPc, bindVars, storeVars, connVars, target, seen, lockVars>>
    BY <1>10 DEF FwdAck
  <2> QED
    BY <2>1, <2>2
<1>11. ASSUME TimerFires(s) PROVE IInv'
  <2>1. whyKicked' \in BOOLEAN
    BY <1>11, Zenon DEF TimerFires
  <2>2. /\ timers' \subseteq timers
        /\ UNCHANGED <<stopped, cltVars, bindVars, lastSrv, link, attached, name,
                      greeting, localVars, lockVars>>
    BY <1>11 DEF TimerFires
  <2> QED
    BY <2>1, <2>2
<1> QED
  BY <1>1, <1>2, <1>3, <1>4, <1>5, <1>6, <1>7, <1>8, <1>9, <1>10, <1>11 DEF
     PacketStep

\* The first connection.
LEMMA RunStepInv ==
  ASSUME IInv, RunStep
  PROVE  IInv'
<1> USE ProcessesAssumption, ConfigAssumption DEF IInv, TypeOK, PcInv, MutexInv, TargetInv, FirstInv, HopInv,
    DialInv, DepartInv, PairInv, SingleUpstream, DroppedIsDetached,
    HopCrashNeedsDeparture, NoOrphan,
    Pcs, HopPc, FallbackPc, LeavingPcs, DetachedPcs, HopperPcs, HandlerPcs,
    RunPcs, ShutPcs, Callers, At, Running, Goto, Stop, Forget, CcMuFree,
    ScMuFree, Closed, cltVars, bindVars, storeVars, connVars, localVars, lockVars
<1>1. ASSUME NEW t \in FirstChoice \ {NoServer}, RunSelect(t) PROVE IInv'
  BY <1>1 DEF RunSelect
<1>2. ASSUME RunNoServer PROVE IInv'
  BY <1>2 DEF RunNoServer
<1>3. ASSUME NEW s \in Conns, RunDial(s) PROVE IInv'
  BY <1>3 DEF RunDial, Dial
<1>4. ASSUME RunDialFail PROVE IInv'
  BY <1>4 DEF RunDialFail, FallbackOf
<1>5. ASSUME RunDone PROVE IInv'
  BY <1>5 DEF RunDone
<1>6. ASSUME RunKick PROVE IInv'
  <2>1. cltOpen' \in BOOLEAN /\ ~cltOpen'
    BY <1>6, Zenon DEF RunKick
  <2>2. /\ Running
        /\ pc[Run] = "runKick"
        /\ pc' = [pc EXCEPT ![Run] = "done"]
        /\ UNCHANGED <<stopped, cltPc, bindVars, storeVars, connVars, target, seen, lockVars>>
    BY <1>6 DEF RunKick
  <2> QED
    BY <2>1, <2>2
<1>7. ASSUME ConnStep(Run) PROVE IInv'
  BY <1>7, ConnStepInv
<1> QED
  BY <1>1, <1>2, <1>3, <1>4, <1>5, <1>6, <1>7 DEF RunStep

\* The signal handler.
LEMMA ShutStepInv ==
  ASSUME IInv, ShutStep \/ ShutSignal
  PROVE  IInv'
<1> USE ProcessesAssumption, ConfigAssumption DEF IInv, TypeOK, PcInv, MutexInv, TargetInv, FirstInv, HopInv,
    DialInv, DepartInv, PairInv, SingleUpstream, DroppedIsDetached,
    HopCrashNeedsDeparture, NoOrphan,
    Pcs, HopPc, FallbackPc, LeavingPcs, DetachedPcs, HopperPcs, HandlerPcs,
    RunPcs, ShutPcs, Callers, At, Running, Goto, Stop, Forget, CcMuFree,
    ScMuFree, Closed, cltVars, bindVars, storeVars, connVars, localVars, lockVars
<1>1. ASSUME ShutSignal PROVE IInv'
  BY <1>1 DEF ShutSignal
<1>2. ASSUME ShutRead PROVE IInv'
  BY <1>2 DEF ShutRead
<1>3. ASSUME ShutWait PROVE IInv'
  BY <1>3 DEF ShutWait
<1>4. ASSUME ShutExit PROVE IInv'
  BY <1>4 DEF ShutExit
<1>5. ASSUME ShutKick PROVE IInv'
  <2>1. cltOpen' \in BOOLEAN /\ ~cltOpen'
    BY <1>5, Zenon DEF ShutKick
  <2>2. /\ Running
        /\ pc[Shut] = "shutKick"
        /\ pc' = [pc EXCEPT ![Shut] = "shutWait"]
        /\ UNCHANGED <<stopped, cltPc, bindVars, storeVars, connVars, target, seen, lockVars>>
    BY <1>5 DEF ShutKick
  <2> QED
    BY <2>1, <2>2
<1> QED
  BY <1>1, <1>2, <1>3, <1>4, <1>5 DEF ShutStep

\* The client's connection and handleClt.
LEMMA CltStepInv ==
  ASSUME IInv, CltStep \/ CltClose
  PROVE  IInv'
<1> USE ProcessesAssumption, ConfigAssumption DEF IInv, TypeOK, PcInv, MutexInv, TargetInv, FirstInv, HopInv,
    DialInv, DepartInv, PairInv, SingleUpstream, DroppedIsDetached,
    HopCrashNeedsDeparture, NoOrphan,
    Pcs, HopPc, FallbackPc, LeavingPcs, DetachedPcs, HopperPcs, HandlerPcs,
    RunPcs, ShutPcs, Callers, At, Running, Goto, Stop, Forget, CcMuFree,
    ScMuFree, Closed, cltVars, bindVars, storeVars, connVars, localVars, lockVars
<1>1. ASSUME CltLock PROVE IInv'
  BY <1>1 DEF CltLock
<1>2. ASSUME CltDetach PROVE IInv'
  BY <1>2 DEF CltDetach
<1>3. ASSUME CltClose PROVE IInv'
  <2>1. cltOpen' \in BOOLEAN /\ ~cltOpen'
    BY <1>3, Zenon DEF CltClose
  <2>2. /\ UNCHANGED <<stopped, cltPc, bindVars, storeVars, connVars, localVars, lockVars>>
    BY <1>3 DEF CltClose
  <2> QED
    BY <2>1, <2>2
<1> QED
  BY <1>1, <1>2, <1>3 DEF CltStep

\* Hop around HopRaw.
LEMMA HopperStepInv ==
  ASSUME IInv, NEW p \in Hoppers, SaveLastSrv(p) \/ (\E t \in Names : CallHop(p, t))
  PROVE  IInv'
<1> USE ProcessesAssumption, ConfigAssumption DEF IInv, TypeOK, PcInv, MutexInv, TargetInv, FirstInv, HopInv,
    DialInv, DepartInv, PairInv, SingleUpstream, DroppedIsDetached,
    HopCrashNeedsDeparture, NoOrphan,
    Pcs, HopPc, FallbackPc, LeavingPcs, DetachedPcs, HopperPcs, HandlerPcs,
    RunPcs, ShutPcs, Callers, At, Running, Goto, Stop, Forget, CcMuFree,
    ScMuFree, Closed, cltVars, bindVars, storeVars, connVars, localVars, lockVars
<1>1. ASSUME NEW t \in Names, CallHop(p, t) PROVE IInv'
  BY <1>1 DEF CallHop
<1>2. ASSUME SaveLastSrv(p) PROVE IInv'
  BY <1>2 DEF SaveLastSrv
<1> QED
  BY <1>1, <1>2 DEF CallHop

\* Nothing changes.
LEMMA StutterInv == IInv /\ UNCHANGED vars => IInv'
<1> USE DEF IInv, TypeOK, PcInv, MutexInv, TargetInv, FirstInv, HopInv,
    DialInv, DepartInv, PairInv, SingleUpstream, DroppedIsDetached,
    HopCrashNeedsDeparture, NoOrphan,
    vars, cltVars, bindVars, storeVars, connVars, localVars, lockVars
<1> QED
  OBVIOUS

\* The initial state satisfies the invariant.
LEMMA IInvInit == Init => IInv
<1> USE ProcessesAssumption, ConfigAssumption DEF IInv, TypeOK, PcInv, MutexInv, TargetInv, FirstInv, HopInv,
    DialInv, DepartInv, PairInv, SingleUpstream, DroppedIsDetached,
    HopCrashNeedsDeparture, NoOrphan,
    Pcs, HopPc, FallbackPc, LeavingPcs, DetachedPcs, HopperPcs, HandlerPcs,
    RunPcs, ShutPcs, Callers
<1>1. ASSUME Init PROVE cltOpen \in BOOLEAN /\ cltOpen /\ whyKicked \in BOOLEAN
  BY <1>1, Zenon DEF Init
<1>2. ASSUME Init PROVE IInv
  BY <1>1, <1>2 DEF Init
<1> QED
  BY <1>2

\* Every step keeps the invariant.
LEMMA IInvStep == IInv /\ [Next]_vars => IInv'
<1> SUFFICES ASSUME IInv, Next PROVE IInv'
  BY StutterInv
<1>1. CASE EnvStep
  BY <1>1, HopperStepInv, PacketStepInv, CltStepInv, ShutStepInv
     DEF EnvStep, PacketStep
<1>2. ASSUME NEW p \in Hoppers, HopperStep(p) PROVE IInv'
  BY <1>2, HopStepInv, ConnStepInv, HopperStepInv DEF HopperStep
<1>3. ASSUME NEW s \in Conns, HandlerStep(s) PROVE IInv'
  BY <1>3, HopStepInv, ConnStepInv, FallbackStepInv, PacketStepInv
     DEF HandlerStep, PacketStep
<1>4. ASSUME NEW s \in Conns, GreetStep(s) \/ TimerFires(s) PROVE IInv'
  BY <1>4, PacketStepInv DEF GreetStep, PacketStep
<1>5. CASE CltStep \/ RunStep \/ ShutStep
  BY <1>5, CltStepInv, RunStepInv, ShutStepInv
<1> QED
  BY <1>1, <1>2, <1>3, <1>4, <1>5 DEF Next

\* The inductive invariant holds in every reachable state.
THEOREM Inductive == Spec => []IInv
  BY IInvInit, IInvStep, PTL DEF Spec

(***************************************************************************)
(* Every variable keeps its type: in particular only names of configured   *)
(* servers reach a connection (connect.go, hop.go:70-73).                  *)
(***************************************************************************)
THEOREM TypeCorrect == Spec => []TypeOK
<1>1. IInv => TypeOK
  BY DEF IInv
<1> QED
  BY <1>1, Inductive, PTL

(***************************************************************************)
(* hop.go, connect.go: while the client is there no ServerConn but the one *)
(* it speaks to speaks to it.                                              *)
(***************************************************************************)
THEOREM OneServer == Spec => []SingleUpstream
<1>1. IInv => SingleUpstream
  BY DEF IInv
<1> QED
  BY <1>1, Inductive, PTL

(***************************************************************************)
(* hop.go: between hops the server the client speaks to answers to it.     *)
(***************************************************************************)
THEOREM ServerAnswers == Spec => []CurrentIsAttached
<1>1. IInv => CurrentIsAttached
  BY ProcessesAssumption DEF IInv, CurrentIsAttached, PairInv, MutexInv, DetachedPcs,
     HopPc, Callers
<1> QED
  BY <1>1, Inductive, PTL

(***************************************************************************)
(* hop.go:83-89: the goroutine of a connection the proxy closed finds no   *)
(* client and starts no fallback.                                          *)
(***************************************************************************)
THEOREM DropIsQuiet == Spec => []DroppedIsDetached
<1>1. IInv => DroppedIsDetached
  BY DEF IInv
<1> QED
  BY <1>1, Inductive, PTL

(***************************************************************************)
(* hop.go:85-89: a hop leaves no open connection behind.                   *)
(***************************************************************************)
THEOREM NoPlayerLeftBehind == Spec => []NoOrphan
<1>1. IInv => NoOrphan
  BY DEF IInv
<1> QED
  BY <1>1, Inductive, PTL

(***************************************************************************)
(* hop.go: only the departure of the client makes a hop use a nil server.  *)
(***************************************************************************)
THEOREM CrashNeedsDeparture == Spec => []HopCrashNeedsDeparture
<1>1. IInv => HopCrashNeedsDeparture
  BY DEF IInv
<1> QED
  BY <1>1, Inductive, PTL

(***************************************************************************)
(* connect.go:13-53: the test and the attachment under two separate locks  *)
(* are never interleaved with another attachment.                          *)
(***************************************************************************)
THEOREM ConnectNeverRefuses == Spec => []ConnectIsExclusive
<1>1. IInv => ConnectIsExclusive
  BY ProcessesAssumption DEF IInv, ConnectIsExclusive, PcInv, FirstInv, HopInv, ShutPcs,
     Callers
<1> QED
  BY <1>1, Inductive, PTL

-----------------------------------------------------------------------------
(***************************************************************************)
(* The refinement: every step of Session is a step of Presence or leaves   *)
(* Presence alone.                                                         *)
(***************************************************************************)
PlayerStep == [Player!Next]_<<cltOpen, Current, IF cltOpen THEN Used \ {Current} ELSE {}>>

\* Steps that touch neither the client, nor its server, nor a connection.
LEMMA PlayerStays ==
  ASSUME UNCHANGED <<cltOpen, srv, attached, link>>
  PROVE  PlayerStep
<1>1. Current' = Current /\ Used' = Used
  BY DEF Current, Used
<1> QED
  BY <1>1 DEF PlayerStep

\* Once the client left nothing arrives or leaves.
LEMMA PlayerGone ==
  ASSUME ~cltOpen, ~cltOpen', cltOpen' = cltOpen
  PROVE  PlayerStep
<1>1. Current = None /\ Current' = None
  BY DEF Current
<1> QED
  BY <1>1 DEF PlayerStep

\* The client leaves, or had left.
LEMMA PlayerDeparts ==
  ASSUME cltOpen \in BOOLEAN, cltOpen' \in BOOLEAN, ~cltOpen'
  PROVE  PlayerStep
<1>1. Current' = None
  BY DEF Current
<1>2. CASE cltOpen
  BY <1>1, <1>2 DEF PlayerStep, Player!Next, Player!Depart
<1>3. CASE ~cltOpen
  BY <1>3, PlayerGone
<1> QED
  BY <1>2, <1>3

\* A connection that is in use changes its state but stays in use.
LEMMA PlayerKeepsLink ==
  ASSUME UNCHANGED <<cltOpen, srv, attached>>, Used' = Used
  PROVE  PlayerStep
<1>1. Current' = Current
  BY DEF Current
<1> QED
  BY <1>1 DEF PlayerStep

\* A hop leaves the server: the detachment is the moment.
LEMMA HopDetachLeaves ==
  ASSUME IInv, NEW p \in Hoppers \cup Conns, HopDetach(p), cltOpen
  PROVE  Player!Leave
<1>1. /\ pc[p] = "hopDetach"
      /\ srv # None
      /\ srv \in Conns
      /\ attached' = attached \ {srv}
      /\ UNCHANGED <<cltOpen, srv, link>>
  BY DEF HopDetach, At, cltVars, bindVars, IInv, TypeOK
<1>2. srv \in attached
  <2>1. \A q \in Hoppers \cup Conns : pc[q] \notin DetachedPcs
    BY <1>1 DEF IInv, MutexInv, HopPc, DetachedPcs
  <2> QED
    BY <1>1, <2>1 DEF IInv, PairInv
<1>3. srv \in Used
  BY <1>1, <1>2 DEF IInv, DialInv, Used
<1>4. Current = srv /\ Current' = None /\ Used' = Used
  BY <1>1, <1>2 DEF Current, Used
<1>5. Used' \ {None} = (Used \ {srv}) \cup {srv}
  BY <1>3, <1>4, ProcessesAssumption DEF Used, Callers
<1> QED
  BY <1>1, <1>4, <1>5 DEF Player!Leave

\* A new connection is attached: the player arrives.
LEMMA AttachArrives ==
  ASSUME IInv, NEW p \in Hoppers \cup Conns \cup {Run}, ConnAttach(p), cltOpen
  PROVE  \E s \in Conns : Player!Arrive(s)
<1>1. /\ pc[p] = "connAttach"
      /\ seen[p] \in Conns
      /\ link[seen[p]] = "dialed"
      /\ srv' = seen[p]
      /\ attached' = attached \cup {seen[p]}
      /\ link' = [link EXCEPT ![seen[p]] = "open"]
      /\ UNCHANGED cltOpen
  BY DEF ConnAttach, At, cltVars, IInv, DialInv
<1>2. srv = None
  BY <1>1 DEF IInv, FirstInv, HopInv
<1>3. None \notin Conns
  BY ProcessesAssumption DEF Callers
<1>4. Current = None /\ Current' = seen[p]
  BY <1>1, <1>2, <1>3 DEF Current
<1>5. Used' = Used \cup {seen[p]} /\ seen[p] \notin Used /\ None \notin Used
  BY <1>1, <1>3 DEF Used, IInv, TypeOK
<1> QED
  BY <1>1, <1>4, <1>5 DEF Player!Arrive

\* HopRaw and connect.
LEMMA HopPlayerStep ==
  ASSUME IInv, NEW p \in Hoppers \cup Conns, HopStep(p)
  PROVE  PlayerStep
<1> USE DEF cltVars, bindVars, storeVars, connVars, localVars, lockVars
<1>1. ASSUME HopLock(p) \/ HopRefuse(p) \/ HopCheck(p) \/ HopNil(p) \/ HopRead(p)
             \/ HopLockSrv(p) \/ HopUnlockSrv(p) \/ HopReset(p) \/ HopDialFail(p)
             \/ HopRejoin(p)
      PROVE  PlayerStep
  BY <1>1, PlayerStays DEF HopLock, HopRefuse, HopCheck, HopNil, HopRead, HopLockSrv,
     HopUnlockSrv, HopReset, HopDialFail, HopRejoin
<1>2. ASSUME HopDetach(p) PROVE PlayerStep
  <2>1. cltOpen \in BOOLEAN /\ cltOpen' = cltOpen
    BY <1>2 DEF HopDetach, IInv, TypeOK
  <2>2. CASE cltOpen
    BY <1>2, <2>2, HopDetachLeaves DEF PlayerStep, Player!Next
  <2>3. CASE ~cltOpen
    BY <2>1, <2>3, PlayerGone
  <2> QED
    BY <2>2, <2>3
<1>3. ASSUME HopClose(p) PROVE PlayerStep
  <2>1. UNCHANGED <<cltOpen, srv, attached>> /\ Used' = Used
    BY <1>3 DEF HopClose, Closed, Used, IInv, TypeOK, DialInv
  <2> QED
    BY <2>1, PlayerKeepsLink
<1>4. ASSUME HopClear(p) PROVE PlayerStep
  <2>1. cltOpen \in BOOLEAN /\ cltOpen' = cltOpen /\ UNCHANGED <<attached, link>> /\ srv' = None
    BY <1>4 DEF HopClear, IInv, TypeOK
  <2>2. srv \notin attached
    BY <1>4 DEF HopClear, At, IInv, HopInv, DetachedPcs
  <2>3. Current' = Current /\ Used' = Used
    BY <2>1, <2>2 DEF Current, Used
  <2> QED
    BY <2>1, <2>3 DEF PlayerStep
<1>5. ASSUME NEW s \in Conns, HopDial(p, s) PROVE PlayerStep
  <2>1. UNCHANGED <<cltOpen, srv, attached>> /\ Used' = Used
    BY <1>5 DEF HopDial, Dial, Used, IInv, TypeOK
  <2> QED
    BY <2>1, PlayerKeepsLink
<1> QED
  BY <1>1, <1>2, <1>3, <1>4, <1>5 DEF HopStep

\* connect.
LEMMA ConnPlayerStep ==
  ASSUME IInv, NEW p \in Hoppers \cup Conns \cup {Run}, ConnStep(p)
  PROVE  PlayerStep
<1> USE DEF cltVars, bindVars, storeVars, connVars, localVars, lockVars
<1>1. ASSUME ConnCheck(p) PROVE PlayerStep
  BY <1>1, PlayerStays DEF ConnCheck
<1>2. ASSUME ConnAttach(p) PROVE PlayerStep
  <2>1. cltOpen \in BOOLEAN /\ cltOpen' = cltOpen
    BY <1>2 DEF ConnAttach, IInv, TypeOK
  <2>2. CASE cltOpen
    BY <1>2, <2>2, AttachArrives DEF PlayerStep, Player!Next
  <2>3. CASE ~cltOpen
    BY <2>1, <2>3, PlayerGone
  <2> QED
    BY <2>1, <2>2, <2>3
<1> QED
  BY <1>1, <1>2 DEF ConnStep

\* fallback, the packet loop, the greeter and the timer of a connection.
LEMMA HandlerPlayerStep ==
  ASSUME IInv, NEW s \in Conns, PacketStep(s) \/ FallbackStep(s)
  PROVE  PlayerStep
<1> USE DEF cltVars, bindVars, storeVars, connVars, localVars, lockVars
<1>1. ASSUME FwdClosed(s) \/ LostFallback(s) \/ LostAlone(s) \/ GreetCheck(s)
             \/ GreetSend(s) \/ TimerFires(s) \/ FallbackNowhere(s) \/ FallbackKick(s)
             \/ FallbackHop(s) \/ FbClosed(s) \/ FbRead(s) \/ FbEnd(s)
      PROVE  PlayerStep
  BY <1>1, PlayerStays DEF FwdClosed, LostFallback, LostAlone, GreetCheck, GreetSend,
     TimerFires, FallbackNowhere, FallbackKick, FallbackHop, FbClosed, FbRead, FbEnd
<1>2. ASSUME KickRecv(s) \/ KickForward(s) \/ PeerClose(s) PROVE PlayerStep
  <2>1. UNCHANGED <<cltOpen, srv, attached>> /\ Used' = Used
    BY <1>2 DEF KickRecv, KickForward, PeerClose, Used, IInv, TypeOK
  <2> QED
    BY <2>1, PlayerKeepsLink
<1>3. ASSUME FwdAck(s) \/ FbAck(s) PROVE PlayerStep
  <2>1. cltOpen \in BOOLEAN
    BY DEF IInv, TypeOK
  <2>2. cltOpen' \in BOOLEAN /\ ~cltOpen'
    BY <1>3, Zenon DEF FwdAck, FbAck
  <2> QED
    BY <2>1, <2>2, PlayerDeparts
<1>4. ASSUME FwdDetach(s) \/ FbClear(s) \/ FbDetach(s) PROVE PlayerStep
  <2>1. ~cltOpen
    BY <1>4 DEF FwdDetach, FbClear, FbDetach, At, IInv, DepartInv
  <2>2. cltOpen' = cltOpen
    BY <1>4 DEF FwdDetach, FbClear, FbDetach
  <2> QED
    BY <2>1, <2>2, PlayerGone
<1> QED
  BY <1>1, <1>2, <1>3, <1>4 DEF PacketStep, FallbackStep

\* connect, Hop around HopRaw, the first connection and the signal handler.
LEMMA RunPlayerStep ==
  ASSUME IInv, RunStep \/ ShutStep \/ ShutSignal \/ CltStep \/ CltClose
  PROVE  PlayerStep
<1> USE DEF cltVars, bindVars, storeVars, connVars, localVars, lockVars
<1>1. ASSUME (\E t \in FirstChoice \ {NoServer} : RunSelect(t)) \/ RunNoServer \/ RunDialFail
             \/ RunDone \/ ShutSignal \/ ShutRead \/ ShutWait \/ ShutExit \/ CltLock
      PROVE  PlayerStep
  BY <1>1, PlayerStays DEF RunSelect, RunNoServer, RunDialFail, RunDone, ShutSignal,
     ShutRead, ShutWait, ShutExit, CltLock
<1>2. ASSUME NEW s \in Conns, RunDial(s) PROVE PlayerStep
  <2>1. UNCHANGED <<cltOpen, srv, attached>> /\ Used' = Used
    BY <1>2 DEF RunDial, Dial, Used, IInv, TypeOK
  <2> QED
    BY <2>1, PlayerKeepsLink
<1>3. ASSUME ConnStep(Run) PROVE PlayerStep
  BY <1>3, ConnPlayerStep
<1>4. ASSUME RunKick \/ ShutKick \/ CltClose PROVE PlayerStep
  <2>1. cltOpen \in BOOLEAN
    BY DEF IInv, TypeOK
  <2>2. cltOpen' \in BOOLEAN /\ ~cltOpen'
    BY <1>4, Zenon DEF RunKick, ShutKick, CltClose
  <2> QED
    BY <2>1, <2>2, PlayerDeparts
<1>5. ASSUME CltDetach PROVE PlayerStep
  <2>1. ~cltOpen
    BY <1>5 DEF CltDetach, IInv, DepartInv
  <2>2. cltOpen' = cltOpen
    BY <1>5 DEF CltDetach
  <2> QED
    BY <2>1, <2>2, PlayerGone
<1> QED
  BY <1>1, <1>2, <1>3, <1>4, <1>5 DEF RunStep, ShutStep, CltStep

\* Every step.
LEMMA NextPlayerStep == IInv /\ [Next]_vars => PlayerStep
<1> SUFFICES ASSUME IInv, [Next]_vars PROVE PlayerStep
  OBVIOUS
<1>1. CASE UNCHANGED vars
  BY <1>1, PlayerStays DEF vars, cltVars, bindVars, connVars
<1>2. CASE EnvStep
  <2>1. ASSUME NEW p \in Hoppers, NEW t \in Names, CallHop(p, t) PROVE PlayerStep
    BY <2>1, PlayerStays DEF CallHop, cltVars, bindVars, connVars
  <2> QED
    BY <1>2, <2>1, HandlerPlayerStep, RunPlayerStep DEF EnvStep, PacketStep
<1>3. ASSUME NEW p \in Hoppers, HopperStep(p) PROVE PlayerStep
  <2>1. ASSUME SaveLastSrv(p) PROVE PlayerStep
    BY <2>1, PlayerStays DEF SaveLastSrv, cltVars, bindVars, connVars
  <2> QED
    BY <1>3, <2>1, HopPlayerStep, ConnPlayerStep DEF HopperStep
<1>4. ASSUME NEW s \in Conns, HandlerStep(s) \/ GreetStep(s) \/ TimerFires(s)
      PROVE  PlayerStep
  BY <1>4, HopPlayerStep, ConnPlayerStep, HandlerPlayerStep
     DEF HandlerStep, GreetStep, PacketStep
<1>5. CASE CltStep \/ RunStep \/ ShutStep
  BY <1>5, RunPlayerStep
<1> QED
  BY <1>1, <1>2, <1>3, <1>4, <1>5 DEF Next

(***************************************************************************)
(* hop.go, connect.go, server_conn.go, client_conn.go: a player is on one  *)
(* server at a time, leaves it before it arrives on the next one, never    *)
(* returns to a connection it left, and is nowhere once it is gone.        *)
(***************************************************************************)
THEOREM MovesInOrder == Spec => PlayerMovesInOrder
<1>1. Init => Player!Init
  BY ProcessesAssumption, Zenon DEF Init, Player!Init, Current, Used
<1>2. IInv /\ [Next]_vars => [Player!Next]_(Player!vars)
  BY NextPlayerStep DEF PlayerStep, Player!vars
<1> QED
  BY <1>1, <1>2, Inductive, PTL DEF Spec, PlayerMovesInOrder, Player!Spec

-----------------------------------------------------------------------------
(***************************************************************************)
(* Why a kick can lack its reason.  TimerInv (SessionInv) is inductive     *)
(* beside IInv.                                                            *)
(***************************************************************************)

\* Connections keep their goroutines, and no goroutine enters fallback.
NoEntry ==
  \A s \in Conns : /\ pc[s] # "off" => pc'[s] # "off"
                   /\ pc'[s] = "fbStart" => pc[s] = "fbStart"

\* A step that touches neither timers nor reasons.
LEMMA TimerFrame ==
  ASSUME TimerInv, NoEntry, UNCHANGED <<timers, whyKicked>>,
         stopped' = "kick" => stopped = "kick"
  PROVE  TimerInv'
<1>1. timers' \subseteq {s \in Timed : pc'[s] # "off"}
  BY ProcessesAssumption DEF TimerInv, NoEntry
<1>2. TimerFired => TimerFired'
  BY ProcessesAssumption DEF TimerFired, NoEntry
<1>3. ReasonLost' => ReasonLost
  BY DEF ReasonLost, NoEntry
<1> QED
  BY <1>1, <1>2, <1>3 DEF TimerInv

\* One goroutine goes to a place that is neither the start nor the fallback.
LEMMA GotoNoEntry ==
  ASSUME NEW p \in Callers, NEW l, Goto(p, l), l \notin {"off", "fbStart"},
         pc \in [Callers -> Pcs]
  PROVE  NoEntry
  BY DEF NoEntry, Goto, Callers

\* HopRaw and connect, but for the attachment of a connection.
LEMMA HopTimer ==
  ASSUME IInv, TimerInv, NEW p \in Hoppers \cup Conns, HopStep(p)
  PROVE  TimerInv'
<1> USE DEF storeVars, connVars
<1>1. p \in Callers /\ pc \in [Callers -> Pcs]
  BY DEF Callers, IInv, TypeOK
<1>2. ASSUME HopNil(p) PROVE TimerInv'
  BY <1>2, TimerFrame DEF HopNil, Stop, localVars, NoEntry
<1>3. ASSUME HopLock(p) \/ HopRefuse(p) \/ HopCheck(p) \/ HopRead(p) \/ HopLockSrv(p)
             \/ HopDetach(p) \/ HopUnlockSrv(p) \/ HopClose(p) \/ HopReset(p)
             \/ HopClear(p) \/ HopDialFail(p) \/ HopRejoin(p)
             \/ \E s \in Conns : HopDial(p, s)
      PROVE  TimerInv'
  <2>1. NoEntry
    BY <1>1, <1>3, GotoNoEntry DEF HopLock, HopRefuse, HopCheck, HopRead, HopLockSrv,
       HopDetach, HopUnlockSrv, HopClose, HopReset, HopClear, HopDialFail, HopRejoin,
       HopDial, Dial, HopError
  <2>2. UNCHANGED <<timers, whyKicked, stopped>>
    BY <1>3 DEF HopLock, HopRefuse, HopCheck, HopRead, HopLockSrv,
       HopDetach, HopUnlockSrv, HopClose, HopReset, HopClear, HopDialFail, HopRejoin,
       HopDial, Dial
  <2> QED
    BY <2>1, <2>2, TimerFrame
<1> QED
  BY <1>2, <1>3 DEF HopStep

\* connect: the connection whose timer starts had no goroutine before.
LEMMA ConnTimer ==
  ASSUME IInv, TimerInv, NEW p \in Hoppers \cup Conns \cup {Run}, ConnStep(p)
  PROVE  TimerInv'
<1>1. p \in Callers /\ pc \in [Callers -> Pcs] /\ Conns \subseteq Callers
  BY DEF Callers, IInv, TypeOK
<1>2. ASSUME ConnCheck(p) PROVE TimerInv'
  <2>1. NoEntry
    BY <1>1, <1>2, GotoNoEntry DEF ConnCheck
  <2> QED
    BY <1>2, <2>1, TimerFrame DEF ConnCheck, storeVars, connVars
<1>3. ASSUME ConnAttach(p) PROVE TimerInv'
  <2> DEFINE c == seen[p]
  <2>1. c \in Conns /\ pc[c] = "off"
    BY <1>3 DEF ConnAttach, At, IInv, DialInv
  <2>2. /\ pc' = [pc EXCEPT ![p] = "hopRejoin", ![c] = "recv"]
        /\ timers' = timers \cup ({c} \cap Timed)
        /\ UNCHANGED <<whyKicked, stopped>>
    BY <1>3 DEF ConnAttach, storeVars
  <2> HIDE DEF c
  <2>3. \A s \in Conns : /\ pc[s] # "off" => pc'[s] # "off"
                         /\ pc'[s] = "fbStart" => pc[s] = "fbStart"
                         /\ s = c => pc'[s] # "off"
    BY <1>1, <2>1, <2>2
  <2>4. timers' \subseteq {s \in Timed : pc'[s] # "off"}
    BY <2>1, <2>2, <2>3, ProcessesAssumption DEF TimerInv
  <2>5. TimerFired => TimerFired'
    BY <2>1, <2>2, <2>3, ProcessesAssumption DEF TimerFired
  <2>6. ReasonLost' => ReasonLost
    BY <2>2, <2>3 DEF ReasonLost
  <2> QED
    BY <2>2, <2>4, <2>5, <2>6 DEF TimerInv
<1> QED
  BY <1>2, <1>3 DEF ConnStep

\* The ways into fallback record a reason.
LEMMA EntryTimer ==
  ASSUME IInv, TimerInv, NEW s \in Conns, KickRecv(s) \/ LostFallback(s)
  PROVE  TimerInv'
<1>1. /\ pc' = [pc EXCEPT ![s] = "fbStart"] /\ pc \in [Callers -> Pcs] /\ Conns \subseteq Callers
      /\ UNCHANGED <<timers, stopped>>
  BY DEF KickRecv, LostFallback, Goto, Callers, connVars, IInv, TypeOK
<1>2. whyKicked'
  BY Zenon DEF KickRecv, LostFallback
<1>3. \A t \in Conns : pc[t] # "off" => pc'[t] # "off"
  BY <1>1
<1>4. TimerFired => TimerFired'
  BY <1>1, <1>3, ProcessesAssumption DEF TimerFired
<1>5. timers' \subseteq {t \in Timed : pc'[t] # "off"}
  BY <1>1, <1>3, ProcessesAssumption DEF TimerInv
<1> QED
  BY <1>1, <1>2, <1>4, <1>5 DEF TimerInv, ReasonLost

\* A timer that fires is the witness itself.
LEMMA FiresTimer ==
  ASSUME IInv, TimerInv, NEW s \in Conns, TimerFires(s)
  PROVE  TimerInv'
<1>1. s \in timers /\ timers' = timers \ {s} /\ pc' = pc
  BY DEF TimerFires, localVars
<1>2. TimerFired'
  BY <1>1 DEF TimerInv, TimerFired
<1> QED
  BY <1>1, <1>2 DEF TimerInv

\* fallback kicks without a reason only if that was taken away.
LEMMA FallbackTimer ==
  ASSUME IInv, TimerInv, NEW s \in Conns, FallbackStep(s)
  PROVE  TimerInv'
<1> USE DEF storeVars, connVars
<1>1. s \in Callers /\ pc \in [Callers -> Pcs]
  BY DEF Callers, IInv, TypeOK
<1>2. NoEntry
  BY <1>1, GotoNoEntry DEF FallbackStep, FallbackNowhere, FallbackKick, FallbackHop,
     FbClosed, FbAck, FbClear, FbRead, FbDetach, FbEnd
<1>3. UNCHANGED <<timers, whyKicked>>
  BY DEF FallbackStep, FallbackNowhere, FallbackKick, FallbackHop,
     FbClosed, FbAck, FbClear, FbRead, FbDetach, FbEnd
<1>4. CASE FallbackKick(s) /\ ~whyKicked
  <2>1. ReasonLost
    BY <1>4 DEF FallbackKick, At, ReasonLost
  <2>2. TimerFired
    BY <2>1 DEF TimerInv
  <2>3. TimerFired'
    BY <2>2, <1>2, <1>3, ProcessesAssumption DEF TimerFired, NoEntry
  <2>4. timers' \subseteq {t \in Timed : pc'[t] # "off"}
    BY <1>2, <1>3, ProcessesAssumption DEF TimerInv, NoEntry
  <2> QED
    BY <2>3, <2>4 DEF TimerInv
<1>5. CASE ~(FallbackKick(s) /\ ~whyKicked)
  <2>1. stopped' = stopped
    BY <1>5 DEF FallbackStep, FallbackNowhere, FallbackKick, FallbackHop,
       FbClosed, FbAck, FbClear, FbRead, FbDetach, FbEnd
  <2> QED
    BY <2>1, <1>2, <1>3, TimerFrame
<1> QED
  BY <1>4, <1>5

\* The rest of what a connection does.
LEMMA PacketTimer ==
  ASSUME IInv, TimerInv, NEW s \in Conns,
         \/ KickForward(s) \/ FwdClosed(s) \/ FwdDetach(s) \/ LostAlone(s)
         \/ FwdAck(s) \/ PeerClose(s) \/ GreetCheck(s) \/ GreetSend(s)
  PROVE  TimerInv'
<1> USE DEF storeVars, connVars, localVars
<1>1. s \in Callers /\ pc \in [Callers -> Pcs]
  BY DEF Callers, IInv, TypeOK
<1>2. NoEntry
  <2>1. CASE PeerClose(s) \/ GreetCheck(s) \/ GreetSend(s)
    BY <2>1 DEF PeerClose, GreetCheck, GreetSend, NoEntry
  <2>2. CASE KickForward(s) \/ FwdClosed(s) \/ FwdDetach(s) \/ LostAlone(s) \/ FwdAck(s)
    BY <1>1, <2>2, GotoNoEntry DEF KickForward, FwdClosed, FwdDetach, LostAlone, FwdAck
  <2> QED
    BY <2>1, <2>2
<1>3. UNCHANGED <<timers, whyKicked>> /\ (stopped' = "kick" => stopped = "kick")
  BY DEF KickForward, FwdClosed, FwdDetach, LostAlone, FwdAck, PeerClose, GreetCheck,
     GreetSend, Stop
<1> QED
  BY <1>2, <1>3, TimerFrame

\* Callers of Hop, the first connection, the client and the signal handler.
LEMMA RestTimer ==
  ASSUME IInv, TimerInv,
         \/ \E p \in Hoppers : SaveLastSrv(p) \/ \E t \in Names : CallHop(p, t)
         \/ RunStep \/ ShutStep \/ ShutSignal \/ CltStep \/ CltClose
  PROVE  TimerInv'
<1> USE DEF storeVars, connVars, localVars
<1>1. Hoppers \subseteq Callers /\ Run \in Callers /\ Shut \in Callers /\ pc \in [Callers -> Pcs]
  BY DEF Callers, IInv, TypeOK
<1>2. ASSUME NEW p \in Hoppers, NEW t \in Names, CallHop(p, t) PROVE TimerInv'
  <2>1. NoEntry
    BY <1>1, <1>2, GotoNoEntry DEF CallHop
  <2> QED
    BY <1>2, <2>1, TimerFrame DEF CallHop
<1>3. ASSUME NEW p \in Hoppers, SaveLastSrv(p) PROVE TimerInv'
  <2>1. NoEntry
    BY <1>1, <1>3, GotoNoEntry DEF SaveLastSrv
  <2> QED
    BY <1>3, <2>1, TimerFrame DEF SaveLastSrv
<1>4. ASSUME (\E t \in FirstChoice \ {NoServer} : RunSelect(t)) \/ RunNoServer
             \/ (\E s \in Conns : RunDial(s)) \/ RunDialFail \/ RunDone \/ RunKick
      PROVE  TimerInv'
  <2>1. NoEntry
    BY <1>1, <1>4, GotoNoEntry DEF RunSelect, RunNoServer, RunDial, Dial, RunDialFail,
       RunDone, RunKick
  <2> QED
    BY <1>4, <2>1, TimerFrame DEF RunSelect, RunNoServer, RunDial, Dial, RunDialFail,
       RunDone, RunKick
<1>5. ASSUME ShutSignal \/ ShutRead \/ ShutKick \/ ShutWait PROVE TimerInv'
  <2>1. NoEntry
    BY <1>1, <1>5, GotoNoEntry DEF ShutSignal, ShutRead, ShutKick, ShutWait
  <2> QED
    BY <1>5, <2>1, TimerFrame DEF ShutSignal, ShutRead, ShutKick, ShutWait
<1>6. ASSUME ShutExit \/ CltLock \/ CltDetach \/ CltClose PROVE TimerInv'
  <2>1. NoEntry
    BY <1>6 DEF ShutExit, CltLock, CltDetach, CltClose, NoEntry
  <2> QED
    BY <1>6, <2>1, TimerFrame DEF ShutExit, CltLock, CltDetach, CltClose, Stop
<1>7. ASSUME ConnStep(Run) PROVE TimerInv'
  BY <1>7, ConnTimer
<1> QED
  BY <1>2, <1>3, <1>4, <1>5, <1>6, <1>7 DEF RunStep, ShutStep, CltStep

\* Every step.
LEMMA TimerStep == IInv /\ TimerInv /\ [Next]_vars => TimerInv'
<1> SUFFICES ASSUME IInv, TimerInv, [Next]_vars PROVE TimerInv'
  OBVIOUS
<1>1. CASE UNCHANGED vars
  BY <1>1, TimerFrame DEF vars, storeVars, connVars, localVars, NoEntry
<1>2. CASE EnvStep
  BY <1>2, RestTimer, EntryTimer, PacketTimer DEF EnvStep
<1>3. ASSUME NEW p \in Hoppers, HopperStep(p) PROVE TimerInv'
  BY <1>3, HopTimer, ConnTimer, RestTimer DEF HopperStep
<1>4. ASSUME NEW s \in Conns, HandlerStep(s) PROVE TimerInv'
  BY <1>4, HopTimer, ConnTimer, FallbackTimer, EntryTimer, PacketTimer DEF HandlerStep
<1>5. ASSUME NEW s \in Conns, GreetStep(s) \/ TimerFires(s) PROVE TimerInv'
  BY <1>5, PacketTimer, FiresTimer DEF GreetStep
<1>6. CASE CltStep \/ RunStep \/ ShutStep
  BY <1>6, RestTimer
<1> QED
  BY <1>1, <1>2, <1>3, <1>4, <1>5, <1>6 DEF Next

(***************************************************************************)
(* connect.go:55-62, fallback.go:21-31: the kick without a fallback server *)
(* lacks a reason only if a timer of a connection has fired.               *)
(***************************************************************************)
THEOREM NilKickExplained == Spec => []NilKickNeedsTimer
<1>1. Init => TimerInv
  BY ProcessesAssumption DEF Init, TimerInv, ReasonLost, Callers
<1>2. TimerInv => NilKickNeedsTimer
  BY DEF TimerInv, TimerFired, NilKickNeedsTimer
<1> QED
  BY <1>1, <1>2, TimerStep, Inductive, PTL DEF Spec

=============================================================================
