---------------------------- MODULE SessionInv ----------------------------
(***************************************************************************)
(* The inductive invariant of Session: what is true at every point of a    *)
(* hop, so that the safety properties of Session follow.                   *)
(***************************************************************************)
EXTENDS Session

\* Which program points belong to which goroutine.
HopperPcs == {"idle", "hopLock", "save"} \cup HopPc
HandlerPcs == {"off", "recv", "done", "fwdKick", "fwdDetach"} \cup FallbackPc
RunPcs == {"select", "runDial", "connCheck", "connAttach", "hopRejoin",
           "runKick", "spin", "done"}
ShutPcs == {"idle", "shutRead", "shutKick", "shutWait", "exit"}

PcInv ==
  /\ \A p \in Hoppers : pc[p] \in HopperPcs
  /\ \A s \in Conns : pc[s] \in HandlerPcs
  /\ pc[Run] \in RunPcs
  /\ pc[Shut] \in ShutPcs

\* hopMu belongs to the goroutine inside HopRaw.
MutexInv == \A p \in Hoppers \cup Conns : pc[p] \in HopPc <=> hopMu = p

\* Names that reach connect are those of configured servers.
TargetInv ==
  /\ \A p \in Hoppers \cup Conns :
       pc[p] \in HopPc \ {"hopCheck"} => target[p] \in Servers
  /\ pc[Run] \in RunPcs \ {"spin", "done"} => target[Run] \in Servers \cup {None}

\* Before the first connection nothing is attached and no hop gets anywhere.
FirstInv ==
  pc[Run] \in {"select", "runDial", "connCheck", "connAttach"} =>
    /\ srv = None
    /\ attached = {}
    /\ \A s \in Conns : pc[s] = "off"
    /\ \A p \in Hoppers : pc[p] \in {"idle", "hopLock", "hopCheck"}

\* HopRaw has the server it leaves until it clears it, and then has none.
LeavingPcs == {"hopRead", "hopLockSrv", "hopDetach", "hopUnlockSrv",
               "hopClose", "hopReset", "hopClear", "hopRejoin"}
DetachedPcs == {"hopUnlockSrv", "hopClose", "hopReset", "hopClear"}
HopInv ==
  \A p \in Hoppers \cup Conns :
    /\ pc[p] \in LeavingPcs /\ cltOpen => srv # None
    /\ pc[p] \in DetachedPcs => srv \notin attached
    /\ pc[p] \in {"hopDial", "connCheck", "connAttach"} => srv = None

\* A socket that was only dialled has no goroutine and no client yet.
DialInv ==
  /\ srv # None => link[srv] \notin {"free", "dialed"}
  /\ \A s \in Conns : link[s] \in {"free", "dialed"} => pc[s] = "off" /\ s \notin attached
  /\ \A p \in Hoppers \cup Conns \cup {Run} : pc[p] \in {"connCheck", "connAttach"} =>
       seen[p] \in Conns /\ link[seen[p]] = "dialed"
  /\ \A s \in Conns : pc[s] = "fbDetach" => seen[s] \in Conns
  /\ \A p \in Hoppers \cup Conns : pc[p] = "hopLockSrv" => seen[p] \in Conns

\* Control points that are reached only after the client left.
DepartInv ==
  /\ cltPc # "recv" => ~cltOpen
  /\ \A s \in Conns : pc[s] \in {"fbClear", "fbRead", "fbDetach", "fwdDetach"} => ~cltOpen

\* Between hops the current server answers to the client.
PairInv ==
  cltOpen /\ srv # None /\ srv \notin attached
    => \E p \in Hoppers \cup Conns : pc[p] \in DetachedPcs

(***************************************************************************)
(* Why NilKickNeedsTimer holds.  Every way into fallback records a reason, *)
(* and only a timer that fires takes it away; a timer is pending only      *)
(* while its connection has a goroutine (connect.go:55-62).  Inductive     *)
(* together with IInv.                                                     *)
(***************************************************************************)
TimerFired == \E s \in Timed : pc[s] # "off" /\ s \notin timers
ReasonLost == ~whyKicked /\ \E s \in Conns : pc[s] = "fbStart"
TimerInv ==
  /\ timers \subseteq {s \in Timed : pc[s] # "off"}
  /\ stopped = "kick" \/ ReasonLost => TimerFired

(***************************************************************************)
(* The inductive invariant: the control points above and the safety        *)
(* properties of Session (hop.go, connect.go, fallback.go).                *)
(***************************************************************************)
IInv ==
  /\ TypeOK
  /\ PcInv
  /\ MutexInv
  /\ TargetInv
  /\ FirstInv
  /\ HopInv
  /\ DialInv
  /\ DepartInv
  /\ PairInv
  /\ SingleUpstream
  /\ DroppedIsDetached
  /\ HopCrashNeedsDeparture
  /\ NoOrphan
=============================================================================
