------------------------------ MODULE Session ------------------------------
(***************************************************************************)
(* The life of ONE client connection (ClientConn) and of the upstream      *)
(* connections (ServerConn) it is given one after the other: the first     *)
(* connection (run.go), hops (hop.go), fallbacks (fallback.go), kicks and  *)
(* lost connections (server_conn.go, process.go), the departure of the     *)
(* client (client_conn.go) and the shutdown of the proxy (run.go).         *)
(* Different clients share nothing here, so one client is enough.          *)
(*                                                                         *)
(* Every goroutine is a process with a program counter.  A step is what a  *)
(* goroutine does between two points where another one can interfere: a    *)
(* mutex operation, a read or a write of a shared field, a blocking call.  *)
(* ClientConn.mu is held across such a point by handleClt alone, so it is  *)
(* the predicate CcMuFree; hopMu and every ServerConn.mu have owners.      *)
(***************************************************************************)
EXTENDS Naturals, FiniteSets

CONSTANTS
  Hoppers,         \* goroutines that may call Hop: chat commands, plugins
  Conns,           \* upstream connections, one per ServerConn (bound)
  Run, Shut,       \* the client's goroutine of Run; the signal handler
  Servers,         \* names of the configured servers
  Names,           \* server names a caller or the configuration may use
  Hoppable,        \* servers whose media pool the client knows
  Fallback,        \* Server.Fallback, None where it is empty
  FirstChoice,     \* what server selection may yield, None if inexistent
  NoServer,        \* the selection that finds no server to connect to
  ForceDefaultSrv, \* the configuration option
  MaySignal,       \* a signal may arrive (bound)
  Timed,           \* connections whose timer is followed (bound)
  Greeted,         \* connections whose greeter is followed (bound)
  None             \* a nil pointer, or an empty string

Callers == Hoppers \cup Conns \cup {Run, Shut}

ASSUME ProcessesAssumption ==
  /\ Hoppers \cap Conns = {}
  /\ Run \notin Hoppers \cup Conns
  /\ Shut \notin Hoppers \cup Conns \cup {Run}
  /\ None \notin Callers
  /\ Timed \subseteq Conns
  /\ Greeted \subseteq Conns

ASSUME ConfigAssumption ==
  /\ Servers \subseteq Names
  /\ None \notin Names
  /\ Hoppable \subseteq Servers
  /\ Fallback \in [Servers -> Names \cup {None}]
  /\ NoServer \notin Names \cup {None}
  /\ FirstChoice \subseteq Servers \cup {None, NoServer}
  /\ ForceDefaultSrv \in BOOLEAN
  /\ MaySignal \in BOOLEAN

VARIABLES
  stopped,      \* why the program stopped, "no" while it runs
  cltOpen,      \* the client's network connection is open
  cltPc,        \* control of handleClt
  srv,          \* ClientConn.srv
  fallbackFrom, \* ClientConn.fallbackFrom
  whyKicked,    \* ClientConn.whyKicked is not nil
  lastSrv,      \* the last server stored by the authentication backend
  hopMu,        \* owner of ClientConn.hopMu
  pc,           \* control of every goroutine of Callers
  target,       \* server name the goroutine is connecting to
  seen,         \* the *ServerConn it holds in a local
  link,         \* state of every upstream connection
  attached,     \* connections whose ServerConn.clt is the client
  name,         \* ServerConn.name
  scMu,         \* owner of every ServerConn.mu
  greeting,     \* connections whose greeter is about to send ToSrvInit
  timers        \* connections whose ten-second timer is pending

cltVars == <<cltOpen, cltPc>>
bindVars == <<srv, fallbackFrom>>
storeVars == <<whyKicked, lastSrv>>
connVars == <<link, attached, name, greeting, timers>>
localVars == <<pc, target, seen>>
lockVars == <<hopMu, scMu>>
vars == <<stopped, cltVars, bindVars, storeVars, connVars, localVars, lockVars>>

CcMuFree == cltPc # "detach"
ScMuFree(s) == scMu[s] = None
Running == stopped = "no"
At(p, l) == Running /\ pc[p] = l
Goto(p, l) == pc' = [pc EXCEPT ![p] = l]
Forget(local, p) == [local EXCEPT ![p] = None]   \* the local is not used again
Stop(why) == stopped' = why

HopPc == {"hopCheck", "hopRead", "hopLockSrv", "hopDetach", "hopUnlockSrv",
          "hopClose", "hopReset", "hopClear", "hopDial", "connCheck",
          "connAttach", "hopRejoin"}
FallbackPc == {"fbStart", "hopLock", "fbKick", "fbClear", "fbRead",
               "fbDetach", "fbEnd"} \cup HopPc

\* p is in HopRaw past hopMu.Lock().
InHop(p) == p # Run /\ pc[p] \in HopPc

Init ==
  /\ stopped = "no"
  /\ cltOpen = TRUE
  /\ cltPc = "recv"
  /\ srv = None
  /\ fallbackFrom = None
  /\ whyKicked = FALSE
  /\ lastSrv = None
  /\ hopMu = None
  /\ pc = [p \in Callers |-> IF p = Run THEN "select"
                             ELSE IF p \in Conns THEN "off" ELSE "idle"]
  /\ target = [p \in Callers |-> None]
  /\ seen = [p \in Callers |-> None]
  /\ link = [s \in Conns |-> "free"]
  /\ attached = {}
  /\ name = [s \in Conns |-> None]
  /\ scMu = [s \in Conns |-> None]
  /\ greeting = {}
  /\ timers = {}

-----------------------------------------------------------------------------
(***************************************************************************)
(* HopRaw, called by Hop (p in Hoppers) and by fallback (p in Conns, the   *)
(* handleSrv goroutine of that connection).                                *)
(***************************************************************************)

CallHop(p, t) ==
  /\ p \in Hoppers
  /\ At(p, "idle")
  /\ target' = [target EXCEPT ![p] = t]
  /\ Goto(p, "hopLock")
  /\ UNCHANGED <<stopped, cltVars, bindVars, storeVars, connVars, seen, lockVars>>

\* Mutant: hopMu does not exclude.
HopLockNotExclusive(p) ==
  /\ At(p, "hopLock")
  /\ hopMu' = p
  /\ Goto(p, "hopCheck")
  /\ UNCHANGED <<stopped, cltVars, bindVars, storeVars, connVars, target, seen, scMu>>

HopLock(p) ==
  /\ At(p, "hopLock")
  /\ hopMu = None
  /\ hopMu' = p
  /\ Goto(p, "hopCheck")
  /\ UNCHANGED <<stopped, cltVars, bindVars, storeVars, connVars, target, seen, scMu>>

\* Mutant: hopMu is not released on an error.
HopErrorKeepsLock(p) ==
  /\ UNCHANGED hopMu
  /\ target' = Forget(target, p)
  /\ Goto(p, IF p \in Hoppers THEN "idle" ELSE "fbKick")

\* Mutant: a failed fallback is tried again.
HopErrorRetries(p) ==
  /\ hopMu' = None
  /\ target' = Forget(target, p)
  /\ Goto(p, IF p \in Hoppers THEN "idle" ELSE "hopLock")

\* An error return: the deferred Unlock runs, Hop saves nothing, fallback kicks.
HopError(p) ==
  /\ hopMu' = None
  /\ target' = Forget(target, p)
  /\ Goto(p, IF p \in Hoppers THEN "idle" ELSE "fbKick")

\* No server connection, an inexistent server or an unknown media pool.
HopRefuse(p) ==
  /\ At(p, "hopCheck")
  /\ CcMuFree
  /\ srv = None \/ target[p] \notin Hoppable
  /\ HopError(p)
  /\ UNCHANGED <<stopped, cltVars, bindVars, storeVars, connVars, seen, scMu>>

HopCheck(p) ==
  /\ At(p, "hopCheck")
  /\ CcMuFree
  /\ srv # None
  /\ target[p] \in Hoppable
  /\ Goto(p, "hopRead")
  /\ UNCHANGED <<stopped, cltVars, bindVars, storeVars, connVars, target, seen, lockVars>>

\* HopRaw never keeps the connection in a local: every use calls cc.server()
\* again, and a nil result is dereferenced.
HopNil(p) ==
  /\ Running
  /\ \/ pc[p] \in {"hopRead", "hopDetach", "hopUnlockSrv", "hopClose", "hopReset"}
     \/ pc[p] = "hopRejoin" /\ p # Run
  /\ CcMuFree
  /\ srv = None
  /\ Stop("hop")
  /\ UNCHANGED <<cltVars, bindVars, storeVars, connVars, localVars, lockVars>>

HopRead(p) ==
  /\ At(p, "hopRead")
  /\ CcMuFree
  /\ srv # None
  /\ seen' = [seen EXCEPT ![p] = srv]
  /\ Goto(p, "hopLockSrv")
  /\ UNCHANGED <<stopped, cltVars, bindVars, storeVars, connVars, target, lockVars>>

\* Peer.Close by the proxy; closing a connection that is already lost does nothing.
Closed(s) == [link EXCEPT ![s] = IF @ = "lost" THEN "lost" ELSE "dropped"]

\* Mutant: the connection is closed before it has lost its client.
HopLockSrvCloses(p) ==
  /\ At(p, "hopLockSrv")
  /\ ScMuFree(seen[p])
  /\ scMu' = [scMu EXCEPT ![seen[p]] = p]
  /\ link' = Closed(seen[p])
  /\ seen' = Forget(seen, p)
  /\ Goto(p, "hopDetach")
  /\ UNCHANGED <<stopped, cltVars, bindVars, storeVars, attached, name, greeting, timers,
                 target, hopMu>>

HopLockSrv(p) ==
  /\ At(p, "hopLockSrv")
  /\ ScMuFree(seen[p])
  /\ scMu' = [scMu EXCEPT ![seen[p]] = p]
  /\ seen' = Forget(seen, p)
  /\ Goto(p, "hopDetach")
  /\ UNCHANGED <<stopped, cltVars, bindVars, storeVars, connVars, target, hopMu>>

\* Mutant: the ServerConn keeps its client.
HopDetachForgotten(p) ==
  /\ At(p, "hopDetach")
  /\ CcMuFree
  /\ srv # None
  /\ Goto(p, "hopUnlockSrv")
  /\ UNCHANGED <<stopped, cltVars, bindVars, storeVars, connVars,
                 target, seen, lockVars>>

HopDetach(p) ==
  /\ At(p, "hopDetach")
  /\ CcMuFree
  /\ srv # None
  /\ attached' = attached \ {srv}
  /\ Goto(p, "hopUnlockSrv")
  /\ UNCHANGED <<stopped, cltVars, bindVars, storeVars, link, name, greeting, timers,
                 target, seen, lockVars>>

HopUnlockSrv(p) ==
  /\ At(p, "hopUnlockSrv")
  /\ CcMuFree
  /\ srv # None
  /\ scMu' = [scMu EXCEPT ![srv] = None]
  /\ Goto(p, "hopClose")
  /\ UNCHANGED <<stopped, cltVars, bindVars, storeVars, connVars, target, seen, hopMu>>

\* Mutant: the old connection stays open.
HopCloseForgotten(p) ==
  /\ At(p, "hopClose")
  /\ CcMuFree
  /\ srv # None
  /\ Goto(p, "hopReset")
  /\ UNCHANGED <<stopped, cltVars, bindVars, storeVars, connVars,
                 target, seen, lockVars>>

HopClose(p) ==
  /\ At(p, "hopClose")
  /\ CcMuFree
  /\ srv # None
  /\ link' = Closed(srv)
  /\ Goto(p, "hopReset")
  /\ UNCHANGED <<stopped, cltVars, bindVars, storeVars, attached, name, greeting, timers,
                 target, seen, lockVars>>

\* Resetting what the client shows reads cc.server() again; a client without
\* a player object is not reset and nothing is read.
HopReset(p) ==
  /\ At(p, "hopReset")
  /\ CcMuFree
  /\ Goto(p, "hopClear")
  /\ UNCHANGED <<stopped, cltVars, bindVars, storeVars, connVars, target, seen, lockVars>>

\* Mutant: the closed server stays in cc.srv.
HopClearForgotten(p) ==
  /\ At(p, "hopClear")
  /\ CcMuFree
  /\ Goto(p, "hopDial")
  /\ UNCHANGED <<stopped, cltVars, bindVars, storeVars, connVars, target, seen, lockVars>>

HopClear(p) ==
  /\ At(p, "hopClear")
  /\ CcMuFree
  /\ srv' = None
  /\ Goto(p, "hopDial")
  /\ UNCHANGED <<stopped, cltVars, fallbackFrom, storeVars, connVars, target, seen, lockVars>>

HopDialFail(p) ==
  /\ At(p, "hopDial")
  /\ HopError(p)
  /\ UNCHANGED <<stopped, cltVars, bindVars, storeVars, connVars, seen, scMu>>

\* A new socket s; UDP dialling succeeds whether or not the server answers.
Dial(p, s) ==
  /\ link[s] = "free"
  /\ link' = [link EXCEPT ![s] = "dialed"]
  /\ seen' = [seen EXCEPT ![p] = s]
  /\ Goto(p, "connCheck")
  /\ UNCHANGED <<stopped, cltVars, bindVars, storeVars, attached, name, greeting, timers,
                 target, lockVars>>

HopDial(p, s) == At(p, "hopDial") /\ Dial(p, s)

\* Connecting to the mod channels and sending the client information again:
\* cc.server() is read only if there is something to send.
HopRejoin(p) ==
  /\ At(p, "hopRejoin")
  /\ p # Run
  /\ CcMuFree
  /\ hopMu' = None
  /\ target' = IF p \in Hoppers THEN target ELSE Forget(target, p)
  /\ Goto(p, IF p \in Hoppers THEN "save" ELSE "fbEnd")
  /\ UNCHANGED <<stopped, cltVars, bindVars, storeVars, connVars, seen, scMu>>

\* The deferred SetLastSrv of Hop; an error of the backend fails the hop.
SaveLastSrv(p) ==
  /\ At(p, "save")
  /\ \/ lastSrv' = IF ForceDefaultSrv THEN lastSrv ELSE target[p]
     \/ UNCHANGED lastSrv
  /\ target' = Forget(target, p)
  /\ Goto(p, "idle")
  /\ UNCHANGED <<stopped, cltVars, bindVars, whyKicked, connVars, seen, lockVars>>

-----------------------------------------------------------------------------
(***************************************************************************)
(* connect, called by HopRaw and by Run.                                   *)
(***************************************************************************)

\* A client that already has a server keeps it and the dialled socket is lost.
ConnCheck(p) ==
  /\ At(p, "connCheck")
  /\ CcMuFree
  /\ Goto(p, IF srv = None THEN "connAttach" ELSE "hopRejoin")
  /\ UNCHANGED <<stopped, cltVars, bindVars, storeVars, connVars, target, seen, lockVars>>

\* Mutant: the connection is recorded instead of its name.
AttachWrongName(p) ==
  /\ At(p, "connAttach")
  /\ CcMuFree
  /\ LET s == seen[p] IN
     /\ srv' = s
     /\ fallbackFrom' = s
     /\ name' = [name EXCEPT ![s] = target[p]]
     /\ attached' = attached \cup {s}
     /\ link' = [link EXCEPT ![s] = "open"]
     /\ timers' = timers \cup ({s} \cap Timed)
     /\ pc' = [pc EXCEPT ![p] = "hopRejoin", ![s] = "recv"]
  /\ seen' = Forget(seen, p)
  /\ UNCHANGED <<stopped, cltVars, storeVars, greeting, target, lockVars>>

\* Mutant: the new ServerConn does not know its client.
AttachOneSided(p) ==
  /\ At(p, "connAttach")
  /\ CcMuFree
  /\ LET s == seen[p] IN
     /\ srv' = s
     /\ fallbackFrom' = target[p]
     /\ name' = [name EXCEPT ![s] = target[p]]
     /\ link' = [link EXCEPT ![s] = "open"]
     /\ timers' = timers \cup ({s} \cap Timed)
     /\ pc' = [pc EXCEPT ![p] = "hopRejoin", ![s] = "recv"]
  /\ seen' = Forget(seen, p)
  /\ UNCHANGED <<stopped, cltVars, storeVars, attached, greeting, target, lockVars>>

\* The ServerConn becomes the client's, its timer and its goroutines start.
ConnAttach(p) ==
  /\ At(p, "connAttach")
  /\ CcMuFree
  /\ LET s == seen[p] IN
     /\ srv' = s
     /\ fallbackFrom' = target[p]
     /\ name' = [name EXCEPT ![s] = target[p]]
     /\ attached' = attached \cup {s}
     /\ link' = [link EXCEPT ![s] = "open"]
     /\ timers' = timers \cup ({s} \cap Timed)
     /\ pc' = [pc EXCEPT ![p] = "hopRejoin", ![s] = "recv"]
  /\ seen' = Forget(seen, p)
  /\ UNCHANGED <<stopped, cltVars, storeVars, greeting, target, lockVars>>

\* After ten seconds the connection counts as established.
TimerFires(s) ==
  /\ Running
  /\ s \in timers
  /\ timers' = timers \ {s}
  /\ whyKicked' = IF srv = s THEN FALSE ELSE whyKicked
  /\ UNCHANGED <<stopped, cltVars, bindVars, lastSrv, link, attached, name, greeting,
                 localVars, lockVars>>

-----------------------------------------------------------------------------
(***************************************************************************)
(* handleSrv: the greeter and the packet loop of connection s.             *)
(***************************************************************************)

\* The loop's condition; the loop may also have ended, answered by the server.
GreetCheck(s) ==
  /\ Running
  /\ s \in Greeted \ greeting
  /\ ScMuFree(s)
  /\ s \in attached
  /\ greeting' = greeting \cup {s}
  /\ UNCHANGED <<stopped, cltVars, bindVars, storeVars, link, attached, name, timers,
                 localVars, lockVars>>

\* sc.client() is read a second time for the player name.
GreetSend(s) ==
  /\ Running
  /\ s \in greeting
  /\ ScMuFree(s)
  /\ IF s \in attached THEN UNCHANGED stopped ELSE Stop("greet")
  /\ greeting' = greeting \ {s}
  /\ UNCHANGED <<cltVars, bindVars, storeVars, link, attached, name, timers,
                 localVars, lockVars>>

\* Mutant: the reason is not recorded.
KickRecvNoReason(s) ==
  /\ At(s, "recv")
  /\ link[s] = "open"
  /\ ScMuFree(s)
  /\ s \in attached
  /\ link' = [link EXCEPT ![s] = "kicked"]
  /\ Goto(s, "fbStart")
  /\ UNCHANGED <<stopped, cltVars, bindVars, storeVars, attached, name, greeting, timers,
                 target, seen, lockVars>>

\* The server kicks the player for a reason that allows a fallback.
KickRecv(s) ==
  /\ At(s, "recv")
  /\ link[s] = "open"
  /\ ScMuFree(s)
  /\ s \in attached
  /\ link' = [link EXCEPT ![s] = "kicked"]
  /\ whyKicked' = TRUE
  /\ Goto(s, "fbStart")
  /\ UNCHANGED <<stopped, cltVars, bindVars, lastSrv, attached, name, greeting, timers,
                 target, seen, lockVars>>

\* The server kicks the player for any other reason: the kick is forwarded.
KickForward(s) ==
  /\ At(s, "recv")
  /\ link[s] = "open"
  /\ ScMuFree(s)
  /\ s \in attached
  /\ link' = [link EXCEPT ![s] = "kicked"]
  /\ Goto(s, "fwdKick")
  /\ UNCHANGED <<stopped, cltVars, bindVars, storeVars, attached, name, greeting, timers,
                 target, seen, lockVars>>

FwdClosed(s) ==
  /\ At(s, "fwdKick")
  /\ ~cltOpen
  /\ Goto(s, "recv")
  /\ UNCHANGED <<stopped, cltVars, bindVars, storeVars, connVars, target, seen, lockVars>>

FwdAck(s) ==
  /\ At(s, "fwdKick")
  /\ cltOpen' = FALSE
  /\ Goto(s, "fwdDetach")
  /\ UNCHANGED <<stopped, cltPc, bindVars, storeVars, connVars, target, seen, lockVars>>

FwdDetach(s) ==
  /\ At(s, "fwdDetach")
  /\ ScMuFree(s)
  /\ attached' = attached \ {s}
  /\ Goto(s, "recv")
  /\ UNCHANGED <<stopped, cltVars, bindVars, storeVars, link, name, greeting, timers,
                 target, seen, lockVars>>

\* Recv fails because the connection is closed and there is a client: the
\* fallback runs with ServerConn.mu held.
LostFallback(s) ==
  /\ At(s, "recv")
  /\ link[s] \in {"lost", "dropped"}
  /\ ScMuFree(s)
  /\ s \in attached
  /\ scMu' = [scMu EXCEPT ![s] = s]
  /\ whyKicked' = TRUE
  /\ Goto(s, "fbStart")
  /\ UNCHANGED <<stopped, cltVars, bindVars, lastSrv, connVars, target, seen, hopMu>>

LostAlone(s) ==
  /\ At(s, "recv")
  /\ link[s] \in {"lost", "dropped"}
  /\ ScMuFree(s)
  /\ s \notin attached
  /\ Goto(s, "done")
  /\ UNCHANGED <<stopped, cltVars, bindVars, storeVars, connVars, target, seen, lockVars>>

-----------------------------------------------------------------------------
(***************************************************************************)
(* ClientConn.fallback, called by the goroutine of connection s.           *)
(***************************************************************************)

\* The connection has no name: fallback reports that it did nothing.
FallbackNowhere(s) ==
  /\ At(s, "fbStart")
  /\ fallbackFrom = None
  /\ Goto(s, "fbEnd")
  /\ UNCHANGED <<stopped, cltVars, bindVars, storeVars, connVars, target, seen, lockVars>>

\* No fallback server: the client is sent cc.whyKicked, which the timer of the
\* connection may have reset to nil; a nil packet cannot be serialised.
FallbackKick(s) ==
  /\ At(s, "fbStart")
  /\ fallbackFrom # None
  /\ Fallback[fallbackFrom] = None
  /\ IF whyKicked THEN UNCHANGED stopped ELSE Stop("kick")
  /\ Goto(s, "fbKick")
  /\ UNCHANGED <<cltVars, bindVars, storeVars, connVars, target, seen, lockVars>>

FallbackHop(s) ==
  /\ At(s, "fbStart")
  /\ fallbackFrom # None
  /\ Fallback[fallbackFrom] # None
  /\ target' = [target EXCEPT ![s] = Fallback[fallbackFrom]]
  /\ Goto(s, "hopLock")
  /\ UNCHANGED <<stopped, cltVars, bindVars, storeVars, connVars, seen, lockVars>>

FbClosed(s) ==
  /\ At(s, "fbKick")
  /\ ~cltOpen
  /\ Goto(s, "fbEnd")
  /\ UNCHANGED <<stopped, cltVars, bindVars, storeVars, connVars, target, seen, lockVars>>

FbAck(s) ==
  /\ At(s, "fbKick")
  /\ cltOpen' = FALSE
  /\ Goto(s, "fbClear")
  /\ UNCHANGED <<stopped, cltPc, bindVars, storeVars, connVars, target, seen, lockVars>>

FbClear(s) ==
  /\ At(s, "fbClear")
  /\ CcMuFree
  /\ srv' = None
  /\ Goto(s, "fbRead")
  /\ UNCHANGED <<stopped, cltVars, fallbackFrom, storeVars, connVars, target, seen, lockVars>>

\* The connection to detach is read after it was cleared, so there is one only
\* if another goroutine connected the client in between.
FbRead(s) ==
  /\ At(s, "fbRead")
  /\ CcMuFree
  /\ seen' = [seen EXCEPT ![s] = srv]
  /\ Goto(s, IF srv = None THEN "fbEnd" ELSE "fbDetach")
  /\ UNCHANGED <<stopped, cltVars, bindVars, storeVars, connVars, target, lockVars>>

FbDetach(s) ==
  /\ At(s, "fbDetach")
  /\ ScMuFree(seen[s])
  /\ attached' = attached \ {seen[s]}
  /\ seen' = Forget(seen, s)
  /\ Goto(s, "fbEnd")
  /\ UNCHANGED <<stopped, cltVars, bindVars, storeVars, link, name, greeting, timers,
                 target, lockVars>>

\* fallback returns: handleSrv unlocks and ends, or process returns to the loop.
FbEnd(s) ==
  /\ At(s, "fbEnd")
  /\ scMu' = [scMu EXCEPT ![s] = IF @ = s THEN None ELSE @]
  /\ Goto(s, IF scMu[s] = s THEN "done" ELSE "recv")
  /\ UNCHANGED <<stopped, cltVars, bindVars, storeVars, connVars, target, seen, hopMu>>

-----------------------------------------------------------------------------
(***************************************************************************)
(* The peers: a connection is lost when the server closes it or stops      *)
(* answering, or when the greeter's ten seconds are over; the client       *)
(* disconnects, times out or is kicked by a plugin.                        *)
(***************************************************************************)

PeerClose(s) ==
  /\ Running
  /\ link[s] \in {"open", "kicked"}
  /\ link' = [link EXCEPT ![s] = "lost"]
  /\ UNCHANGED <<stopped, cltVars, bindVars, storeVars, attached, name, greeting, timers,
                 localVars, lockVars>>

CltClose ==
  /\ Running
  /\ cltOpen
  /\ cltOpen' = FALSE
  /\ UNCHANGED <<stopped, cltPc, bindVars, storeVars, connVars, localVars, lockVars>>

(***************************************************************************)
(* handleClt after Recv failed: cc.mu is taken and held while the server's *)
(* mutex is taken.                                                         *)
(***************************************************************************)

CltLock ==
  /\ Running
  /\ cltPc = "recv"
  /\ ~cltOpen
  /\ cltPc' = "detach"
  /\ UNCHANGED <<stopped, cltOpen, bindVars, storeVars, connVars, localVars, lockVars>>

\* Mutant: the server connection is not closed.
CltDetachLeaks ==
  /\ Running
  /\ cltPc = "detach"
  /\ srv # None => ScMuFree(srv)
  /\ cltPc' = "done"
  /\ attached' = attached \ {srv}
  /\ UNCHANGED link
  /\ srv' = None
  /\ UNCHANGED <<stopped, cltOpen, fallbackFrom, storeVars, name, greeting, timers,
                 localVars, lockVars>>

CltDetach ==
  /\ Running
  /\ cltPc = "detach"
  /\ srv # None => ScMuFree(srv)
  /\ cltPc' = "done"
  /\ attached' = attached \ {srv}
  /\ link' = IF srv = None THEN link ELSE Closed(srv)
  /\ srv' = None
  /\ UNCHANGED <<stopped, cltOpen, fallbackFrom, storeVars, name, greeting, timers,
                 localVars, lockVars>>

-----------------------------------------------------------------------------
(***************************************************************************)
(* Run: the first connection of the client, and the signal handler.        *)
(***************************************************************************)

RunSelect(t) ==
  /\ At(Run, "select")
  /\ target' = [target EXCEPT ![Run] = t]
  /\ Goto(Run, "runDial")
  /\ UNCHANGED <<stopped, cltVars, bindVars, storeVars, connVars, seen, lockVars>>

\* No server is configured, or no valid default server.
RunNoServer ==
  /\ At(Run, "select")
  /\ NoServer \in FirstChoice
  /\ Goto(Run, "runKick")
  /\ UNCHANGED <<stopped, cltVars, bindVars, storeVars, connVars, target, seen, lockVars>>

RunDial(s) == At(Run, "runDial") /\ Dial(Run, s)

FallbackOf(t) == IF t \in Servers THEN Fallback[t] ELSE None

\* Mutant: nobody is told that all connections failed.
RunDialFailSilent ==
  /\ At(Run, "runDial")
  /\ LET next == FallbackOf(target[Run]) IN
     /\ Goto(Run, IF next = None THEN "done"
                  ELSE IF next \in Servers THEN "runDial" ELSE "spin")
     /\ target' = [target EXCEPT ![Run] = next]
  /\ UNCHANGED <<stopped, cltVars, bindVars, storeVars, connVars, seen, lockVars>>

\* doConnect failed (an unknown media pool, address resolution, dialling):
\* the next fallback is tried.  A fallback that is not configured is looked up
\* again and again.
RunDialFail ==
  /\ At(Run, "runDial")
  /\ LET next == FallbackOf(target[Run]) IN
     /\ Goto(Run, IF next = None THEN "runKick"
                  ELSE IF next \in Servers THEN "runDial" ELSE "spin")
     /\ target' = [target EXCEPT ![Run] = next]
  /\ UNCHANGED <<stopped, cltVars, bindVars, storeVars, connVars, seen, lockVars>>

\* connect returned; Run's goroutine ends.
RunDone ==
  /\ At(Run, "hopRejoin")
  /\ target' = Forget(target, Run)
  /\ Goto(Run, "done")
  /\ UNCHANGED <<stopped, cltVars, bindVars, storeVars, connVars, seen, lockVars>>

RunKick ==
  /\ At(Run, "runKick")
  /\ cltOpen' = FALSE
  /\ Goto(Run, "done")
  /\ UNCHANGED <<stopped, cltPc, bindVars, storeVars, connVars, target, seen, lockVars>>

\* A signal: the client is waited for if the listener still has it.
ShutSignal ==
  /\ MaySignal
  /\ At(Shut, "idle")
  /\ Goto(Shut, IF cltOpen THEN "shutRead" ELSE "exit")
  /\ UNCHANGED <<stopped, cltVars, bindVars, storeVars, connVars, target, seen, lockVars>>

ShutRead ==
  /\ At(Shut, "shutRead")
  /\ CcMuFree
  /\ seen' = [seen EXCEPT ![Shut] = srv]
  /\ Goto(Shut, "shutKick")
  /\ UNCHANGED <<stopped, cltVars, bindVars, storeVars, connVars, target, lockVars>>

\* Kick, and wait until the client's connection is closed.
ShutKick ==
  /\ At(Shut, "shutKick")
  /\ cltOpen' = FALSE
  /\ Goto(Shut, "shutWait")
  /\ UNCHANGED <<stopped, cltPc, bindVars, storeVars, connVars, target, seen, lockVars>>

ShutWait ==
  /\ At(Shut, "shutWait")
  /\ seen[Shut] # None => link[seen[Shut]] \in {"lost", "dropped"}
  /\ seen' = Forget(seen, Shut)
  /\ Goto(Shut, "exit")
  /\ UNCHANGED <<stopped, cltVars, bindVars, storeVars, connVars, target, lockVars>>

ShutExit ==
  /\ At(Shut, "exit")
  /\ Stop("exit")
  /\ UNCHANGED <<cltVars, bindVars, storeVars, connVars, localVars, lockVars>>

-----------------------------------------------------------------------------
HopStep(p) ==
  \/ HopLock(p) \/ HopRefuse(p) \/ HopCheck(p) \/ HopNil(p) \/ HopRead(p)
  \/ HopLockSrv(p) \/ HopDetach(p) \/ HopUnlockSrv(p) \/ HopClose(p)
  \/ HopReset(p) \/ HopClear(p) \/ HopDialFail(p) \/ HopRejoin(p)
  \/ \E s \in Conns : HopDial(p, s)

ConnStep(p) == ConnCheck(p) \/ ConnAttach(p)

FallbackStep(s) ==
  \/ FallbackNowhere(s) \/ FallbackKick(s) \/ FallbackHop(s) \/ FbClosed(s)
  \/ FbAck(s) \/ FbClear(s) \/ FbRead(s) \/ FbDetach(s) \/ FbEnd(s)

HandlerStep(s) ==
  \/ FwdClosed(s) \/ FwdAck(s) \/ FwdDetach(s) \/ LostFallback(s) \/ LostAlone(s)
  \/ FallbackStep(s) \/ HopStep(s) \/ ConnStep(s)

GreetStep(s) == GreetCheck(s) \/ GreetSend(s)

HopperStep(p) == HopStep(p) \/ ConnStep(p) \/ SaveLastSrv(p)

CltStep == CltLock \/ CltDetach

RunStep ==
  \/ (\E t \in FirstChoice \ {NoServer} : RunSelect(t)) \/ RunNoServer
  \/ (\E s \in Conns : RunDial(s)) \/ RunDialFail \/ ConnStep(Run)
  \/ RunDone \/ RunKick

ShutStep == ShutRead \/ ShutKick \/ ShutWait \/ ShutExit

\* What the peers, the users and the plugins may do, and need not.
EnvStep ==
  \/ \E p \in Hoppers, t \in Names : CallHop(p, t)
  \/ \E s \in Conns : KickRecv(s) \/ KickForward(s) \/ PeerClose(s)
  \/ CltClose
  \/ ShutSignal

Next ==
  \/ EnvStep
  \/ \E p \in Hoppers : HopperStep(p)
  \/ \E s \in Conns : HandlerStep(s) \/ GreetStep(s) \/ TimerFires(s)
  \/ CltStep
  \/ RunStep
  \/ ShutStep

Spec == Init /\ [][Next]_vars

(***************************************************************************)
(* Goroutines that can run do run; a mutex is granted to a goroutine that  *)
(* keeps waiting for it (sync.Mutex is starvation free).  A server that    *)
(* kicked the player closes the connection.                                *)
(***************************************************************************)
Fairness ==
  /\ \A p \in Hoppers : WF_vars(HopperStep(p))
  /\ \A p \in Hoppers \cup Conns : SF_vars(HopLock(p))
  /\ \A s \in Conns : /\ WF_vars(HandlerStep(s))
                      /\ WF_vars(link[s] = "kicked" /\ PeerClose(s))
  /\ WF_vars(CltStep)
  /\ WF_vars(RunStep)
  /\ WF_vars(ShutStep)

FairSpec == Spec /\ Fairness

-----------------------------------------------------------------------------
Pcs == HopPc \cup FallbackPc \cup
       {"idle", "save", "off", "recv", "done", "fwdKick", "fwdDetach",
        "select", "runDial", "runKick", "spin",
        "shutRead", "shutKick", "shutWait", "exit"}

\* Type invariant of the client, its connections and the goroutines.
TypeOK ==
  /\ stopped \in {"no", "hop", "greet", "kick", "exit"}
  /\ cltOpen \in BOOLEAN
  /\ cltPc \in {"recv", "detach", "done"}
  /\ srv \in Conns \cup {None}
  /\ fallbackFrom \in Servers \cup {None}
  /\ whyKicked \in BOOLEAN
  /\ lastSrv \in Names \cup {None}
  /\ hopMu \in Hoppers \cup Conns \cup {None}
  /\ pc \in [Callers -> Pcs]
  /\ target \in [Callers -> Names \cup {None}]
  /\ seen \in [Callers -> Conns \cup {None}]
  /\ link \in [Conns -> {"free", "dialed", "open", "kicked", "lost", "dropped"}]
  /\ attached \subseteq Conns
  /\ name \in [Conns -> Servers \cup {None}]
  /\ scMu \in [Conns -> Hoppers \cup Conns \cup {None}]
  /\ greeting \subseteq Conns
  /\ timers \subseteq Conns

-----------------------------------------------------------------------------
(***************************************************************************)
(* While the client is there, the only ServerConn that speaks to it is the *)
(* one it speaks to (hop.go, connect.go): two hops, a hop and a fallback,  *)
(* or a hop and the first connection never leave it with two servers.      *)
(***************************************************************************)
SingleUpstream == cltOpen => attached \subseteq {srv}

(***************************************************************************)
(* The converse, between hops: the server the client speaks to answers to  *)
(* it, so no hop leaves the client with a server that ignores it.          *)
(***************************************************************************)
CurrentIsAttached ==
  cltOpen /\ hopMu = None /\ srv # None => srv \in attached

(***************************************************************************)
(* A connection the proxy closed has lost its client before (hop.go:83-89, *)
(* client_conn.go:148-154), so its goroutine never starts a fallback for a *)
(* server that was left on purpose.                                        *)
(***************************************************************************)
DroppedIsDetached == \A s \in Conns : link[s] = "dropped" => s \notin attached

(***************************************************************************)
(* Nothing but the departure of the client can make HopRaw dereference a   *)
(* nil server: neither another hop, nor a fallback, nor a lost server.     *)
(***************************************************************************)
HopCrashNeedsDeparture == stopped = "hop" => ~cltOpen

(***************************************************************************)
(* connect tests that the client has no server and attaches the new one    *)
(* under two separate locks (connect.go:13-19, 50-53).  Nobody can attach  *)
(* another server in between, and the test never fails: no dialled socket  *)
(* is lost and no connection is overwritten.                               *)
(***************************************************************************)
ConnectIsExclusive ==
  \A p \in Callers : pc[p] \in {"connCheck", "connAttach"} => srv = None

(***************************************************************************)
(* While the client is there, an open upstream connection that lost its    *)
(* client is one a hop is about to close: no player stays behind on the    *)
(* server it hopped away from (hop.go:85-89).                              *)
(***************************************************************************)
NoOrphan ==
  cltOpen => \A s \in Conns : link[s] \in {"open", "kicked"} /\ s \notin attached
               => srv = s /\ \E p \in Callers : pc[p] \in {"hopUnlockSrv", "hopClose"}

(***************************************************************************)
(* The kick sent when there is no fallback server lacks a reason only if   *)
(* the timer of a connection cleared it (connect.go:55-62): the goroutine  *)
(* that kicks has always recorded one.                                     *)
(***************************************************************************)
NilKickNeedsTimer ==
  stopped = "kick" => \E s \in Timed : pc[s] # "off" /\ s \notin timers

-----------------------------------------------------------------------------
(***************************************************************************)
(* The situations in which a goroutine may wait for ever, excluded by the  *)
(* liveness properties: the client has left, and a lost connection whose   *)
(* goroutine holds its own mutex while it runs the fallback.               *)
(***************************************************************************)
HoldsOwnMutex(s) == scMu[s] = s /\ pc[s] \notin {"hopDetach", "hopUnlockSrv"}
Excused == stopped # "no" \/ ~cltOpen \/ \E s \in Conns : HoldsOwnMutex(s)

\* The chain of fallback servers that starts at t comes to its end without
\* naming a server that is not configured, and without a cycle.
ChainEnds(t) ==
  LET chain[n \in 0..Cardinality(Servers)] ==
        IF n = 0 THEN t ELSE FallbackOf(chain[n - 1])
  IN \E n \in 0..Cardinality(Servers) :
       chain[n] = None /\ \A m \in 0..(n - 1) : chain[m] \in Servers

(***************************************************************************)
(* Once a server was chosen the client gets a connection or is kicked      *)
(* (run.go:171-196), whatever fails on the way, provided that the chain of *)
(* fallbacks ends among the configured servers.  A fallback that is not    *)
(* configured is looked up for ever (run.go:179-182).                      *)
(***************************************************************************)
JoinSettles ==
  pc[Run] = "runDial" /\ ChainEnds(target[Run])
    ~> srv # None \/ ~cltOpen \/ stopped # "no"

(***************************************************************************)
(* A hop returns, whether it works or fails, even when other hops and      *)
(* kicks by the server compete for hopMu.                                  *)
(***************************************************************************)
HopTerminates == \A p \in Hoppers : pc[p] = "hopLock" ~> pc[p] = "idle" \/ Excused

(***************************************************************************)
(* The fallback of a kick comes to an end: the client is moved or kicked.  *)
(***************************************************************************)
KickFallbackSettles ==
  \A s \in Conns : pc[s] = "fbStart" ~> pc[s] \notin FallbackPc \/ Excused

(***************************************************************************)
(* A signal stops the program if the client is there, no hop, fallback or  *)
(* first connection is under way and none starts: the client is kicked and *)
(* its server connection closed.                                           *)
(***************************************************************************)
Quiet == \A p \in Callers \ {Run, Shut} : pc[p] \in {"idle", "off", "recv", "done"}
QuietShutdownCompletes ==
  pc[Shut] = "shutRead" /\ cltOpen /\ Quiet /\ pc[Run] = "done"
    ~> stopped # "no" \/ ~Quiet

(***************************************************************************)
(* All of this together implements Presence: whatever the goroutines do,   *)
(* the player goes from one server to the next as that module says.  The   *)
(* connection that plays with the player is the one both sides know.       *)
(***************************************************************************)
Current == IF cltOpen /\ srv # None /\ srv \in attached THEN srv ELSE None
Used == {s \in Conns : link[s] \notin {"free", "dialed"}}
Player == INSTANCE Presence WITH
  online <- cltOpen,
  at <- Current,
  left <- IF cltOpen THEN Used \ {Current} ELSE {}
PlayerMovesInOrder == Player!Spec

-----------------------------------------------------------------------------
(***************************************************************************)
(* What the documentation promises and the code does not keep: violated in *)
(* a run of its own.                                                       *)
(***************************************************************************)

(***************************************************************************)
(* doc/config.md, Server.Fallback: when the network connection to a server *)
(* disconnects the client goes to the fallback server.                     *)
(***************************************************************************)
LostServerFallsBack ==
  \A s \in Conns :
    (srv = s /\ link[s] = "lost" /\ FallbackOf(name[s]) # None)
      ~> srv # s \/ ~cltOpen \/ stopped # "no"

(***************************************************************************)
(* doc/config.md, Server.Fallback: a client falls back if this server      *)
(* shuts down.  So a fallback that runs for connection s takes the client  *)
(* away from that server, and from no other one it has hopped to meanwhile.*)
(***************************************************************************)
FallbackLeavesKicker ==
  \A s \in Conns : pc[s] = "hopDetach" /\ cltOpen => name[srv] = name[s]

(***************************************************************************)
(* hop.go, Hop: if all attempts fail the client stays connected to the     *)
(* current server.                                                         *)
(***************************************************************************)
FailedHopStays ==
  [][\A p \in Hoppers : InHop(p) /\ pc'[p] = "idle" /\ cltOpen
       => srv # None \/ pc[p] = "hopCheck"]_vars
=============================================================================
