------------------------------- MODULE Login -------------------------------
(***************************************************************************)
(* From a new connection to a player and back (listen.go, process.go,      *)
(* client_conn.go, players.go, plugin_join_leave.go): the registry of      *)
(* player names, the user limit, registration and authentication, the      *)
(* join and leave handlers.                                                *)
(*                                                                         *)
(* Every connection has a goroutine, handleClt, that processes its packets *)
(* one after the other.  While it is at Recv any packet may arrive: the    *)
(* guards are the tests the code makes, of ClientConn.cstate and of the    *)
(* authentication method.  ToSrvInit2 and ToSrvCltReady make none.  A      *)
(* packet that fails a test and is not answered with a kick changes        *)
(* nothing and is no step here.                                            *)
(***************************************************************************)
EXTENDS Naturals, FiniteSets

CONSTANTS
  Clients,     \* connections, each used again after its ClientConn is gone
  Names,       \* player names of valid length
  BadNames,    \* those with other characters, and "singleplayer"
  BannedNames, \* names DefaultAuth().Banned reports
  UserLimit,   \* the configuration option
  None         \* the empty name, no method, no mutex owner

ASSUME LoginAssumption ==
  /\ BadNames \subseteq Names
  /\ BannedNames \subseteq Names
  /\ UserLimit \in Nat
  /\ None \notin Names \cup Clients \cup {"SRP", "FirstSRP"}
  /\ IsFiniteSet(Clients)
  /\ IsFiniteSet(Names)

VARIABLES
  stopped,    \* a panic has ended the program
  pc,         \* control of handleClt, "off" without a connection
  open,       \* connections that are not closed
  kicked,     \* those that Kick was called for, which does not wait
  cstate,     \* ClientConn.cstate
  name,       \* ClientConn.name
  method,     \* ClientConn.auth.method
  players,    \* the registry of players.go
  playersMu,  \* owner of playersMu
  accounts,   \* names DefaultAuth().Exists reports
  admitted,   \* history: clients that passed the tests of ToSrvInit
  joined,     \* history: clients the join handlers have run for
  left        \* history: clients the leave handlers have run for

connVars == <<stopped, open, kicked>>
nameVars == <<name, players, playersMu, admitted>>
authVars == <<cstate, method, accounts>>
joinVars == <<joined, left>>
vars == <<pc, connVars, nameVars, authVars, joinVars>>

At(c, l) == ~stopped /\ pc[c] = l
Goto(c, l) == pc' = [pc EXCEPT ![c] = l]
SetState(c, s) == cstate' = [cstate EXCEPT ![c] = s]

\* A packet of c is about to be processed; a closed connection brings none.
Recv(c) == At(c, "recv") /\ c \in open

Init ==
  /\ stopped = FALSE
  /\ pc = [c \in Clients |-> "off"]
  /\ open = {}
  /\ kicked = {}
  /\ cstate = [c \in Clients |-> "created"]
  /\ name = [c \in Clients |-> None]
  /\ method = [c \in Clients |-> None]
  /\ players = {}
  /\ playersMu = None
  /\ \E N \in SUBSET Names : accounts = N
  /\ admitted = {}
  /\ joined = {}
  /\ left = {}

-----------------------------------------------------------------------------
\* listener.accept makes a new ClientConn and starts handleClt.
Accept(c) ==
  /\ At(c, "off")
  /\ Goto(c, "recv")
  /\ open' = open \cup {c}
  /\ UNCHANGED <<stopped, kicked, nameVars, authVars, joinVars>>

\* A kick that process waits for: the client acknowledged it, or was closed.
KickEnd(c) ==
  /\ At(c, "kick")
  /\ open' = open \ {c}
  /\ Goto(c, "recv")
  /\ UNCHANGED <<stopped, kicked, nameVars, authVars, joinVars>>

\* Kick returns at once: the connection is closed when the client acknowledges.
MayKick(c) == kicked' \in {kicked, kicked \cup {c}}

-----------------------------------------------------------------------------
(***************************************************************************)
(* ToSrvInit.                                                              *)
(***************************************************************************)

InitRecv(c, n) ==
  /\ Recv(c)
  /\ cstate[c] = "created"
  /\ SetState(c, "init")
  /\ name' = [name EXCEPT ![c] = n]
  /\ Goto(c, "register")
  /\ UNCHANGED <<connVars, players, playersMu, admitted, method, accounts, joinVars>>

\* Mutant: the kick is not followed by a return.
InitInvalidGoesOn(c) ==
  /\ Recv(c)
  /\ cstate[c] = "created"
  /\ SetState(c, "init")
  /\ Goto(c, "register")
  /\ UNCHANGED <<connVars, nameVars, method, accounts, joinVars>>

\* The wrong protocol version or a name of invalid length.
InitInvalid(c) ==
  /\ Recv(c)
  /\ cstate[c] = "created"
  /\ SetState(c, "init")
  /\ Goto(c, "kick")
  /\ UNCHANGED <<connVars, nameVars, method, accounts, joinVars>>

InitRegister(c) ==
  /\ At(c, "register")
  /\ playersMu = None
  /\ name[c] \notin players
  /\ players' = players \cup {name[c]}
  /\ Goto(c, "check")
  /\ UNCHANGED <<connVars, name, playersMu, admitted, authVars, joinVars>>

\* The name is taken: playersMu stays locked until the kick is acknowledged.
InitTaken(c) ==
  /\ At(c, "register")
  /\ playersMu = None
  /\ name[c] \in players
  /\ playersMu' = c
  /\ Goto(c, "taken")
  /\ UNCHANGED <<connVars, name, players, admitted, authVars, joinVars>>

\* Mutants: the name is not reset; the early return leaves playersMu locked.
TakenKeepsName(c) ==
  /\ At(c, "taken")
  /\ open' = open \ {c}
  /\ playersMu' = None
  /\ Goto(c, "recv")
  /\ UNCHANGED <<stopped, kicked, name, players, admitted, authVars, joinVars>>

TakenKeepsLock(c) ==
  /\ At(c, "taken")
  /\ open' = open \ {c}
  /\ name' = [name EXCEPT ![c] = None]
  /\ Goto(c, "recv")
  /\ UNCHANGED <<stopped, kicked, players, playersMu, admitted, authVars, joinVars>>

TakenEnd(c) ==
  /\ At(c, "taken")
  /\ open' = open \ {c}
  /\ name' = [name EXCEPT ![c] = None]
  /\ playersMu' = None
  /\ Goto(c, "recv")
  /\ UNCHANGED <<stopped, kicked, players, admitted, authVars, joinVars>>

\* Mutant: the client does not count.
FullButOne == Cardinality(players) > UserLimit + 1

\* The registry is read without the mutex and counts the client itself.
Full == Cardinality(players) > UserLimit

InitRefuse(c) ==
  /\ At(c, "check")
  /\ name[c] \in BadNames \/ Full
  /\ Goto(c, "kick")
  /\ UNCHANGED <<connVars, nameVars, authVars, joinVars>>

InitPass(c) ==
  /\ At(c, "check")
  /\ name[c] \notin BadNames
  /\ ~Full
  /\ admitted' = admitted \cup {c}
  /\ Goto(c, "passed")
  /\ UNCHANGED <<connVars, name, players, playersMu, authVars, joinVars>>

\* A banned client: Kick does not wait, and later packets are processed.
InitBanned(c) ==
  /\ At(c, "passed")
  /\ name[c] \in BannedNames
  /\ kicked' = kicked \cup {c}
  /\ Goto(c, "recv")
  /\ UNCHANGED <<stopped, open, nameVars, authVars, joinVars>>

InitHello(c) ==
  /\ At(c, "passed")
  /\ name[c] \notin BannedNames
  /\ method' = [method EXCEPT ![c] = IF name[c] \in accounts THEN "SRP" ELSE "FirstSRP"]
  /\ Goto(c, "recv")
  /\ UNCHANGED <<connVars, nameVars, cstate, accounts, joinVars>>

-----------------------------------------------------------------------------
(***************************************************************************)
(* Authentication: ToSrvFirstSRP, ToSrvSRPBytesA and ToSrvSRPBytesM, with  *)
(* the client in csInit, then in csActive or csSudo.                       *)
(***************************************************************************)

FirstSRP(c) ==
  /\ Recv(c)
  /\ cstate[c] = "init"
  /\ method[c] = "FirstSRP"
  /\ method' = [method EXCEPT ![c] = None]
  /\ accounts' = accounts \cup {name[c]}
  /\ UNCHANGED <<pc, connVars, nameVars, cstate, joinVars>>

\* The password is empty, or the backend fails: the user may exist without one.
FirstSRPFail(c) ==
  /\ Recv(c)
  /\ cstate[c] = "init"
  /\ method[c] = "FirstSRP"
  /\ method' = [method EXCEPT ![c] = None]
  /\ accounts' = accounts \/ accounts' = accounts \cup {name[c]}
  /\ Goto(c, "kick")
  /\ UNCHANGED <<connVars, nameVars, cstate, joinVars>>

\* A packet of the authentication for a method m that is not expected.
WrongMethod(c) ==
  /\ Recv(c)
  /\ cstate[c] = "init"
  /\ \E m \in {"FirstSRP", "SRP"} : method[c] # m
  /\ Goto(c, "kick")
  /\ UNCHANGED <<connVars, nameVars, authVars, joinVars>>

\* In csActive the client asks for csSudo, whatever method it used before.
MayBytesA(c) ==
  Recv(c) /\ (cstate[c] = "active" \/ (cstate[c] = "init" /\ method[c] = "SRP"))

BytesA(c) ==
  /\ MayBytesA(c)
  /\ name[c] \in accounts
  /\ method' = [method EXCEPT ![c] = "SRP"]
  /\ UNCHANGED <<pc, connVars, nameVars, cstate, accounts, joinVars>>

\* The backend has no password, or the values fail the safety check.
BytesAFail(c) ==
  /\ MayBytesA(c)
  /\ method' = [method EXCEPT ![c] = "SRP"]
  /\ Goto(c, "kick")
  /\ UNCHANGED <<connVars, nameVars, cstate, accounts, joinVars>>

\* The only test is of the method: ToSrvSRPBytesA need not have come before.
BytesM(c) ==
  /\ Recv(c)
  /\ cstate[c] \in {"init", "active"}
  /\ method[c] = "SRP"
  /\ method' = [method EXCEPT ![c] = None]
  /\ SetState(c, IF cstate[c] = "active" THEN "sudo" ELSE "init")
  /\ UNCHANGED <<pc, connVars, nameVars, accounts, joinVars>>

\* A wrong password; an active client is only denied.
BytesMFail(c) ==
  /\ Recv(c)
  /\ cstate[c] = "init"
  /\ method[c] = "SRP"
  /\ Goto(c, "kick")
  /\ UNCHANGED <<connVars, nameVars, authVars, joinVars>>

\* A password change, which may fail; the client leaves csSudo first.
Passwd(c) ==
  /\ Recv(c)
  /\ cstate[c] = "sudo"
  /\ SetState(c, "active")
  /\ accounts' = accounts \/ accounts' = accounts \cup {name[c]}
  /\ UNCHANGED <<pc, connVars, nameVars, method, joinVars>>

-----------------------------------------------------------------------------
(***************************************************************************)
(* ToSrvInit2 and ToSrvCltReady, which are processed in every state, and   *)
(* the end of handleClt.                                                   *)
(***************************************************************************)

\* muxContent downloads the content, which may take for ever.
Init2(c) ==
  /\ Recv(c)
  /\ Goto(c, "mux")
  /\ UNCHANGED <<connVars, nameVars, authVars, joinVars>>

\* The content is sent, or Kick is called because there is none.
Init2End(c) ==
  /\ At(c, "mux")
  /\ MayKick(c)
  /\ Goto(c, "recv")
  /\ UNCHANGED <<stopped, open, nameVars, authVars, joinVars>>

\* The join and leave handlers; a join handler may refuse the client.
HandleJoin(c) == joined' = joined \cup {c} /\ MayKick(c)
HandleLeave(c) == left' = left \cup {c}

\* Closing initCh a second time is a panic.
CltReady(c) ==
  /\ Recv(c)
  /\ SetState(c, "active")
  /\ HandleJoin(c)
  /\ stopped' = (c \in joined)
  /\ UNCHANGED <<pc, open, nameVars, method, accounts, left>>

\* The client disconnects, times out, or a Kick is acknowledged.
CltClose(c) ==
  /\ ~stopped
  /\ c \in open
  /\ open' = open \ {c}
  /\ UNCHANGED <<pc, stopped, kicked, nameVars, authVars, joinVars>>

\* Recv fails: the leave handlers run for an active client.
Leave(c) ==
  /\ At(c, "recv")
  /\ c \notin open
  /\ IF cstate[c] = "active" THEN HandleLeave(c) ELSE UNCHANGED left
  /\ Goto(c, "unlist")
  /\ UNCHANGED <<connVars, nameVars, authVars, joined>>

\* Mutant: only players that joined are removed from the registry.
UnlistJoined(c) ==
  /\ At(c, "unlist")
  /\ name[c] # None => playersMu = None
  /\ players' = IF c \in joined THEN players \ {name[c]} ELSE players
  /\ admitted' = admitted \ {c}
  /\ Goto(c, "done")
  /\ UNCHANGED <<connVars, name, playersMu, authVars, joinVars>>

Unlist(c) ==
  /\ At(c, "unlist")
  /\ name[c] # None => playersMu = None
  /\ players' = players \ {name[c]}
  /\ admitted' = admitted \ {c}
  /\ Goto(c, "done")
  /\ UNCHANGED <<connVars, name, playersMu, authVars, joinVars>>

\* The ClientConn is garbage.
Collect(c) ==
  /\ At(c, "done")
  /\ Goto(c, "off")
  /\ SetState(c, "created")
  /\ name' = [name EXCEPT ![c] = None]
  /\ method' = [method EXCEPT ![c] = None]
  /\ kicked' = kicked \ {c}
  /\ joined' = joined \ {c}
  /\ left' = left \ {c}
  /\ UNCHANGED <<stopped, open, players, playersMu, admitted, accounts>>

-----------------------------------------------------------------------------
InitStep(c) ==
  \/ InitInvalid(c) \/ InitRegister(c) \/ InitTaken(c) \/ TakenEnd(c)
  \/ InitRefuse(c) \/ InitPass(c) \/ InitBanned(c) \/ InitHello(c)
  \/ \E n \in Names : InitRecv(c, n)

AuthStep(c) ==
  \/ FirstSRP(c) \/ FirstSRPFail(c) \/ WrongMethod(c) \/ BytesA(c) \/ BytesAFail(c)
  \/ BytesM(c) \/ BytesMFail(c) \/ Passwd(c)

CltStep(c) ==
  \/ Accept(c) \/ KickEnd(c) \/ Init2(c) \/ Init2End(c) \/ CltReady(c)
  \/ CltClose(c) \/ Leave(c) \/ Unlist(c) \/ Collect(c)

Next == \E c \in Clients : InitStep(c) \/ AuthStep(c) \/ CltStep(c)

Spec == Init /\ [][Next]_vars

(***************************************************************************)
(* The goroutine goes on when it can, and a kicked client acknowledges or  *)
(* times out; clients need not send anything nor close, and muxContent     *)
(* need not return.  A mutex is granted to a goroutine that keeps waiting  *)
(* for it.                                                                 *)
(***************************************************************************)
Fairness ==
  \A c \in Clients :
    /\ WF_vars(KickEnd(c))
    /\ WF_vars(TakenEnd(c))
    /\ WF_vars(Leave(c))
    /\ WF_vars(c \in kicked /\ CltClose(c))
    /\ WF_vars(InitRefuse(c) \/ InitPass(c) \/ InitBanned(c) \/ InitHello(c))
    /\ SF_vars(InitRegister(c) \/ InitTaken(c))
    /\ SF_vars(Unlist(c))

FairSpec == Spec /\ Fairness

-----------------------------------------------------------------------------
\* Control states in which the name of the client is its own in the registry.
Owns(c) ==
  name[c] # None /\ pc[c] \in {"check", "passed", "kick", "recv", "mux", "unlist"}

\* Type invariant of the clients, the registry and the accounts.
TypeOK ==
  /\ stopped \in BOOLEAN
  /\ pc \in [Clients -> {"off", "recv", "register", "taken", "check", "passed",
                         "kick", "mux", "unlist", "done"}]
  /\ open \subseteq Clients
  /\ kicked \subseteq Clients
  /\ cstate \in [Clients -> {"created", "init", "active", "sudo"}]
  /\ name \in [Clients -> Names \cup {None}]
  /\ method \in [Clients -> {"SRP", "FirstSRP", None}]
  /\ players \subseteq Names
  /\ playersMu \in Clients \cup {None}
  /\ accounts \subseteq Names
  /\ admitted \subseteq Clients
  /\ joined \subseteq Clients
  /\ left \subseteq Clients

(***************************************************************************)
(* Two clients never own the same name, and the registry holds exactly the *)
(* names that are owned: a client that was refused because its name is     *)
(* taken does not release the name when it ends (process.go:95-98), and    *)
(* every other one does.                                                   *)
(***************************************************************************)
NamesOwned ==
  /\ \A c, d \in Clients : Owns(c) /\ Owns(d) /\ name[c] = name[d] => c = d
  /\ players = {name[c] : c \in {d \in Clients : Owns(d)}}

(***************************************************************************)
(* No more than UserLimit clients are past the tests of ToSrvInit and not  *)
(* gone, although the registry is counted without its mutex                *)
(* (process.go:134) and also counts clients that are refused afterwards.   *)
(* Clients that never sent ToSrvInit are counted by nobody.                *)
(***************************************************************************)
LimitKept == Cardinality(admitted) <= UserLimit

(***************************************************************************)
(* A registration does not overwrite an account: between the lookup that   *)
(* offers FirstSRP and the write (process.go:155-202) no other client can  *)
(* register the name, in whatever order the packets arrive.                *)
(***************************************************************************)
RegistersOnce ==
  \A c \in Clients :
    Owns(c) /\ cstate[c] = "init" /\ method[c] = "FirstSRP" => name[c] \notin accounts

(***************************************************************************)
(* What the order of the packets leaves open: a name is set by ToSrvInit   *)
(* only and stays while the client is connected; an account is written     *)
(* and read by clients that have one; playersMu belongs to a client whose  *)
(* name is taken (process.go:34-352).                                      *)
(***************************************************************************)
OrderInv ==
  \A c \in Clients :
    /\ pc[c] \in {"register", "taken", "check", "passed"} =>
         name[c] # None /\ cstate[c] = "init" /\ method[c] = None
    /\ pc[c] = "off" => name[c] = None /\ cstate[c] = "created" /\ method[c] = None
    /\ cstate[c] = "created" => name[c] = None /\ method[c] = None
    /\ pc[c] \in {"recv", "mux"} /\ c \in open /\ (cstate[c] = "init" \/ method[c] = "SRP") =>
         name[c] # None
    /\ cstate[c] = "sudo" => name[c] # None
    /\ c \in admitted => Owns(c)
    /\ playersMu = c => pc[c] = "taken"
    /\ pc[c] = "taken" => playersMu = c

\* Inductive: no step leads out of it.
IInv == TypeOK /\ OrderInv /\ NamesOwned /\ LimitKept /\ RegistersOnce

(***************************************************************************)
(* A client whose connection is closed is eventually done and releases its *)
(* name, although other clients hold playersMu until a kick is             *)
(* acknowledged (process.go:83-101); only muxContent may keep its          *)
(* goroutine for ever (process.go:381).                                    *)
(***************************************************************************)
NameFreed ==
  \A c \in Clients :
    pc[c] \notin {"off", "mux"} /\ c \notin open ~> pc[c] = "done" \/ stopped
=============================================================================
