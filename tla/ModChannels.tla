---------------------------- MODULE ModChannels ----------------------------
(***************************************************************************)
(* The mod channels of a client that hops from server to server.  The      *)
(* proxy passes the requests of the client on, records in modChs what the  *)
(* answers say, and joins the recorded channels again after a hop          *)
(* (plugin_modchan.go, process.go, the end of HopRaw).                     *)
(* A connection delivers in order and loses what is under way when it is   *)
(* closed.  The client learns of an answer when it is sent to it.  The     *)
(* server is external: it refuses who has joined already, may refuse       *)
(* anybody, and may ignore a request that comes before the handshake is    *)
(* over.  The joins after a hop do: HopRaw sends them as soon as connect   *)
(* has returned, which does not wait for the handshake.                    *)
(***************************************************************************)
EXTENDS Naturals, Sequences

CONSTANTS
  MaxConns,    \* bound: connections to servers
  MaxRequests, \* bound: requests of the client
  Channels,    \* names of mod channels
  None         \* nothing

ASSUME ModChanAssumption ==
  /\ MaxConns \in Nat \ {0}
  /\ MaxRequests \in Nat
  /\ None \notin Channels \cup 1 .. MaxConns

VARIABLES
  cur,         \* the connection the client has or had last
  attached,    \* whether that connection has its client
  hop,         \* control of HopRaw
  loop,        \* the loop over modChs: the entries it must and those it did produce
  view,        \* what the client believes of each channel
  requests,    \* requests of the client so far
  clt,         \* ClientConn.process: the request and the server it has read
  subscribers, \* modChanSubscribers: the channels that list the client
  modChs,      \* ClientConn.modChs
  handler,     \* ServerConn.process of each connection: the signal it is at
  toSrv,       \* requests under way to the current server
  toClt,       \* signals under way from it
  member,      \* the channels it has the client in
  ready,       \* whether it is through with the handshake
  late,        \* history: channels whose signals were handled after the hop
  unsure       \* history: channels that the current server ignored a request for, or
               \* that an old handler recorded, and that it has not answered since

hopVars == <<cur, attached, hop, loop>>
cltVars == <<view, requests, clt, subscribers>>
srvVars == <<toSrv, toClt, member, ready>>
history == <<late, unsure>>
vars == <<hopVars, cltVars, srvVars, modChs, handler, history>>

Conns == 1 .. MaxConns
Message == [op : {"join", "leave"}, ch : Channels]
Signal == [op : {"joinOK", "joinFail", "leaveOK", "leaveFail"}, ch : Channels]
NoRequest == [pc |-> "idle", req |-> None, srv |-> None]
NoSignal == [pc |-> "idle", sig |-> None]
NoLoop == [todo |-> {}, done |-> {}]

Init ==
  /\ cur = 1 /\ attached = TRUE /\ hop = "idle" /\ loop = NoLoop
  /\ view = [ch \in Channels |-> "none"]
  /\ requests = 0 /\ clt = NoRequest /\ subscribers = {}
  /\ toSrv = <<>> /\ toClt = <<>> /\ member = {} /\ ready = FALSE
  /\ modChs = {}
  /\ handler = [k \in Conns |-> NoSignal]
  /\ late = {} /\ unsure = {}

-----------------------------------------------------------------------------
(* The client and ClientConn.process *)

\* A client joins a channel it is not in, and leaves one it is in; it waits for
\* the answer to a join.
\* process reads the server of the client before anything else.
Request(op, ch) ==
  /\ clt.pc = "idle"
  /\ requests < MaxRequests
  /\ view[ch] = IF op = "join" THEN "none" ELSE "ready"
  /\ requests' = requests + 1
  /\ view' = [view EXCEPT ![ch] = IF op = "join" THEN "init" ELSE "none"]
  /\ clt' = [pc |-> "read", req |-> [op |-> op, ch |-> ch],
             srv |-> IF hop = "cleared" THEN None ELSE cur]
  /\ UNCHANGED <<hopVars, subscribers, srvVars, modChs, handler, history>>

\* The subscriber is added or removed and the request forwarded; what is sent
\* to a connection that was left meanwhile gets lost.
Forward ==
  /\ clt.pc = "read"
  /\ LET ch == clt.req.ch
     IN  subscribers' = IF clt.req.op = "join" THEN subscribers \cup {ch}
                        ELSE subscribers \ {ch}
  /\ toSrv' = IF clt.srv = cur /\ attached THEN Append(toSrv, clt.req) ELSE toSrv
  /\ clt' = [clt EXCEPT !.pc = "sent"]
  /\ UNCHANGED <<hopVars, view, requests, toClt, member, ready, modChs, handler, history>>

\* The deferred cltLeaveModChans at the end of every packet of a client.
EndRequest ==
  /\ clt.pc = "sent"
  /\ clt' = NoRequest
  /\ subscribers' = {}
  /\ UNCHANGED <<hopVars, view, requests, srvVars, modChs, handler, history>>

-----------------------------------------------------------------------------
(* The server *)

Reply(op) == toClt' = Append(toClt, [op |-> op, ch |-> Head(toSrv).ch])

AnswerJoin(ch) ==
  \/ ch \notin member /\ member' = member \cup {ch} /\ Reply("joinOK")
  \/ UNCHANGED member /\ Reply("joinFail")

AnswerLeave(ch) ==
  /\ member' = member \ {ch}
  /\ Reply(IF ch \in member THEN "leaveOK" ELSE "leaveFail")

Answer ==
  /\ toSrv # <<>>
  /\ toSrv' = Tail(toSrv)
  /\ \/ Head(toSrv).op = "join" /\ AnswerJoin(Head(toSrv).ch)
     \/ Head(toSrv).op = "leave" /\ AnswerLeave(Head(toSrv).ch)
  /\ UNCHANGED <<hopVars, cltVars, ready, modChs, handler, history>>

Ignore ==
  /\ ~ready
  /\ toSrv # <<>>
  /\ toSrv' = Tail(toSrv)
  /\ unsure' = unsure \cup {Head(toSrv).ch}
  /\ UNCHANGED <<hopVars, cltVars, toClt, member, ready, modChs, handler, late>>

\* The handshake ends.
Welcome ==
  /\ attached /\ ~ready
  /\ ready' = TRUE
  /\ UNCHANGED <<hopVars, cltVars, toSrv, toClt, member, modChs, handler, history>>

-----------------------------------------------------------------------------
(* ServerConn.process of ToCltModChanSig *)

\* The handler reads its client; without one the signal is dropped.
Receive ==
  /\ attached
  /\ toClt # <<>>
  /\ handler[cur].pc = "idle"
  /\ handler' = [handler EXCEPT ![cur] = [pc |-> "got", sig |-> Head(toClt)]]
  /\ toClt' = Tail(toClt)
  /\ UNCHANGED <<hopVars, cltVars, toSrv, member, ready, modChs, history>>

Left(k) == k < cur \/ ~attached
Late(k) == late' = IF Left(k) THEN late \cup {handler[k].sig.ch} ELSE late

\* What a signal makes of modChs: a failed join falls through to the leave.
Recorded(sig) ==
  CASE sig.op = "joinOK" -> modChs \cup {sig.ch}
    [] sig.op \in {"joinFail", "leaveOK"} -> modChs \ {sig.ch}
    [] sig.op = "leaveFail" -> modChs

\* The answer of the current server settles what is recorded of a channel.
Settles(sig) == sig.op # "leaveFail"

\* A success of a channel that is recorded already is not passed on: the client
\* knows of it from another server.
Record(k) ==
  LET sig == handler[k].sig
  IN  /\ handler[k].pc = "got"
      /\ modChs' = Recorded(sig)
      /\ handler' = [handler EXCEPT ![k] =
           IF sig.op = "joinOK" /\ sig.ch \in modChs THEN NoSignal ELSE [@ EXCEPT !.pc = "send"]]
      /\ unsure' = IF Left(k) THEN unsure \cup {sig.ch}
                   ELSE IF Settles(sig) THEN unsure \ {sig.ch}
                   ELSE unsure
      /\ Late(k)
      /\ UNCHANGED <<hopVars, cltVars, srvVars>>

\* What the client makes of a signal.
Believed(sig) ==
  CASE sig.op = "joinOK" -> IF view[sig.ch] = "init" THEN "ready" ELSE view[sig.ch]
    [] sig.op = "joinFail" -> "none"
    [] sig.op \in {"leaveOK", "leaveFail"} -> view[sig.ch]

Pass(k) ==
  LET sig == handler[k].sig
  IN  /\ handler[k].pc = "send"
      /\ view' = [view EXCEPT ![sig.ch] = Believed(sig)]
      /\ handler' = [handler EXCEPT ![k] = NoSignal]
      /\ Late(k)
      /\ UNCHANGED <<hopVars, requests, clt, subscribers, srvVars, modChs, unsure>>

-----------------------------------------------------------------------------
(* HopRaw *)

Leave ==
  /\ hop = "idle"
  /\ cur < MaxConns
  /\ attached' = FALSE
  /\ hop' = "cleared"
  /\ toSrv' = <<>> /\ toClt' = <<>> /\ ready' = FALSE
  /\ UNCHANGED <<cur, loop, cltVars, member, modChs, handler, history>>

\* Mutant: the new connection starts with a record of its own.
ConnectAfresh ==
  /\ hop = "cleared"
  /\ cur' = cur + 1
  /\ attached' = TRUE
  /\ hop' = "rejoin"
  /\ loop' = [todo |-> modChs, done |-> {}]
  /\ member' = {} /\ unsure' = {} /\ modChs' = {}
  /\ UNCHANGED <<cltVars, toSrv, toClt, ready, handler, late>>

\* connect; then the loop over modChs begins.
Connect ==
  /\ hop = "cleared"
  /\ cur' = cur + 1
  /\ attached' = TRUE
  /\ hop' = "rejoin"
  /\ loop' = [todo |-> modChs, done |-> {}]
  /\ member' = {} /\ unsure' = {}
  /\ UNCHANGED <<cltVars, toSrv, toClt, ready, modChs, handler, late>>

\* Mutant: the request of the loop has no channel.
RejoinNothing(ch) ==
  /\ hop = "rejoin"
  /\ ch \in modChs \ loop.done
  /\ loop' = [loop EXCEPT !.done = @ \cup {ch}]
  /\ toSrv' = Append(toSrv, [op |-> "join", ch |-> None])
  /\ UNCHANGED <<cur, attached, hop, cltVars, toClt, member, ready, modChs, handler, history>>

\* One round of the loop.  An entry that was added since it began may be produced.
Rejoin(ch) ==
  /\ hop = "rejoin"
  /\ ch \in modChs \ loop.done
  /\ loop' = [loop EXCEPT !.done = @ \cup {ch}]
  /\ toSrv' = Append(toSrv, [op |-> "join", ch |-> ch])
  /\ UNCHANGED <<cur, attached, hop, cltVars, toClt, member, ready, modChs, handler, history>>

\* Mutant: the loop is missing.
NoRejoin ==
  /\ hop = "rejoin"
  /\ hop' = "idle"
  /\ loop' = NoLoop
  /\ UNCHANGED <<cur, attached, cltVars, srvVars, modChs, handler, history>>

\* The loop ends; entries that were removed are not produced.
EndLoop ==
  /\ hop = "rejoin"
  /\ loop.todo \cap modChs \subseteq loop.done
  /\ hop' = "idle"
  /\ loop' = NoLoop
  /\ UNCHANGED <<cur, attached, cltVars, srvVars, modChs, handler, history>>

Next ==
  \/ \E ch \in Channels : Request("join", ch) \/ Request("leave", ch) \/ Rejoin(ch)
  \/ Forward \/ EndRequest
  \/ Answer \/ Ignore \/ Welcome
  \/ Receive \/ (\E k \in Conns : Record(k) \/ Pass(k))
  \/ Leave \/ Connect \/ EndLoop

Spec == Init /\ [][Next]_vars

-----------------------------------------------------------------------------
TypeOK ==
  /\ cur \in Conns /\ attached \in BOOLEAN
  /\ hop \in {"idle", "cleared", "rejoin"}
  /\ loop \in [todo : SUBSET Channels, done : SUBSET Channels]
  /\ view \in [Channels -> {"none", "init", "ready"}]
  /\ requests \in 0 .. MaxRequests
  /\ clt \in [pc : {"idle", "read", "sent"}, req : Message \cup {None}, srv : Conns \cup {None}]
  /\ subscribers \subseteq Channels
  /\ toSrv \in Seq(Message) /\ toClt \in Seq(Signal)
  /\ handler \in [Conns -> [pc : {"idle", "got", "send"}, sig : Signal \cup {None}]]
  /\ clt.pc = "read" => clt.req \in Message
  /\ \A k \in Conns : handler[k].pc # "idle" => handler[k].sig \in Signal
  /\ member \subseteq Channels /\ ready \in BOOLEAN
  /\ modChs \subseteq Channels /\ late \subseteq Channels /\ unsure \subseteq Channels

\* Every request was answered, every answer handled, and no hop is under way.
Resting ==
  /\ attached /\ hop = "idle" /\ clt.pc = "idle"
  /\ toSrv = <<>> /\ toClt = <<>>
  /\ \A k \in Conns : handler[k].pc = "idle"

\* However hops, requests and refusals follow one another, in the end the server
\* the client is on has it in every channel that the proxy has recorded, except
\* those that this server ignored a request for or that a handler of an old
\* connection has recorded, as long as the server has not answered since.
RejoinedAfterHop == Resting => modChs \ unsure \subseteq member

\* What IsModChanJoined returns is so (plugin_modchan.go:96-98), if no handler of an
\* old connection came across it.
JoinedMeansMember == Resting => modChs \ late \subseteq member

\* In the end the client believes to be in no channel that the proxy does not
\* join again for it.
ClientIsKnown ==
  Resting => {ch \in Channels : view[ch] = "ready"} \ late \subseteq modChs

=============================================================================
