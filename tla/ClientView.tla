----------------------------- MODULE ClientView -----------------------------
(***************************************************************************)
(* What a client shows while it hops from server to server.  The handler   *)
(* of a server connection translates the packets of its server, records    *)
(* what they make the client show (ServerConn.process) and sends them on;  *)
(* HopRaw removes what is recorded from the client before it connects to   *)
(* the next server.  Handler and hop run at the same time: the handler     *)
(* reads its client once at the start of a packet.  (swapAOID reads it     *)
(* again, several times; if the hop detaches it in between, a nil client   *)
(* is dereferenced and the program stops, which is left out.)              *)
(*                                                                         *)
(* What is shown is known by a kind and an identifier of that kind.        *)
(* Objects ("ao") have identifiers that are translated: the client keeps   *)
(* the player object of its first server for good, so that the identifier  *)
(* of the player on the current server and this one are swapped.           *)
(* A packet holds one entry.  How connections are attached, lost and       *)
(* closed is the subject of Session; here they follow one another.         *)
(***************************************************************************)
EXTENDS Naturals, Sequences

CONSTANTS
  MaxConns, \* bound: connections to servers
  MaxKept,  \* bound: how often a server repeats a detached inventory
  AOIDs,    \* identifiers of objects
  Names,    \* identifiers of everything else
  None,     \* nothing
  Player    \* the player object of the client

ASSUME ViewAssumption ==
  /\ MaxConns \in Nat \ {0}
  /\ MaxKept \in Nat \ {0}
  /\ 0 \notin AOIDs
  /\ None # Player
  /\ \A k \in 1 .. MaxConns : \A id \in AOIDs : Player # [conn |-> k, id |-> id]

VARIABLES
  cur,        \* the connection the client has or had last
  attached,   \* whether that connection has its client
  hop,        \* control of HopRaw
  tracked,    \* per kind, how often an identifier is recorded at the connection
  packet,     \* the packet the handler of each connection is at
  shown,      \* what the client shows
  playerCAO,  \* identifier of the player object at the client
  currentCAO, \* identifier of the player object at the server
  known,      \* objects that the server of cur believes the client to show
  own,        \* the player object of that server, once it was sent
  click,      \* the object the player interacts with
  aimed,      \* history: the player object of the server and the objects added after
              \* it, as long as no other handler replaces currentCAO
  faded,      \* history: looped sounds that were faded and not stopped
  late,       \* history: what a handler changed after the reset of its kind
  early       \* history: connections that were left without a reset

serverVars == <<known, own>>
caoVars == <<playerCAO, currentCAO>>
history == <<aimed, faded, late, early>>
vars == <<cur, attached, hop, tracked, packet, shown, caoVars, serverVars, click, history>>

Conns == 1 .. MaxConns
\* The order of the loops in HopRaw; "param" stands for all static parameters.
ResetOrder == <<"inv", "ao", "spawner", "sound", "hud", "param", "player">>
Kinds == {ResetOrder[i] : i \in 1 .. Len(ResetOrder)}
Ids(kind) == IF kind = "ao" THEN AOIDs ELSE Names
Idle == 0                         \* values of hop besides an index of ResetOrder
Clear == Len(ResetOrder) + 1
Off == Len(ResetOrder) + 2        \* the dial failed: there is no server any more

NoPacket == [pc |-> "idle", op |-> None, kind |-> None, id |-> None, at |-> None]
NoClick == [pc |-> "idle", id |-> None, what |-> None, aim |-> FALSE, srv |-> None]
Nowhere == [kind \in Kinds |-> [id \in Ids(kind) |-> None]]
Untracked == [kind \in Kinds |-> [id \in Ids(kind) |-> 0]]
Origin(k, id) == [conn |-> k, id |-> id]

Init ==
  /\ cur = 1
  /\ attached = TRUE
  /\ hop = Idle
  /\ tracked = Untracked
  /\ packet = [k \in Conns |-> NoPacket]
  /\ shown = Nowhere
  /\ playerCAO = 0 /\ currentCAO = 0
  /\ known = {}
  /\ own = 0
  /\ click = NoClick
  /\ aimed = {} /\ faded = {} /\ late = {} /\ early = {}

hasPlayerCAO == playerCAO # 0
Attached(k) == k = cur /\ attached

\* Mutant: the identifier of the server's player is not translated back.
SwapOneWay(k, id) ==
  IF Attached(k) /\ id = playerCAO THEN currentCAO ELSE id

\* swapAOID(id) at connection k.
Swap(k, id) ==
  IF ~Attached(k) THEN id
  ELSE IF id = playerCAO THEN currentCAO
  ELSE IF id = currentCAO THEN playerCAO
  ELSE id

-----------------------------------------------------------------------------
(* The handler of a connection: ServerConn.process *)

\* A packet arrives; without a client it is dropped.
Receive(k, op, kind, id) ==
  /\ packet[k].pc = "idle"
  /\ Attached(k)
  /\ packet' = [packet EXCEPT ![k] =
       [pc |-> "track", op |-> op, kind |-> kind, id |-> id, at |-> None]]
  /\ UNCHANGED <<cur, attached, hop, tracked, shown, caoVars, click, history>>

\* What a server sends of an object depends on what it has sent before.
ReceiveObject(k, id) ==
  \/ /\ own = 0 /\ id \notin known
     /\ own' = id
     /\ UNCHANGED known
     /\ Receive(k, "own", "ao", id)
  \/ /\ id \notin known \cup {own}
     /\ known' = known \cup {id}
     /\ UNCHANGED own
     /\ Receive(k, "add", "ao", id)
  \/ /\ id \in known
     /\ known' = known \ {id}
     /\ UNCHANGED own
     /\ Receive(k, "del", "ao", id)
  \/ /\ id \in known \cup {own}
     /\ UNCHANGED serverVars
     /\ Receive(k, "msg", "ao", id)

ReceiveThing(k, kind, id) ==
  /\ \/ tracked[kind][id] < MaxKept /\ Receive(k, "add", kind, id)
     \/ kind # "param" /\ Receive(k, "del", kind, id)
     \/ kind = "sound" /\ Receive(k, "fade", kind, id)
  /\ UNCHANGED serverVars

\* The connection of a handler that outlived its hop is garbage, and its record too.
Record(k, kind, id, n) ==
  tracked' = IF k = cur THEN [tracked EXCEPT ![kind][id] = n] ELSE tracked

ToSend(k, at) == packet' = [packet EXCEPT ![k].pc = "send", ![k].at = at]
Dropped(k) == packet' = [packet EXCEPT ![k] = NoPacket]

\* The player object: the client gets it from its first server only, from the
\* others just its messages, with the identifier of the server.
TrackOwn(k, id) ==
  /\ currentCAO' = id
  /\ IF hasPlayerCAO
     THEN /\ packet' = [packet EXCEPT ![k] = [@ EXCEPT !.pc = "send", !.op = "init", !.at = id]]
          /\ UNCHANGED playerCAO
     ELSE playerCAO' = id /\ ToSend(k, id)
  /\ aimed' = IF k = cur THEN aimed \cup {id} ELSE IF id = own THEN aimed ELSE {}
  /\ UNCHANGED <<tracked, faded>>

\* Mutant: the identifier of the object is not translated.
MessageAsIs(k, id) ==
  /\ ToSend(k, id)
  /\ UNCHANGED <<tracked, caoVars, aimed, faded>>

\* ToCltAOMsgs: a message about an object, of which only the identifier matters.
TrackMessage(k, id) ==
  /\ ToSend(k, Swap(k, id))
  /\ UNCHANGED <<tracked, caoVars, aimed, faded>>

\* The player object of the current server is known.
OwnKnown == own # 0 /\ currentCAO = own

\* The history: was the object added when the player object of k was known?
Aim(k, id) ==
  aimed' = IF Attached(k) /\ OwnKnown THEN aimed \cup {id} ELSE aimed

\* Mutant: the record holds the identifier of the server.
AddUnswapped(k, id) ==
  /\ Record(k, "ao", id, 1)
  /\ ToSend(k, Swap(k, id))
  /\ Aim(k, id)
  /\ UNCHANGED <<caoVars, faded>>

TrackAdd(k, id) ==
  /\ Record(k, "ao", Swap(k, id), 1)
  /\ ToSend(k, Swap(k, id))
  /\ Aim(k, id)
  /\ UNCHANGED <<caoVars, faded>>

\* The identifiers of removed objects are not translated.
TrackRemove(k, id) ==
  /\ Record(k, "ao", id, 0)
  /\ ToSend(k, id)
  /\ aimed' = IF k = cur THEN aimed \ {id} ELSE aimed
  /\ UNCHANGED <<caoVars, faded>>

\* Mutant: an inventory that is not in the list is removed from it.
CountBelow(op, kind, n) ==
  CASE kind = "param" -> 0
    [] op = "fade" -> 0
    [] op = "add" -> IF kind = "inv" THEN n + 1 ELSE 1
    [] op = "del" -> IF kind = "inv" THEN n - 1 ELSE 0

\* Detached inventories are a list, static parameters are not recorded, a
\* sound that is faded is forgotten.
Count(op, kind, n) ==
  CASE kind = "param" -> 0
    [] op = "fade" -> 0
    [] op = "add" -> IF kind = "inv" THEN n + 1 ELSE 1
    [] op = "del" -> IF kind = "inv" /\ n > 0 THEN n - 1 ELSE 0

TrackThing(k, op, kind, id) ==
  /\ Record(k, kind, id, Count(op, kind, tracked[kind][id]))
  /\ ToSend(k, id)
  /\ faded' = IF op = "fade" THEN faded \cup {id} ELSE faded
  /\ UNCHANGED <<caoVars, aimed>>

Track(k) ==
  LET p == packet[k]
  IN  /\ p.pc = "track"
      /\ \/ p.op = "own" /\ TrackOwn(k, p.id)
         \/ p.kind = "ao" /\ p.op = "add" /\ TrackAdd(k, p.id)
         \/ p.kind = "ao" /\ p.op = "del" /\ TrackRemove(k, p.id)
         \/ p.op = "msg" /\ TrackMessage(k, p.id)
         \/ p.kind # "ao" /\ TrackThing(k, p.op, p.kind, p.id)
      /\ UNCHANGED <<cur, attached, hop, shown, serverVars, click, late, early>>

Index(kind) == CHOOSE i \in 1 .. Len(ResetOrder) : ResetOrder[i] = kind
\* The hop is through with what connection k made the client show of a kind.
Past(k, kind) == k < cur \/ hop > Index(kind)

\* Packets that neither show nor remove anything.
Keeping == {"fade", "msg", "init"}

\* What the client shows after packet p.
Result(k, p) ==
  CASE p.op = "own" -> Player
    [] p.op = "add" -> Origin(k, p.id)
    [] p.op = "del" -> None
    [] p.op \in Keeping -> shown[p.kind][p.at]

\* clt.Send: the client that was read at the start of the packet gets it.
Send(k) ==
  LET p == packet[k]
  IN  /\ p.pc = "send"
      /\ shown' = [shown EXCEPT ![p.kind][p.at] = Result(k, p)]
      /\ late' = IF p.op \in Keeping THEN late
                 ELSE IF Past(k, p.kind) THEN late \cup {<<p.kind, p.at>>}
                 ELSE late \ {<<p.kind, p.at>>}
      /\ faded' = IF p.kind = "sound" /\ p.op # "fade" THEN faded \ {p.at} ELSE faded
      /\ Dropped(k)
      /\ UNCHANGED <<cur, attached, hop, tracked, caoVars, serverVars, click, aimed, early>>

-----------------------------------------------------------------------------
(* HopRaw *)

\* The connection loses its client and is closed.
Detach ==
  /\ hop = Idle
  /\ attached' = FALSE
  /\ IF hasPlayerCAO THEN hop' = 1 /\ UNCHANGED early
     ELSE hop' = Clear /\ early' = early \cup {cur}
  /\ UNCHANGED <<cur, tracked, packet, shown, caoVars, serverVars, click, aimed, faded, late>>

\* What the reset removes: the static parameters, and what is recorded.
Removes(kind, id) == kind = "param" \/ tracked[kind][id] > 0

\* One loop of the reset.
Reset ==
  LET kind == ResetOrder[hop]
  IN  /\ hop \in 1 .. Len(ResetOrder)
      /\ shown' = [shown EXCEPT ![kind] =
           [id \in Ids(kind) |-> IF Removes(kind, id) THEN None ELSE shown[kind][id]]]
      /\ hop' = hop + 1
      /\ late' = {l \in late : l[1] # kind \/ ~Removes(kind, l[2])}
      /\ UNCHANGED <<cur, attached, tracked, packet, caoVars, serverVars, click, aimed, faded, early>>

\* The next server is dialled and connected.
Connect ==
  /\ hop = Clear
  /\ cur < MaxConns
  /\ cur' = cur + 1
  /\ attached' = TRUE
  /\ tracked' = Untracked
  /\ hop' = Idle
  /\ known' = {} /\ own' = 0 /\ aimed' = {}
  /\ UNCHANGED <<packet, shown, caoVars, click, faded, late, early>>

DialFails ==
  /\ hop = Clear
  /\ hop' = Off
  /\ UNCHANGED <<cur, attached, tracked, packet, shown, caoVars, serverVars, click, history>>

-----------------------------------------------------------------------------
(* Interaction: ClientConn.process of ToSrvInteract *)

\* The object under identifier id is of the current server, which has sent its
\* player object, and is shown where the translation puts it.
Shows(id) ==
  LET w == shown["ao"][id]
  IN  w.conn = cur /\ attached /\ OwnKnown /\ Swap(cur, w.id) = id

\* The player points at an object that the client shows.
Point(id) ==
  /\ click.pc = "idle"
  /\ shown["ao"][id] \notin {None, Player}
  /\ click' = [pc |-> "sent", id |-> id, what |-> shown["ao"][id],
                aim |-> Shows(id), srv |-> None]
  /\ UNCHANGED <<cur, attached, hop, tracked, packet, shown, caoVars, serverVars, history>>

\* The proxy receives the packet and reads the server of the client.
ReadServer ==
  /\ click.pc = "sent"
  /\ click' = IF hop = Off THEN NoClick ELSE [click EXCEPT !.pc = "srv", !.srv = cur]
  /\ UNCHANGED <<cur, attached, hop, tracked, packet, shown, caoVars, serverVars, history>>

\* It translates the identifier and forwards the packet.
Interact ==
  /\ click.pc = "srv"
  /\ click' = [click EXCEPT !.pc = "hit", !.id = Swap(click.srv, click.id)]
  /\ UNCHANGED <<cur, attached, hop, tracked, packet, shown, caoVars, serverVars, history>>

\* The server receives it.
Hit ==
  /\ click.pc = "hit"
  /\ click' = NoClick
  /\ UNCHANGED <<cur, attached, hop, tracked, packet, shown, caoVars, serverVars, history>>

Next ==
  \/ \E k \in Conns : \/ \E id \in AOIDs : ReceiveObject(k, id)
                      \/ \E kind \in Kinds \ {"ao"} : \E id \in Names : ReceiveThing(k, kind, id)
                      \/ Track(k) \/ Send(k)
  \/ Detach \/ Reset \/ Connect \/ DialFails
  \/ (\E id \in AOIDs : Point(id)) \/ ReadServer \/ Interact \/ Hit

Spec == Init /\ [][Next]_vars

-----------------------------------------------------------------------------
\* The entries of a kind have identifiers of that kind, wherever they are.
Entry(kind, id) == kind \in Kinds /\ id \in Ids(kind)
Packet == [pc : {"idle", "track", "send"}, op : {None, "own", "init", "add", "del", "msg", "fade"},
           kind : Kinds \cup {None}, id : AOIDs \cup Names \cup {None},
           at : AOIDs \cup Names \cup {None}]

TypeOK ==
  /\ cur \in Conns /\ attached \in BOOLEAN /\ hop \in Idle .. Off
  /\ DOMAIN tracked = Kinds
  /\ \A kind \in Kinds : tracked[kind] \in [Ids(kind) -> 0 .. MaxKept]
  /\ packet \in [Conns -> Packet]
  /\ \A k \in Conns : packet[k].pc # "idle" => Entry(packet[k].kind, packet[k].id)
  /\ \A k \in Conns : packet[k].pc = "send" => packet[k].at \in Ids(packet[k].kind)
  /\ {playerCAO, currentCAO, own} \subseteq AOIDs \cup {0}
  /\ known \subseteq AOIDs /\ aimed \subseteq AOIDs
  /\ faded \subseteq Names /\ early \subseteq Conns
  /\ \A l \in late : Entry(l[1], l[2])

\* The handler is about to add or remove the entry.
InFlight(k, kind, id) ==
  /\ packet[k].pc = "send" /\ packet[k].op \in {"add", "del"}
  /\ packet[k].kind = kind /\ packet[k].at = id

\* After the reset of a kind the client shows nothing that came from the server
\* it leaves, unless a handler was still at a packet, the sound was faded, or
\* the server was left before the client had its player object.
NothingLeft ==
  \A kind \in Kinds : \A id \in Ids(kind) :
    LET w == shown[kind][id]
    IN  w \notin {None, Player} /\ Past(w.conn, kind) =>
          \/ <<kind, id>> \in late
          \/ InFlight(w.conn, kind, id)
          \/ kind = "sound" /\ id \in faded
          \/ w.conn \in early

(***************************************************************************)
(* A message of the current server about an object (process.go:739-743)    *)
(* reaches that object: the player object, as long as the client shows it, *)
(* or what the server has added since it sent the player object, unless an *)
(* old handler came across it.  It says nothing of the messages that come  *)
(* with the player object itself (process.go:764-773).                     *)
(***************************************************************************)
MessagesReachObject ==
  [][\A k \in Conns :
       LET p == packet[k]
       IN  p.pc = "send" /\ p.op = "msg" /\ packet'[k].pc = "idle" /\ Attached(k) /\ p.id \in aimed
           => IF p.id = own THEN \A id \in AOIDs : shown["ao"][id] = Player => id = p.at
              ELSE <<"ao", p.at>> \notin late => shown["ao"][p.at] = Origin(k, p.id)]_vars

\* An interaction is forwarded with the identifier that the server has for the
\* object the player points at, unless the client is at another server by then.
InteractionReaches ==
  [][ /\ click.pc = "srv" /\ click'.pc = "hit"
      /\ click.aim /\ click.what.conn = click.srv
      /\ Attached(click.srv) /\ OwnKnown
      => click'.id = click.what.id ]_vars
=============================================================================
