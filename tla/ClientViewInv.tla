--------------------------- MODULE ClientViewInv ---------------------------
(***************************************************************************)
(* Why the properties of ClientView hold: the inductive invariant that     *)
(* ClientViewProofs proves.                                                *)
(***************************************************************************)
EXTENDS ClientView

\* What the client shows comes from a connection that was there.
Things(kind) == {None, Player} \cup [conn : Conns, id : Ids(kind)]
ShownInv ==
  /\ DOMAIN shown = Kinds
  /\ \A kind \in Kinds : shown[kind] \in [Ids(kind) -> Things(kind)]
  /\ \A kind \in Kinds : \A id \in Ids(kind) :
       shown[kind][id] \notin {None, Player} => shown[kind][id].conn <= cur

OpsOf(kind) ==
  CASE kind = "ao" -> {"own", "init", "add", "del", "msg"}
    [] kind = "sound" -> {"add", "del", "fade"}
    [] OTHER -> {"add", "del"}
PacketInv ==
  \A k \in Conns :
    /\ k > cur => packet[k].pc = "idle"
    /\ packet[k].pc # "idle" => packet[k].op \in OpsOf(packet[k].kind)
    /\ packet[k].pc = "send" /\ packet[k].kind # "ao" => packet[k].at = packet[k].id

\* The two identifiers of the player object are set together.
HopInv ==
  /\ attached <=> hop = Idle
  /\ playerCAO = 0 <=> currentCAO = 0

\* A server that repeats an inventory does not exceed the bound.
KeptInv ==
  packet[cur].pc = "track" /\ packet[cur].op = "add" /\ packet[cur].kind = "inv"
    => tracked["inv"][packet[cur].id] < MaxKept

TypeInv == TypeOK /\ ShownInv /\ PacketInv /\ HopInv /\ KeptInv

-----------------------------------------------------------------------------
(* NothingLeft *)

Excused(kind, id) ==
  LET w == shown[kind][id]
  IN  \/ <<kind, id>> \in late
      \/ InFlight(w.conn, kind, id)
      \/ kind = "sound" /\ id \in faded
      \/ w.conn \in early

\* What is shown and not excused is from the current server and recorded, and
\* the reset of its kind is still to come.
LeftInv ==
  \A kind \in Kinds : \A id \in Ids(kind) :
    LET w == shown[kind][id]
    IN  w \notin {None, Player} =>
          \/ Excused(kind, id)
          \/ w.conn = cur /\ ~Past(cur, kind) /\ Removes(kind, id)

\* What is about to be shown is recorded.
SendInv ==
  packet[cur].pc = "send" /\ packet[cur].op = "add" => Removes(packet[cur].kind, packet[cur].at)

-----------------------------------------------------------------------------
(* MessagesReachObject and InteractionReaches *)

\* The translation when the player object of the server is known: its own inverse.
Across(id) ==
  IF id = playerCAO THEN own ELSE IF id = own THEN playerCAO ELSE id

\* What the current handler is doing to an object.
Doing(pc, op, id) == packet[cur].pc = pc /\ packet[cur].op = op /\ packet[cur].kind = "ao"
                     /\ packet[cur].id = id

\* The client shows the player object where it got it first, if at all.
PlayerInv ==
  /\ \A id \in AOIDs : shown["ao"][id] = Player => id = playerCAO
  /\ \A k \in Conns : packet[k].pc = "send" /\ packet[k].op = "own" => packet[k].at = playerCAO

OwnInv ==
  /\ own \notin known
  /\ aimed # {} => OwnKnown
  /\ \A id \in AOIDs : \A pc \in {"track", "send"} :
       /\ Doing(pc, "own", id) => id = own
       /\ Doing(pc, "del", id) => id \notin known \cup {own}
       /\ Doing(pc, "add", id) => id \in known
       /\ Doing(pc, "msg", id) => id \in known \cup {own}

AimInv ==
  attached =>
    /\ \A id \in aimed \ (known \cup {own}) : Doing("track", "del", id)
    /\ \A id \in AOIDs :
         /\ Doing("send", "own", id) => aimed \subseteq {own}
         /\ Doing("send", "msg", id) /\ id \in aimed => packet[cur].at = Across(id)
         /\ Doing("track", "add", id) => id \notin aimed
         /\ Doing("send", "add", id) =>
              (id \in aimed /\ packet[cur].at = Across(id)) \/ aimed = {}
         /\ Doing("send", "del", id) => packet[cur].at = id
    /\ \A id \in known \cap aimed :
         <<"ao", Across(id)>> \notin late /\ ~Doing("send", "add", id)
           => shown["ao"][Across(id)] = Origin(cur, id)

\* The object an aimed interaction is about, as long as the client stays.
ClickInv ==
  /\ DOMAIN click = {"pc", "id", "what", "aim", "srv"}
  /\ click.pc # "idle" => click.what.conn \in Conns /\ click.what.conn <= cur
  /\ click.pc \in {"sent", "srv"} /\ click.aim /\ click.what.conn = cur =>
       own # 0 /\ playerCAO # 0 /\ click.id = Across(click.what.id)

ViewInv == TypeInv /\ LeftInv /\ SendInv /\ PlayerInv /\ OwnInv /\ AimInv /\ ClickInv

=============================================================================
