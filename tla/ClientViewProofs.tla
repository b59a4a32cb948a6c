-------------------------- MODULE ClientViewProofs --------------------------
(***************************************************************************)
(* What holds in ClientView for every number of connections, objects and   *)
(* names: the types; what HopRaw leaves behind (NothingLeft); what the     *)
(* translation of identifiers promises (MessagesReachObject and            *)
(* InteractionReaches).  The inductive invariant is ViewInv of             *)
(* ClientViewInv.                                                          *)
(***************************************************************************)
EXTENDS ClientViewInv, TLAPS

-----------------------------------------------------------------------------
(* The types *)

\* The kinds, and their order.
LEMMA Order ==
  /\ Len(ResetOrder) = 7
  /\ Kinds = {"inv", "ao", "spawner", "sound", "hud", "param", "player"}
  /\ \A kind \in Kinds : Index(kind) \in 1 .. 7 /\ ResetOrder[Index(kind)] = kind
  /\ \A i \in 1 .. 7 : ResetOrder[i] \in Kinds /\ Index(ResetOrder[i]) = i
  /\ Clear = 8 /\ Off = 9 /\ Idle = 0
<1>1. Len(ResetOrder) = 7
  BY DEF ResetOrder
<1>2. /\ ResetOrder[1] = "inv" /\ ResetOrder[2] = "ao" /\ ResetOrder[3] = "spawner"
      /\ ResetOrder[4] = "sound" /\ ResetOrder[5] = "hud" /\ ResetOrder[6] = "param"
      /\ ResetOrder[7] = "player"
  BY DEF ResetOrder
<1>3. 1 .. 7 = {1, 2, 3, 4, 5, 6, 7}
  OBVIOUS
<1>4. Kinds = {"inv", "ao", "spawner", "sound", "hud", "param", "player"}
  BY <1>1, <1>2, <1>3 DEF Kinds
<1>5. \A kind \in Kinds : Index(kind) \in 1 .. 7 /\ ResetOrder[Index(kind)] = kind
  <2> SUFFICES ASSUME NEW kind \in Kinds
               PROVE  Index(kind) \in 1 .. 7 /\ ResetOrder[Index(kind)] = kind
    OBVIOUS
  <2>1. \E i \in 1 .. Len(ResetOrder) : ResetOrder[i] = kind
    BY DEF Kinds
  <2> QED
    BY <2>1, <1>1 DEF Index
<1>6. \A i \in 1 .. 7 : ResetOrder[i] \in Kinds
  BY <1>1 DEF Kinds
<1>7. \A i, j \in 1 .. 7 : ResetOrder[i] = ResetOrder[j] => i = j
  BY <1>2, <1>3
<1>8. \A i \in 1 .. 7 : Index(ResetOrder[i]) = i
  BY <1>5, <1>6, <1>7
<1> QED
  BY <1>1, <1>4, <1>5, <1>6, <1>8 DEF Clear, Off, Idle

\* The identifiers of objects, and of everything else.
LEMMA IdsOf ==
  /\ Ids("ao") = AOIDs
  /\ \A kind \in Kinds \ {"ao"} : Ids(kind) = Names
  /\ "ao" \in Kinds /\ "inv" \in Kinds /\ "sound" \in Kinds /\ "param" \in Kinds
  BY Order DEF Ids

\* The translation stays within the identifiers of objects.
LEMMA SwapType ==
  ASSUME TypeOK, HopInv, NEW k \in Conns, NEW id \in AOIDs
  PROVE  Swap(k, id) \in AOIDs
  BY ViewAssumption DEF TypeOK, HopInv, Swap

\* The initial state.
LEMMA InitType == Init => TypeInv
<1> SUFFICES ASSUME Init PROVE TypeInv
  OBVIOUS
<1> USE DEF Init
<1>1. cur \in Conns /\ \A k \in Conns : packet[k] = NoPacket
  BY ViewAssumption DEF Conns
<1>2. DOMAIN tracked = Kinds /\ \A kind \in Kinds : tracked[kind] \in [Ids(kind) -> 0 .. MaxKept]
  BY ViewAssumption DEF Untracked
<1>3. packet \in [Conns -> Packet]
  BY DEF Packet, NoPacket
<1>4. hop \in Idle .. Off
  BY Order
<1>5. TypeOK
  BY <1>1, <1>2, <1>3, <1>4 DEF TypeOK, NoPacket
<1>6. ShownInv
  BY DEF ShownInv, Nowhere, Things
<1>7. PacketInv /\ HopInv /\ KeptInv
  BY <1>1 DEF PacketInv, HopInv, KeptInv, NoPacket
<1> QED
  BY <1>5, <1>6, <1>7 DEF TypeInv

\* A packet arrives at the current connection.
LEMMA ReceiveType ==
  ASSUME TypeInv, NEW k \in Conns, NEW kind \in Kinds, NEW id \in Ids(kind), NEW op \in OpsOf(kind),
         Receive(k, op, kind, id),
         known' \subseteq AOIDs, own' \in AOIDs \cup {0},
         op = "add" /\ kind = "inv" => tracked["inv"][id] < MaxKept
  PROVE  TypeInv'
<1> DEFINE p == [pc |-> "track", op |-> op, kind |-> kind, id |-> id, at |-> None]
<1> USE DEF TypeInv
<1>1. /\ UNCHANGED <<cur, attached, hop, tracked, shown, playerCAO, currentCAO, click, aimed, faded,
                     late, early>>
      /\ packet' = [packet EXCEPT ![k] = p] /\ k = cur /\ attached
  BY DEF Receive, caoVars, history, Attached
<1>2. op \in {"own", "init", "add", "del", "msg", "fade"}
  BY DEF OpsOf
<1>3. p \in Packet
  BY <1>2, IdsOf DEF Packet
<1>4. DOMAIN packet = Conns
  BY DEF TypeOK
<1>5. packet'[k] = p /\ \A j \in Conns \ {k} : packet'[j] = packet[j]
  BY <1>1, <1>4
<1>6. packet' \in [Conns -> Packet]
  BY <1>1, <1>3 DEF TypeOK
<1>7. TypeOK'
  <2>1. \A j \in Conns : packet'[j].pc # "idle" => Entry(packet'[j].kind, packet'[j].id)
    BY <1>5 DEF TypeOK, Entry
  <2>2. \A j \in Conns : packet'[j].pc = "send" => packet'[j].at \in Ids(packet'[j].kind)
    BY <1>5 DEF TypeOK
  <2> QED
    BY <1>1, <1>6, <2>1, <2>2 DEF TypeOK
<1>8. ShownInv' /\ HopInv'
  BY <1>1 DEF ShownInv, HopInv
<1>9. PacketInv'
  BY <1>1, <1>5, ViewAssumption DEF PacketInv, TypeOK, Conns
<1>10. KeptInv'
  BY <1>1, <1>5 DEF KeptInv
<1> QED
  BY <1>7, <1>8, <1>9, <1>10

\* A packet of an object arrives.
LEMMA ReceiveObjectIs ==
  ASSUME TypeInv, NEW k \in Conns, NEW id \in AOIDs, ReceiveObject(k, id)
  PROVE  TypeInv'
<1>1. \A op \in {"own", "add", "del", "msg"} : op \in OpsOf("ao")
  BY DEF OpsOf
<1>2. known' \subseteq AOIDs /\ own' \in AOIDs \cup {0}
  BY DEF ReceiveObject, serverVars, TypeInv, TypeOK
<1>3. PICK op \in {"own", "add", "del", "msg"} : Receive(k, op, "ao", id)
  BY DEF ReceiveObject
<1> QED
  BY <1>1, <1>2, <1>3, IdsOf, ReceiveType

\* A packet of anything else arrives.
LEMMA ReceiveThingIs ==
  ASSUME TypeInv, NEW k \in Conns, NEW kind \in Kinds \ {"ao"}, NEW id \in Names,
         ReceiveThing(k, kind, id)
  PROVE  TypeInv'
<1>1. UNCHANGED <<known, own>>
  BY DEF ReceiveThing, serverVars
<1>2. known' \subseteq AOIDs /\ own' \in AOIDs \cup {0} /\ id \in Ids(kind)
  BY <1>1, IdsOf DEF TypeInv, TypeOK
<1>3. /\ "add" \in OpsOf(kind) /\ "del" \in OpsOf(kind)
      /\ kind = "sound" => "fade" \in OpsOf(kind)
  BY DEF OpsOf
<1>4. CASE tracked[kind][id] < MaxKept /\ Receive(k, "add", kind, id)
  BY <1>2, <1>3, <1>4, ReceiveType
<1>5. CASE Receive(k, "del", kind, id)
  BY <1>2, <1>3, <1>5, ReceiveType
<1>6. CASE kind = "sound" /\ Receive(k, "fade", kind, id)
  BY <1>2, <1>3, <1>6, ReceiveType
<1> QED
  BY <1>4, <1>5, <1>6 DEF ReceiveThing

\* What happens to the packet of a handler that has recorded it.
Tracks(k) ==
  /\ packet[k].pc = "track"
  /\ \/ packet[k].op = "own" /\ TrackOwn(k, packet[k].id)
     \/ packet[k].kind = "ao" /\ packet[k].op = "add" /\ TrackAdd(k, packet[k].id)
     \/ packet[k].kind = "ao" /\ packet[k].op = "del" /\ TrackRemove(k, packet[k].id)
     \/ packet[k].op = "msg" /\ TrackMessage(k, packet[k].id)
     \/ packet[k].kind # "ao" /\ TrackThing(k, packet[k].op, packet[k].kind, packet[k].id)

\* What the handler reads of its packet when it records it.
LEMMA TrackIs ==
  ASSUME TypeInv, NEW k \in Conns, Track(k)
  PROVE  /\ UNCHANGED <<cur, attached, hop, shown, known, own, click, late, early>>
         /\ packet[k].pc = "track" /\ k <= cur
         /\ packet[k].kind \in Kinds /\ packet[k].id \in Ids(packet[k].kind)
         /\ packet[k].op \in OpsOf(packet[k].kind)
         /\ \/ /\ packet[k].op = "own" /\ packet[k].kind = "ao"
               /\ TrackOwn(k, packet[k].id) /\ packet[k].id \in AOIDs
            \/ /\ packet[k].op = "add" /\ packet[k].kind = "ao"
               /\ TrackAdd(k, packet[k].id) /\ packet[k].id \in AOIDs
            \/ /\ packet[k].op = "del" /\ packet[k].kind = "ao"
               /\ TrackRemove(k, packet[k].id) /\ packet[k].id \in AOIDs
            \/ /\ packet[k].op = "msg" /\ packet[k].kind = "ao"
               /\ TrackMessage(k, packet[k].id) /\ packet[k].id \in AOIDs
            \/ /\ packet[k].op \in {"add", "del", "fade"} /\ packet[k].kind # "ao"
               /\ packet[k].op = "fade" => packet[k].kind = "sound"
               /\ TrackThing(k, packet[k].op, packet[k].kind, packet[k].id)
         /\ DOMAIN packet = Conns
<1> USE DEF TypeInv
<1>1. /\ UNCHANGED <<cur, attached, hop, shown, known, own, click, late, early>>
      /\ packet[k].pc = "track" /\ Tracks(k)
  BY DEF Track, Tracks, serverVars
<1>2. k <= cur
  BY <1>1 DEF PacketInv, TypeOK, Conns
<1>3. packet[k].kind \in Kinds /\ packet[k].id \in Ids(packet[k].kind) /\ DOMAIN packet = Conns
  BY <1>1 DEF TypeOK, Entry
<1>4. packet[k].op \in OpsOf(packet[k].kind)
  BY <1>1 DEF PacketInv
<1>5. packet[k].op \in {"own", "msg"} => packet[k].kind = "ao"
  BY <1>3, <1>4 DEF OpsOf
<1>6. packet[k].kind # "ao" => /\ packet[k].op \in {"add", "del", "fade"}
                               /\ packet[k].op = "fade" => packet[k].kind = "sound"
  BY <1>4 DEF OpsOf
<1>7. packet[k].kind = "ao" => packet[k].id \in AOIDs
  BY <1>3, IdsOf
<1> QED
  BY <1>1, <1>2, <1>3, <1>4, <1>5, <1>6, <1>7 DEF Tracks

\* What the record, the packets and the identifiers become.
LEMMA TrackEffect ==
  ASSUME TypeInv, NEW k \in Conns, Track(k)
  PROVE  /\ \A j \in Conns \ {k} : packet'[j] = packet[j]
         /\ packet'[k].pc = "send"
         /\ packet'[k].op = packet[k].op \/ (packet[k].op = "own" /\ packet'[k].op = "init")
         /\ packet'[k].kind = packet[k].kind /\ packet'[k].id = packet[k].id
         /\ packet'[k].at \in Ids(packet[k].kind)
         /\ packet[k].kind # "ao" => packet'[k].at = packet[k].id
         /\ packet' \in [Conns -> Packet]
         /\ {playerCAO', currentCAO'} \subseteq AOIDs \cup {0}
         /\ playerCAO' = 0 <=> currentCAO' = 0
         /\ aimed' \subseteq AOIDs /\ faded' \subseteq Names
         /\ faded \subseteq faded'
<1> USE DEF TypeInv
<1> DEFINE p == packet[k]
<1>1. /\ p \in Packet /\ p.pc = "track" /\ DOMAIN packet = Conns
      /\ p.kind \in Kinds /\ p.id \in Ids(p.kind)
      /\ {playerCAO, currentCAO} \subseteq AOIDs \cup {0} /\ (playerCAO = 0 <=> currentCAO = 0)
      /\ aimed \subseteq AOIDs /\ faded \subseteq Names
  BY TrackIs DEF TypeOK, HopInv
<1>2. ASSUME NEW q \in Packet, packet' = [packet EXCEPT ![k] = q]
      PROVE  /\ \A j \in Conns \ {k} : packet'[j] = packet[j]
             /\ packet'[k] = q
             /\ packet' \in [Conns -> Packet]
  BY <1>1, <1>2 DEF TypeOK
<1>4. ASSUME NEW at \in Ids(p.kind), ToSend(k, at)
      PROVE  /\ \A j \in Conns \ {k} : packet'[j] = packet[j]
             /\ packet'[k].pc = "send" /\ packet'[k].op = p.op
             /\ packet'[k].kind = p.kind /\ packet'[k].id = p.id /\ packet'[k].at = at
             /\ packet' \in [Conns -> Packet]
  <2>1. at \in AOIDs \cup Names \cup {None}
    BY <1>1, IdsOf
  <2>2. packet' = [packet EXCEPT ![k] = [p EXCEPT !.pc = "send", !.at = at]]
    BY <1>4 DEF ToSend
  <2>3. [p EXCEPT !.pc = "send", !.at = at] \in Packet
    BY <1>1, <2>1 DEF Packet
  <2>4. packet'[k] = [p EXCEPT !.pc = "send", !.at = at] /\ \A j \in Conns \ {k} : packet'[j] = packet[j]
    BY <2>2, <1>1
  <2>5. packet' \in [Conns -> Packet]
    BY <2>2, <2>3 DEF TypeOK
  <2> QED
    BY <2>4, <2>5, <1>1 DEF Packet
<1>5. CASE p.kind = "ao" /\ p.op = "own" /\ TrackOwn(k, p.id) /\ p.id \in AOIDs
  <2>1. /\ currentCAO' = p.id /\ currentCAO' # 0 /\ UNCHANGED faded
        /\ aimed' \subseteq aimed \cup {p.id}
    BY <1>5, ViewAssumption DEF TrackOwn
  <2>2. CASE hasPlayerCAO
    <3> DEFINE q == [p EXCEPT !.pc = "send", !.op = "init", !.at = p.id]
    <3>1. playerCAO' = playerCAO /\ playerCAO # 0 /\ packet' = [packet EXCEPT ![k] = q]
      BY <1>5, <2>2 DEF TrackOwn, hasPlayerCAO
    <3>2. /\ q \in Packet /\ q.pc = "send" /\ q.op = "init" /\ q.kind = p.kind
          /\ q.id = p.id /\ q.at = p.id
      BY <1>1, <1>5 DEF Packet
    <3>3. p.op = "own"
      BY <1>5
    <3> HIDE DEF q
    <3>4. packet'[k] = q /\ \A j \in Conns \ {k} : packet'[j] = packet[j]
      BY <1>2, <3>1, <3>2
    <3>5. packet' \in [Conns -> Packet]
      BY <1>2, <3>1, <3>2
    <3> QED
      BY <1>1, <1>5, <2>1, <3>1, <3>2, <3>3, <3>4, <3>5
  <2>3. CASE ~hasPlayerCAO
    <3>1. playerCAO' = p.id /\ ToSend(k, p.id)
      BY <1>5, <2>3 DEF TrackOwn
    <3> QED
      BY <1>1, <1>4, <1>5, <2>1, <3>1
  <2> QED
    BY <2>2, <2>3
<1>6. CASE p.kind = "ao" /\ TrackAdd(k, p.id) /\ p.id \in AOIDs
  <2>1. /\ ToSend(k, Swap(k, p.id)) /\ UNCHANGED <<playerCAO, currentCAO, faded>>
        /\ aimed' \subseteq AOIDs
    BY <1>1, <1>6 DEF TrackAdd, caoVars, Aim
  <2>2. Swap(k, p.id) \in Ids(p.kind)
    BY <1>6, SwapType, IdsOf
  <2> QED
    BY <1>1, <1>4, <1>6, <2>1, <2>2
<1>7. CASE p.kind = "ao" /\ TrackRemove(k, p.id) /\ p.id \in AOIDs
  <2>1. /\ ToSend(k, p.id) /\ UNCHANGED <<playerCAO, currentCAO, faded>>
        /\ aimed' \subseteq AOIDs
    BY <1>1, <1>7 DEF TrackRemove, caoVars
  <2> QED
    BY <1>1, <1>4, <1>7, <2>1
<1>8. CASE p.kind # "ao" /\ TrackThing(k, p.op, p.kind, p.id)
  <2>1. /\ ToSend(k, p.id) /\ UNCHANGED <<playerCAO, currentCAO, aimed>>
        /\ faded \subseteq faded' /\ faded' \subseteq faded \cup {p.id} /\ p.id \in Names
    BY <1>1, <1>8, IdsOf DEF TrackThing, caoVars
  <2> QED
    BY <1>1, <1>4, <1>8, <2>1
<1>9. CASE p.kind = "ao" /\ TrackMessage(k, p.id) /\ p.id \in AOIDs
  <2>1. ToSend(k, Swap(k, p.id)) /\ UNCHANGED <<playerCAO, currentCAO, aimed, faded>>
    BY <1>9 DEF TrackMessage, caoVars
  <2>2. Swap(k, p.id) \in Ids(p.kind)
    BY <1>9, SwapType, IdsOf
  <2> QED
    BY <1>1, <1>4, <1>9, <2>1, <2>2
<1> QED
  BY <1>5, <1>6, <1>7, <1>8, <1>9, TrackIs

\* What recording an identifier changes.
LEMMA RecordEffect ==
  ASSUME TypeOK, NEW k, NEW kind \in Kinds, NEW id \in Ids(kind), NEW n, Record(k, kind, id, n),
         k = cur => n \in 0 .. MaxKept
  PROVE  /\ DOMAIN tracked' = Kinds
         /\ \A kd \in Kinds : tracked'[kd] \in [Ids(kd) -> 0 .. MaxKept]
         /\ k = cur => tracked'[kind][id] = n
         /\ \A kd \in Kinds : \A i \in Ids(kd) :
              ~(k = cur /\ kd = kind /\ i = id) => tracked'[kd][i] = tracked[kd][i]
<1>1. DOMAIN tracked = Kinds /\ \A kd \in Kinds : tracked[kd] \in [Ids(kd) -> 0 .. MaxKept]
  BY DEF TypeOK
<1>2. CASE k # cur
  BY <1>1, <1>2 DEF Record
<1>3. CASE k = cur
  <2>1. tracked' = [tracked EXCEPT ![kind] = [tracked[kind] EXCEPT ![id] = n]]
    BY <1>3 DEF Record
  <2>2. [tracked[kind] EXCEPT ![id] = n] \in [Ids(kind) -> 0 .. MaxKept]
    BY <1>1, <1>3
  <2>3. /\ DOMAIN tracked' = Kinds
        /\ tracked'[kind] = [tracked[kind] EXCEPT ![id] = n]
        /\ \A kd \in Kinds \ {kind} : tracked'[kd] = tracked[kd]
    BY <2>1, <1>1
  <2>4. \A kd \in Kinds : tracked'[kd] \in [Ids(kd) -> 0 .. MaxKept]
    BY <1>1, <2>2, <2>3
  <2>5. tracked'[kind][id] = n /\ \A i \in Ids(kind) \ {id} : tracked'[kind][i] = tracked[kind][i]
    BY <1>1, <2>3
  <2> QED
    BY <1>3, <2>3, <2>4, <2>5
<1> QED
  BY <1>2, <1>3

\* A count stays within its bounds.
LEMMA CountType ==
  ASSUME NEW op \in {"add", "del", "fade"}, NEW kind, NEW n \in 0 .. MaxKept,
         op = "add" /\ kind = "inv" => n < MaxKept
  PROVE  Count(op, kind, n) \in 0 .. MaxKept
<1>1. MaxKept \in Nat \ {0}
  BY ViewAssumption
<1>2. CASE kind # "param" /\ op = "add"
  <2>1. Count(op, kind, n) = IF kind = "inv" THEN n + 1 ELSE 1
    BY <1>2 DEF Count
  <2> QED
    BY <1>1, <1>2, <2>1
<1>3. CASE kind # "param" /\ op = "del"
  <2>1. Count(op, kind, n) = IF kind = "inv" /\ n > 0 THEN n - 1 ELSE 0
    BY <1>3 DEF Count
  <2> QED
    BY <1>1, <2>1
<1>4. CASE kind = "param" \/ op = "fade"
  BY <1>1, <1>4 DEF Count
<1> QED
  BY <1>2, <1>3, <1>4

\* How a packet changes the record: an addition is recorded, by the current
\* connection only, and whatever is no addition may be forgotten.
LEMMA TrackRecords ==
  ASSUME TypeInv, NEW k \in Conns, Track(k)
  PROVE  /\ DOMAIN tracked' = Kinds
         /\ \A kd \in Kinds : tracked'[kd] \in [Ids(kd) -> 0 .. MaxKept]
         /\ k # cur => \A kd \in Kinds : \A i \in Ids(kd) : tracked'[kd][i] = tracked[kd][i]
         /\ \A kd \in Kinds : \A i \in Ids(kd) :
              ~(kd = packet[k].kind /\ i = packet'[k].at) => tracked'[kd][i] = tracked[kd][i]
         /\ k = cur /\ packet[k].op = "add" /\ packet[k].kind # "param"
              => tracked'[packet[k].kind][packet'[k].at] > 0
         /\ packet[k].op = "fade" => packet'[k].at \in faded'
         /\ packet[k].op \in {"own", "msg"} => tracked' = tracked
<1> USE DEF TypeInv
<1> DEFINE p == packet[k]
<1>0. /\ DOMAIN tracked = Kinds /\ \A kd \in Kinds : tracked[kd] \in [Ids(kd) -> 0 .. MaxKept]
      /\ 1 \in 0 .. MaxKept /\ 0 \in 0 .. MaxKept
      /\ p \in Packet /\ DOMAIN packet = Conns
  BY ViewAssumption DEF TypeOK
<1>1. ASSUME NEW at, ToSend(k, at) PROVE packet'[k].pc = "send" /\ packet'[k].at = at
  BY <1>0, <1>1 DEF ToSend, Packet
<1>2. CASE p.op = "own" /\ p.kind = "ao" /\ TrackOwn(k, p.id)
  BY <1>0, <1>2 DEF TrackOwn
<1>3. CASE p.op = "add" /\ p.kind = "ao" /\ TrackAdd(k, p.id) /\ p.id \in AOIDs
  <2>1. packet'[k].pc = "send" /\ packet'[k].at = Swap(k, p.id) /\ Swap(k, p.id) \in Ids("ao")
    BY <1>1, <1>3, SwapType, IdsOf DEF TrackAdd
  <2>2. Record(k, "ao", Swap(k, p.id), 1) /\ "ao" \in Kinds
    BY <1>3, IdsOf DEF TrackAdd
  <2>3. /\ DOMAIN tracked' = Kinds
        /\ \A kd \in Kinds : tracked'[kd] \in [Ids(kd) -> 0 .. MaxKept]
        /\ k = cur => tracked'["ao"][Swap(k, p.id)] = 1
        /\ \A kd \in Kinds : \A i \in Ids(kd) :
             ~(k = cur /\ kd = "ao" /\ i = Swap(k, p.id)) => tracked'[kd][i] = tracked[kd][i]
    BY <1>0, <2>1, <2>2, RecordEffect
  <2> QED
    BY <1>3, <2>1, <2>3
<1>4. CASE p.op = "del" /\ p.kind = "ao" /\ TrackRemove(k, p.id) /\ p.id \in AOIDs
  <2>1. packet'[k].pc = "send" /\ packet'[k].at = p.id /\ p.id \in Ids("ao")
    BY <1>1, <1>4, IdsOf DEF TrackRemove
  <2>2. Record(k, "ao", p.id, 0) /\ "ao" \in Kinds
    BY <1>4, IdsOf DEF TrackRemove
  <2>3. /\ DOMAIN tracked' = Kinds
        /\ \A kd \in Kinds : tracked'[kd] \in [Ids(kd) -> 0 .. MaxKept]
        /\ \A kd \in Kinds : \A i \in Ids(kd) :
             ~(k = cur /\ kd = "ao" /\ i = p.id) => tracked'[kd][i] = tracked[kd][i]
    BY <1>0, <2>1, <2>2, RecordEffect
  <2> QED
    BY <1>4, <2>1, <2>3
<1>5. CASE /\ p.op \in {"add", "del", "fade"} /\ p.kind # "ao"
           /\ TrackThing(k, p.op, p.kind, p.id)
  <2> DEFINE n == tracked[p.kind][p.id]
             m == Count(p.op, p.kind, n)
  <2>1. /\ packet'[k].pc = "send" /\ packet'[k].at = p.id
        /\ p.kind \in Kinds /\ p.id \in Ids(p.kind) /\ p.pc = "track"
        /\ n \in 0 .. MaxKept
    BY <1>0, <1>1, <1>5, TrackIs DEF TrackThing
  <2>2. k = cur => m \in 0 .. MaxKept
    <3> SUFFICES ASSUME k = cur PROVE m \in 0 .. MaxKept
      OBVIOUS
    <3>1. p.op = "add" /\ p.kind = "inv" => n < MaxKept
      BY <2>1 DEF KeptInv
    <3> QED
      BY <1>5, <2>1, <3>1, CountType
  <2>3. p.op = "add" /\ p.kind # "param" => m > 0
    BY <1>5, <2>1 DEF Count
  <2>4. /\ DOMAIN tracked' = Kinds
        /\ \A kd \in Kinds : tracked'[kd] \in [Ids(kd) -> 0 .. MaxKept]
        /\ k = cur => tracked'[p.kind][p.id] = m
        /\ \A kd \in Kinds : \A i \in Ids(kd) :
             ~(k = cur /\ kd = p.kind /\ i = p.id) => tracked'[kd][i] = tracked[kd][i]
    <3>1. Record(k, p.kind, p.id, m)
      BY <1>5 DEF TrackThing
    <3> HIDE DEF m, p
    <3> QED
      BY <2>1, <2>2, <3>1, RecordEffect
  <2>5. p.op = "fade" => p.id \in faded'
    BY <1>5 DEF TrackThing
  <2> QED
    BY <1>5, <2>1, <2>3, <2>4, <2>5
<1>6. CASE p.op = "msg" /\ TrackMessage(k, p.id)
  BY <1>0, <1>6 DEF TrackMessage
<1> QED
  BY <1>2, <1>3, <1>4, <1>5, <1>6, TrackIs

\* The handler records what its packet does.
LEMMA TrackType ==
  ASSUME TypeInv, NEW k \in Conns, Track(k)
  PROVE  TypeInv'
<1> USE DEF TypeInv
<1>1. /\ UNCHANGED <<cur, attached, hop, shown, known, own, click, late, early>>
      /\ packet[k].pc = "track" /\ k <= cur
      /\ packet[k].kind \in Kinds /\ packet[k].id \in Ids(packet[k].kind)
      /\ packet[k].op \in OpsOf(packet[k].kind)
      /\ packet[k].op = "own" => packet[k].kind = "ao"
  BY TrackIs
<1>2. /\ \A j \in Conns \ {k} : packet'[j] = packet[j]
      /\ packet'[k].pc = "send"
      /\ packet'[k].op = packet[k].op \/ (packet[k].op = "own" /\ packet'[k].op = "init")
      /\ packet'[k].kind = packet[k].kind /\ packet'[k].id = packet[k].id
      /\ packet'[k].at \in Ids(packet[k].kind)
      /\ packet[k].kind # "ao" => packet'[k].at = packet[k].id
      /\ packet' \in [Conns -> Packet]
      /\ {playerCAO', currentCAO'} \subseteq AOIDs \cup {0}
      /\ playerCAO' = 0 <=> currentCAO' = 0
      /\ aimed' \subseteq AOIDs /\ faded' \subseteq Names
  BY TrackEffect
<1>3. /\ DOMAIN tracked' = Kinds
      /\ \A kd \in Kinds : tracked'[kd] \in [Ids(kd) -> 0 .. MaxKept]
      /\ k # cur => \A kd \in Kinds : \A i \in Ids(kd) : tracked'[kd][i] = tracked[kd][i]
  BY TrackRecords
<1>4. TypeOK'
  <2>1. \A j \in Conns : packet'[j].pc # "idle" => Entry(packet'[j].kind, packet'[j].id)
    BY <1>1, <1>2 DEF TypeOK, Entry
  <2>2. \A j \in Conns : packet'[j].pc = "send" => packet'[j].at \in Ids(packet'[j].kind)
    BY <1>2 DEF TypeOK
  <2> QED
    BY <1>1, <1>2, <1>3, <2>1, <2>2 DEF TypeOK
<1>5. ShownInv' /\ HopInv'
  BY <1>1, <1>2 DEF ShownInv, HopInv
<1>6. PacketInv'
  <2>1. packet'[k].op \in OpsOf(packet'[k].kind)
    BY <1>1, <1>2 DEF OpsOf
  <2> QED
    BY <1>1, <1>2, <2>1 DEF PacketInv, TypeOK, Conns
<1>7. KeptInv'
  <2>1. CASE k = cur
    BY <2>1, <1>1, <1>2 DEF KeptInv
  <2>2. CASE k # cur
    <3>1. cur \in Conns /\ packet'[cur] = packet[cur]
      BY <2>2, <1>2 DEF TypeOK
    <3>2. packet[cur].pc = "track" /\ packet[cur].kind = "inv" => packet[cur].id \in Ids("inv") /\ "inv" \in Kinds
      BY <3>1 DEF TypeOK, Entry
    <3> QED
      BY <2>2, <3>1, <3>2, <1>1, <1>3 DEF KeptInv
  <2> QED
    BY <2>1, <2>2
<1> QED
  BY <1>4, <1>5, <1>6, <1>7

\* What a handler's packet changes at the client.
LEMMA SendEffect ==
  ASSUME TypeInv, NEW k \in Conns, Send(k)
  PROVE  /\ UNCHANGED <<cur, attached, hop, tracked, playerCAO, currentCAO, known, own, click, aimed,
                        early>>
         /\ packet[k].pc = "send" /\ k <= cur
         /\ packet[k].kind \in Kinds /\ packet[k].at \in Ids(packet[k].kind)
         /\ packet[k].op \in OpsOf(packet[k].kind) /\ packet[k].op \in {"own", "add", "del"} \cup Keeping
         /\ packet[k].id \in Ids(packet[k].kind)
         /\ packet'[k] = NoPacket /\ \A j \in Conns \ {k} : packet'[j] = packet[j]
         /\ packet' \in [Conns -> Packet]
         /\ DOMAIN shown' = Kinds
         /\ \A kind \in Kinds : shown'[kind] \in [Ids(kind) -> Things(kind)]
         /\ shown'[packet[k].kind][packet[k].at] = Result(k, packet[k])
         /\ \A kind \in Kinds : \A id \in Ids(kind) :
              ~(kind = packet[k].kind /\ id = packet[k].at) => shown'[kind][id] = shown[kind][id]
<1> USE DEF TypeInv
<1> DEFINE p == packet[k]
<1>1. /\ UNCHANGED <<cur, attached, hop, tracked, playerCAO, currentCAO, known, own, click, aimed, early>>
      /\ p.pc = "send" /\ Dropped(k)
      /\ shown' = [shown EXCEPT ![p.kind][p.at] = Result(k, p)]
  BY DEF Send, serverVars, caoVars
<1>2. /\ DOMAIN packet = Conns /\ p.kind \in Kinds /\ p.id \in Ids(p.kind) /\ p.at \in Ids(p.kind)
      /\ packet \in [Conns -> Packet] /\ p.op \in OpsOf(p.kind) /\ k <= cur
  BY <1>1 DEF TypeOK, Entry, PacketInv, Conns
<1>3. p.op \in {"own", "add", "del"} \cup Keeping
  BY <1>2 DEF OpsOf, Keeping
<1>4. NoPacket \in Packet
  BY DEF NoPacket, Packet
<1>5. packet'[k] = NoPacket /\ (\A j \in Conns \ {k} : packet'[j] = packet[j]) /\ packet' \in [Conns -> Packet]
  BY <1>1, <1>2, <1>4 DEF Dropped
<1>6. Result(k, p) \in Things(p.kind)
  <2>1. shown[p.kind][p.at] \in Things(p.kind)
    BY <1>2 DEF ShownInv
  <2>2. Origin(k, p.id) \in Things(p.kind)
    BY <1>2 DEF Origin, Things
  <2> QED
    BY <1>3, <2>1, <2>2 DEF Result, Things, Keeping
<1>7. DOMAIN shown = Kinds /\ \A kind \in Kinds : shown[kind] \in [Ids(kind) -> Things(kind)]
  BY DEF ShownInv
<1>8. shown' = [shown EXCEPT ![p.kind] = [shown[p.kind] EXCEPT ![p.at] = Result(k, p)]]
  BY <1>1
<1> HIDE DEF p
<1>9. /\ DOMAIN shown' = Kinds
      /\ shown'[p.kind] = [shown[p.kind] EXCEPT ![p.at] = Result(k, p)]
      /\ \A kind \in Kinds \ {p.kind} : shown'[kind] = shown[kind]
  BY <1>8, <1>7, <1>2
<1>10. /\ shown'[p.kind][p.at] = Result(k, p)
       /\ \A id \in Ids(p.kind) \ {p.at} : shown'[p.kind][id] = shown[p.kind][id]
       /\ shown'[p.kind] \in [Ids(p.kind) -> Things(p.kind)]
  BY <1>9, <1>7, <1>6, <1>2
<1> QED
  BY <1>1, <1>2, <1>3, <1>5, <1>7, <1>9, <1>10 DEF p

\* The handler sends its packet on.
LEMMA SendType ==
  ASSUME TypeInv, NEW k \in Conns, Send(k)
  PROVE  TypeInv'
<1> USE DEF TypeInv
<1> DEFINE p == packet[k]
<1>1. /\ UNCHANGED <<cur, attached, hop, tracked, playerCAO, currentCAO, known, own, click, aimed, early>>
      /\ p.pc = "send" /\ k <= cur
      /\ p.kind \in Kinds /\ p.at \in Ids(p.kind)
      /\ p.op \in OpsOf(p.kind) /\ p.op \in {"own", "add", "del"} \cup Keeping
      /\ p.id \in Ids(p.kind)
      /\ packet'[k] = NoPacket /\ \A j \in Conns \ {k} : packet'[j] = packet[j]
      /\ packet' \in [Conns -> Packet]
      /\ DOMAIN shown' = Kinds
      /\ \A kind \in Kinds : shown'[kind] \in [Ids(kind) -> Things(kind)]
      /\ shown'[p.kind][p.at] = Result(k, p)
      /\ \A kind \in Kinds : \A id \in Ids(kind) :
           ~(kind = p.kind /\ id = p.at) => shown'[kind][id] = shown[kind][id]
  BY SendEffect
<1>2. faded' \subseteq Names
  BY DEF Send, TypeOK
<1>3. \A l \in late' : Entry(l[1], l[2])
  <2>1. late' \subseteq late \cup {<<p.kind, p.at>>}
    BY DEF Send
  <2> QED
    BY <2>1, <1>1 DEF TypeOK, Entry
<1>4. TypeOK'
  <2>1. \A j \in Conns : packet'[j].pc # "idle" => Entry(packet'[j].kind, packet'[j].id)
    BY <1>1 DEF TypeOK, Entry, NoPacket
  <2>2. \A j \in Conns : packet'[j].pc = "send" => packet'[j].at \in Ids(packet'[j].kind)
    BY <1>1 DEF TypeOK, NoPacket
  <2> QED
    BY <1>1, <1>2, <1>3, <2>1, <2>2 DEF TypeOK
<1>5. ShownInv'
  <2> SUFFICES ASSUME NEW kind \in Kinds, NEW id \in Ids(kind), shown'[kind][id] \notin {None, Player}
               PROVE  shown'[kind][id].conn <= cur
    BY <1>1 DEF ShownInv
  <2>1. CASE shown'[kind][id] = shown[kind][id]
    BY <2>1 DEF ShownInv
  <2>2. CASE kind = p.kind /\ id = p.at
    BY <1>1, <2>2 DEF Result, Origin, ShownInv, Keeping
  <2> QED
    BY <1>1, <2>1, <2>2
<1>6. PacketInv' /\ HopInv'
  BY <1>1 DEF PacketInv, HopInv, NoPacket
<1>7. KeptInv'
  BY <1>1 DEF KeptInv, NoPacket, TypeOK
<1> QED
  BY <1>4, <1>5, <1>6, <1>7

\* The server is left.
LEMMA DetachType ==
  ASSUME TypeInv, Detach
  PROVE  TypeInv'
<1> USE DEF TypeInv
<1>1. /\ UNCHANGED <<cur, tracked, packet, shown, playerCAO, currentCAO, known, own, click, aimed, faded, late>>
      /\ hop = Idle /\ attached' = FALSE /\ hop' \in {1, Clear} /\ early' \subseteq early \cup {cur}
  BY DEF Detach, caoVars, serverVars
<1>2. hop' \in Idle .. Off /\ hop' # Idle
  BY <1>1, Order
<1> QED
  BY <1>1, <1>2 DEF TypeOK, ShownInv, PacketInv, HopInv, KeptInv

\* A loop of the reset.
LEMMA ResetEffect ==
  ASSUME TypeInv, Reset
  PROVE  /\ UNCHANGED <<cur, attached, tracked, packet, playerCAO, currentCAO, known, own, click, aimed,
                        faded, early>>
         /\ hop \in 1 .. 7 /\ hop' = hop + 1 /\ ResetOrder[hop] \in Kinds
         /\ DOMAIN shown' = Kinds
         /\ \A kind \in Kinds : \A id \in Ids(kind) :
              shown'[kind][id] = IF kind = ResetOrder[hop] /\ Removes(kind, id) THEN None
                                 ELSE shown[kind][id]
         /\ \A kind \in Kinds : shown'[kind] \in [Ids(kind) -> Things(kind)]
         /\ late' = {l \in late : l[1] # ResetOrder[hop] \/ ~Removes(ResetOrder[hop], l[2])}
<1> DEFINE k == ResetOrder[hop]
<1>1. /\ UNCHANGED <<cur, attached, tracked, packet, playerCAO, currentCAO, known, own, click, aimed,
                     faded, early>>
      /\ hop \in 1 .. 7 /\ hop' = hop + 1 /\ k \in Kinds
      /\ shown' = [shown EXCEPT ![k] = [id \in Ids(k) |-> IF Removes(k, id) THEN None ELSE shown[k][id]]]
      /\ late' = {l \in late : l[1] # k \/ ~Removes(k, l[2])}
  BY Order DEF Reset, caoVars, serverVars
<1>2. DOMAIN shown = Kinds /\ \A kind \in Kinds : shown[kind] \in [Ids(kind) -> Things(kind)]
  BY DEF TypeInv, ShownInv
<1> HIDE DEF k
<1>3. /\ DOMAIN shown' = Kinds
      /\ shown'[k] = [id \in Ids(k) |-> IF Removes(k, id) THEN None ELSE shown[k][id]]
      /\ \A kind \in Kinds \ {k} : shown'[kind] = shown[kind]
  BY <1>1, <1>2
<1>4. \A id \in Ids(k) : shown'[k][id] = IF Removes(k, id) THEN None ELSE shown[k][id]
  BY <1>3
<1>5. shown'[k] \in [Ids(k) -> Things(k)]
  <2>1. \A id \in Ids(k) : (IF Removes(k, id) THEN None ELSE shown[k][id]) \in Things(k)
    BY <1>1, <1>2 DEF Things
  <2> QED
    BY <1>3, <2>1
<1> QED
  BY <1>1, <1>2, <1>3, <1>4, <1>5 DEF k

\* A loop of the reset keeps the types.
LEMMA ResetType ==
  ASSUME TypeInv, Reset
  PROVE  TypeInv'
<1> USE DEF TypeInv
<1>1. /\ UNCHANGED <<cur, attached, tracked, packet, playerCAO, currentCAO, known, own, click, aimed,
                     faded, early>>
      /\ hop \in 1 .. 7 /\ hop' = hop + 1
      /\ DOMAIN shown' = Kinds
      /\ \A kind \in Kinds : \A id \in Ids(kind) : shown'[kind][id] \in {None, shown[kind][id]}
      /\ \A kind \in Kinds : shown'[kind] \in [Ids(kind) -> Things(kind)]
      /\ late' \subseteq late
  BY ResetEffect
<1>2. hop' \in Idle .. Off /\ hop' # Idle /\ hop # Idle
  BY <1>1, Order
<1>3. TypeOK'
  BY <1>1, <1>2 DEF TypeOK
<1>4. ShownInv'
  BY <1>1 DEF ShownInv
<1> QED
  BY <1>1, <1>2, <1>3, <1>4 DEF PacketInv, HopInv, KeptInv

\* The next server.
LEMMA ConnectType ==
  ASSUME TypeInv, Connect
  PROVE  TypeInv'
<1> USE DEF TypeInv
<1>1. /\ UNCHANGED <<packet, shown, playerCAO, currentCAO, click, faded, late, early>>
      /\ cur' = cur + 1 /\ cur < MaxConns /\ attached' = TRUE /\ hop' = Idle
      /\ tracked' = Untracked /\ known' = {} /\ own' = 0 /\ aimed' = {}
  BY DEF Connect, caoVars
<1>2. cur' \in Conns /\ cur < cur' /\ cur \in Nat
  BY <1>1, ViewAssumption DEF TypeOK, Conns
<1>3. packet[cur'].pc = "idle"
  BY <1>2 DEF PacketInv
<1>4. DOMAIN tracked' = Kinds /\ \A kind \in Kinds : tracked'[kind] \in [Ids(kind) -> 0 .. MaxKept]
  BY <1>1, ViewAssumption DEF Untracked
<1>5. TypeOK'
  BY <1>1, <1>2, <1>4, Order DEF TypeOK
<1>6. ShownInv'
  <2> SUFFICES ASSUME NEW kind \in Kinds, NEW id \in Ids(kind), shown[kind][id] \notin {None, Player}
               PROVE  shown[kind][id].conn <= cur'
    BY <1>1 DEF ShownInv
  <2>1. shown[kind][id].conn <= cur /\ shown[kind][id].conn \in Conns
    BY DEF ShownInv, Things
  <2> QED
    BY <2>1, <1>2 DEF Conns
<1>7. PacketInv'
  <2>1. \A k \in Conns : k > cur' => k > cur
    BY <1>2 DEF Conns
  <2> QED
    BY <1>1, <2>1 DEF PacketInv
<1> QED
  BY <1>1, <1>3, <1>5, <1>6, <1>7 DEF HopInv, KeptInv

\* The other steps: the hop gives up, and the interactions of the player.
LEMMA OtherType ==
  ASSUME TypeInv, UNCHANGED <<cur, attached, tracked, packet, shown, caoVars, serverVars, history>>,
         hop' = hop \/ (hop = Clear /\ hop' = Off)
  PROVE  TypeInv'
<1> USE DEF TypeInv, caoVars, serverVars, history
<1>1. hop' \in Idle .. Off /\ (hop' = Idle <=> hop = Idle)
  BY Order DEF TypeOK
<1> QED
  BY <1>1 DEF TypeOK, ShownInv, PacketInv, HopInv, KeptInv

\* What the other steps leave alone.
LEMMA OtherIs ==
  ASSUME DialFails \/ (\E id \in AOIDs : Point(id)) \/ ReadServer \/ Interact \/ Hit \/ UNCHANGED vars
  PROVE  /\ UNCHANGED <<cur, attached, tracked, packet, shown, caoVars, serverVars, history>>
         /\ hop' = hop \/ (hop = Clear /\ hop' = Off)
  BY DEF DialFails, Point, ReadServer, Interact, Hit, vars

\* Every step preserves the types.
LEMMA TypeNext == TypeInv /\ [Next]_vars => TypeInv'
<1> SUFFICES ASSUME TypeInv, [Next]_vars PROVE TypeInv'
  OBVIOUS
<1>1. CASE \E k \in Conns : \E id \in AOIDs : ReceiveObject(k, id)
  BY <1>1, ReceiveObjectIs
<1>2. CASE \E k \in Conns : \E kind \in Kinds \ {"ao"} : \E id \in Names : ReceiveThing(k, kind, id)
  BY <1>2, ReceiveThingIs
<1>3. CASE \E k \in Conns : Track(k)
  BY <1>3, TrackType
<1>4. CASE \E k \in Conns : Send(k)
  BY <1>4, SendType
<1>5. CASE Detach
  BY <1>5, DetachType
<1>6. CASE Reset
  BY <1>6, ResetType
<1>7. CASE Connect
  BY <1>7, ConnectType
<1>8. CASE DialFails \/ (\E id \in AOIDs : Point(id)) \/ ReadServer \/ Interact \/ Hit \/ UNCHANGED vars
  BY <1>8, OtherIs, OtherType
<1> QED
  BY <1>1, <1>2, <1>3, <1>4, <1>5, <1>6, <1>7, <1>8 DEF Next

\* The types: the record of a connection, the packets of its handler and the
\* identifiers of the player object stay within their sets, and a server that
\* repeats a detached inventory (server_conn.go, process.go) stays within its bound.
THEOREM TypesHold == Spec => []TypeOK
<1>1. Spec => []TypeInv
  BY InitType, TypeNext, PTL DEF Spec
<1>2. TypeInv => TypeOK
  BY DEF TypeInv
<1> QED
  BY <1>1, <1>2, PTL

-----------------------------------------------------------------------------
(* NothingLeft *)

\* The arrival of a packet.
LEMMA ReceiveEffect ==
  ASSUME TypeInv, NEW k \in Conns,
         \/ \E id \in AOIDs : ReceiveObject(k, id)
         \/ \E kind \in Kinds \ {"ao"} : \E id \in Names : ReceiveThing(k, kind, id)
  PROVE  /\ UNCHANGED <<cur, attached, hop, tracked, shown, playerCAO, currentCAO, click, aimed, faded,
                        late, early>>
         /\ k = cur /\ attached /\ packet[k].pc = "idle" /\ packet'[k].pc = "track"
         /\ \A j \in Conns \ {k} : packet'[j] = packet[j]
<1>1. PICK op, kind, id : Receive(k, op, kind, id)
  BY DEF ReceiveObject, ReceiveThing
<1>2. DOMAIN packet = Conns
  BY DEF TypeInv, TypeOK
<1> QED
  BY <1>1, <1>2 DEF Receive, Attached, caoVars, history

\* A step that sends nothing and shows nothing, and at which the reset does not get on.
LEMMA QuietLeft ==
  ASSUME TypeInv, LeftInv, SendInv,
         UNCHANGED <<cur, tracked, shown, faded, late, early>>,
         hop' = hop \/ (hop = Clear /\ hop' = Off),
         \A j \in Conns : packet'[j] = packet[j]
                          \/ (packet[j].pc # "send" /\ packet'[j].pc # "send")
  PROVE  LeftInv' /\ SendInv'
<1> USE DEF TypeInv
<1>1. \A kind \in Kinds : hop' > Index(kind) <=> hop > Index(kind)
  BY Order
<1>2. ASSUME NEW kind \in Kinds, NEW id \in Ids(kind), shown[kind][id] \notin {None, Player},
             InFlight(shown[kind][id].conn, kind, id)
      PROVE  InFlight(shown[kind][id].conn, kind, id)'
  <2>1. shown[kind][id].conn \in Conns
    BY <1>2 DEF ShownInv, Things
  <2> QED
    BY <1>2, <2>1 DEF InFlight
<1>3. LeftInv'
  <2> SUFFICES ASSUME NEW kind \in Kinds, NEW id \in Ids(kind), shown'[kind][id] \notin {None, Player}
               PROVE  \/ Excused(kind, id)'
                      \/ /\ shown'[kind][id].conn = cur'
                         /\ ~Past(cur, kind)' /\ Removes(kind, id)'
    BY DEF LeftInv
  <2>1. CASE Excused(kind, id)
    BY <1>2, <2>1 DEF Excused
  <2>2. CASE shown[kind][id].conn = cur /\ ~Past(cur, kind) /\ Removes(kind, id)
    BY <1>1, <2>2 DEF Past, Removes
  <2> QED
    BY <2>1, <2>2 DEF LeftInv
<1>4. SendInv'
  BY DEF SendInv, Removes, TypeOK
<1> QED
  BY <1>3, <1>4

\* What is recorded stays so, or the handler is at a packet about it.
LEMMA TrackLeft ==
  ASSUME TypeInv, LeftInv, SendInv, NEW k \in Conns, Track(k)
  PROVE  LeftInv' /\ SendInv'
<1> USE DEF TypeInv
<1> DEFINE p == packet[k]
           Same == \A kd \in Kinds : \A i \in Ids(kd) : tracked'[kd][i] = tracked[kd][i]
<1>1. /\ UNCHANGED <<cur, hop, shown, late, early>> /\ p.pc = "track" /\ p.kind \in Kinds
      /\ \A j \in Conns \ {k} : packet'[j] = packet[j]
      /\ faded \subseteq faded' /\ cur \in Conns
      /\ packet'[k].pc = "send"
      /\ packet'[k].op = p.op \/ (p.op = "own" /\ packet'[k].op = "init")
      /\ packet'[k].kind = p.kind /\ packet'[k].at \in Ids(p.kind)
  BY TrackIs, TrackEffect DEF TypeOK
<1>2. /\ k # cur => Same
      /\ \A kd \in Kinds : \A i \in Ids(kd) :
           ~(kd = p.kind /\ i = packet'[k].at) => tracked'[kd][i] = tracked[kd][i]
      /\ k = cur /\ p.op = "add" /\ p.kind # "param" => tracked'[p.kind][packet'[k].at] > 0
      /\ p.op = "fade" => packet'[k].at \in faded' /\ p.kind = "sound"
      /\ p.op \in {"own", "msg"} => tracked' = tracked
      /\ p.op \in {"own", "msg", "add", "del", "fade"}
  BY TrackIs, TrackRecords
<1>3. LeftInv'
  <2> SUFFICES ASSUME NEW kind \in Kinds, NEW id \in Ids(kind), shown[kind][id] \notin {None, Player}
               PROVE  \/ Excused(kind, id)'
                      \/ /\ shown'[kind][id].conn = cur'
                         /\ ~Past(cur, kind)' /\ Removes(kind, id)'
    BY <1>1 DEF LeftInv
  <2> DEFINE w == shown[kind][id]
  <2>0. w.conn \in Conns
    BY DEF ShownInv, Things
  <2>1. CASE Excused(kind, id)
    <3>1. InFlight(w.conn, kind, id) => w.conn # k
      BY <1>1 DEF InFlight
    <3> QED
      BY <1>1, <2>0, <2>1, <3>1 DEF Excused, InFlight
  <2>2. CASE w.conn = cur /\ ~Past(cur, kind) /\ Removes(kind, id)
    <3>1. ~Past(cur, kind)' /\ w.conn = cur'
      BY <1>1, <2>2 DEF Past
    <3>2. CASE tracked'[kind][id] = tracked[kind][id]
      BY <2>2, <3>1, <3>2, <1>1 DEF Removes
    <3>3. CASE k = cur /\ kind = p.kind /\ id = packet'[k].at
      <4>1. packet'[cur].kind = kind /\ packet'[cur].at = id /\ packet'[cur].pc = "send"
        BY <1>1, <3>3
      <4>2. CASE p.op \in {"add", "del"}
        <5>1. InFlight(cur, kind, id)'
          BY <1>1, <3>3, <4>1, <4>2 DEF InFlight
        <5> QED
          BY <2>2, <5>1, <1>1 DEF Excused, InFlight
      <4>3. CASE p.op = "fade"
        BY <1>2, <3>3, <4>3 DEF Excused
      <4>4. CASE p.op \in {"own", "msg"}
        BY <1>2, <2>2, <3>1, <4>4, <1>1 DEF Removes
      <4> QED
        BY <1>2, <4>2, <4>3, <4>4
    <3> QED
      BY <1>1, <1>2, <3>2, <3>3
  <2> QED
    BY <2>1, <2>2 DEF LeftInv
<1>4. ASSUME packet'[cur].pc = "send", packet'[cur].op = "add"
      PROVE  Removes(packet[cur].kind, packet[cur].at)'
  <2>1. CASE k = cur
    BY <1>1, <1>2, <1>4, <2>1 DEF Removes
  <2>2. CASE k # cur
    <3>1. packet'[cur] = packet[cur]
      BY <1>1, <2>2
    <3>2. packet[cur].kind \in Kinds /\ packet[cur].at \in Ids(packet[cur].kind)
      BY <1>1, <1>4, <3>1 DEF TypeOK, Entry
    <3> QED
      BY <1>1, <1>2, <1>4, <2>2, <3>1, <3>2 DEF SendInv, Removes
  <2> QED
    BY <2>1, <2>2
<1>5. SendInv'
  BY <1>4, <1>1 DEF SendInv
<1> QED
  BY <1>3, <1>5

\* What a handler shows is recorded, or the reset of its kind is over and it is late.
LEMMA SendLeft ==
  ASSUME TypeInv, LeftInv, SendInv, NEW k \in Conns, Send(k)
  PROVE  LeftInv' /\ SendInv'
<1> USE DEF TypeInv
<1> DEFINE p == packet[k]
<1>1. /\ UNCHANGED <<cur, hop, tracked, early>>
      /\ p.pc = "send" /\ k <= cur /\ p.kind \in Kinds /\ p.at \in Ids(p.kind)
      /\ p.op \in OpsOf(p.kind) /\ p.op \in {"own", "add", "del"} \cup Keeping
      /\ packet'[k] = NoPacket /\ \A j \in Conns \ {k} : packet'[j] = packet[j]
      /\ shown'[p.kind][p.at] = Result(k, p)
      /\ \A kind \in Kinds : \A id \in Ids(kind) :
           ~(kind = p.kind /\ id = p.at) => shown'[kind][id] = shown[kind][id]
      /\ cur \in Conns
  BY SendEffect DEF TypeOK
<1>2. /\ late' = IF p.op \in Keeping THEN late
                 ELSE IF Past(k, p.kind) THEN late \cup {<<p.kind, p.at>>}
                 ELSE late \ {<<p.kind, p.at>>}
      /\ faded' = IF p.kind = "sound" /\ p.op # "fade" THEN faded \ {p.at} ELSE faded
  BY DEF Send
<1>3. p.op \in Keeping /\ p.kind = "sound" => p.op = "fade"
  BY <1>1 DEF OpsOf, Keeping
<1>4. LeftInv'
  <2> SUFFICES ASSUME NEW kind \in Kinds, NEW id \in Ids(kind), shown'[kind][id] \notin {None, Player}
               PROVE  \/ Excused(kind, id)'
                      \/ /\ shown'[kind][id].conn = cur'
                         /\ ~Past(cur, kind)' /\ Removes(kind, id)'
    BY DEF LeftInv
  <2> DEFINE w == shown[kind][id]
  <2>1. CASE ~(kind = p.kind /\ id = p.at)
    <3>1. shown'[kind][id] = w /\ w \notin {None, Player} /\ w.conn \in Conns
      BY <1>1, <2>1 DEF ShownInv, Things
    <3>2. /\ <<kind, id>> \in late => <<kind, id>> \in late'
          /\ kind = "sound" /\ id \in faded => id \in faded'
      BY <1>2, <2>1
    <3>3. InFlight(w.conn, kind, id) => w.conn # k
      BY <2>1 DEF InFlight
    <3>4. CASE Excused(kind, id)
      BY <1>1, <3>1, <3>2, <3>3, <3>4 DEF Excused, InFlight
    <3>5. CASE w.conn = cur /\ ~Past(cur, kind) /\ Removes(kind, id)
      BY <1>1, <3>1, <3>5 DEF Past, Removes
    <3> QED
      BY <3>1, <3>4, <3>5 DEF LeftInv
  <2>2. CASE kind = p.kind /\ id = p.at /\ p.op = "add"
    <3>1. shown'[kind][id].conn = k
      BY <1>1, <2>2 DEF Result, Origin, Keeping
    <3>2. CASE Past(k, p.kind)
      BY <1>2, <2>2, <3>2 DEF Excused, Keeping
    <3>3. CASE ~Past(k, p.kind)
      <4>1. k = cur
        BY <1>1, <3>3 DEF Past, Conns
      <4>2. Removes(kind, id)
        BY <1>1, <2>2, <4>1 DEF SendInv
      <4> QED
        BY <1>1, <2>2, <3>1, <3>3, <4>1, <4>2 DEF Past, Removes
    <3> QED
      BY <3>2, <3>3
  <2>3. CASE kind = p.kind /\ id = p.at /\ p.op \in {"own", "del"}
    BY <1>1, <2>3 DEF Result, Keeping
  <2>4. CASE kind = p.kind /\ id = p.at /\ p.op \in Keeping
    <3>1. /\ shown'[kind][id] = w /\ w \notin {None, Player} /\ w.conn \in Conns
          /\ late' = late /\ faded' = faded
      BY <1>1, <1>2, <1>3, <2>4 DEF Result, ShownInv, Things, Keeping
    <3>2. CASE Excused(kind, id)
      <4>1. InFlight(w.conn, kind, id) => w.conn # k
        BY <2>4 DEF InFlight, Keeping
      <4> QED
        BY <1>1, <3>1, <3>2, <4>1 DEF Excused, InFlight
    <3>3. CASE w.conn = cur /\ ~Past(cur, kind) /\ Removes(kind, id)
      BY <1>1, <3>1, <3>3 DEF Past, Removes
    <3> QED
      BY <3>1, <3>2, <3>3 DEF LeftInv
  <2> QED
    BY <1>1, <2>1, <2>2, <2>3, <2>4
<1>5. ASSUME packet'[cur].pc = "send", packet'[cur].op = "add"
      PROVE  Removes(packet[cur].kind, packet[cur].at)'
  BY <1>1, <1>5 DEF SendInv, Removes, NoPacket
<1>6. SendInv'
  BY <1>1, <1>5 DEF SendInv
<1> QED
  BY <1>4, <1>6

\* The hop begins: it resets what is recorded, or leaves without a reset.
LEMMA DetachLeft ==
  ASSUME TypeInv, LeftInv, SendInv, Detach
  PROVE  LeftInv' /\ SendInv'
<1>1. /\ UNCHANGED <<cur, tracked, packet, shown, faded, late>>
      /\ (hop' = 1 /\ early' = early) \/ (early' = early \cup {cur})
  BY DEF Detach, caoVars, serverVars
<1>2. LeftInv'
  <2> SUFFICES ASSUME NEW kind \in Kinds, NEW id \in Ids(kind), shown[kind][id] \notin {None, Player}
               PROVE  \/ Excused(kind, id)'
                      \/ /\ shown'[kind][id].conn = cur'
                         /\ ~Past(cur, kind)' /\ Removes(kind, id)'
    BY <1>1 DEF LeftInv
  <2>1. CASE Excused(kind, id)
    BY <1>1, <2>1 DEF Excused, InFlight
  <2>2. CASE shown[kind][id].conn = cur /\ ~Past(cur, kind) /\ Removes(kind, id)
    <3>1. CASE hop' = 1
      <4>1. ~(hop' > Index(kind)) /\ ~(cur < cur)
        BY <2>2, <3>1, Order DEF Past
      <4> QED
        BY <1>1, <2>2, <4>1 DEF Past, Removes
    <3>2. CASE early' = early \cup {cur}
      BY <1>1, <2>2, <3>2 DEF Excused
    <3> QED
      BY <1>1, <3>1, <3>2
  <2> QED
    BY <2>1, <2>2 DEF LeftInv
<1> QED
  BY <1>1, <1>2 DEF SendInv, Removes

\* A loop removes what is recorded of its kind.
LEMMA ResetLeft ==
  ASSUME TypeInv, LeftInv, SendInv, Reset
  PROVE  LeftInv' /\ SendInv'
<1> DEFINE r == ResetOrder[hop]
<1>1. /\ UNCHANGED <<cur, tracked, packet, faded, early>>
      /\ hop \in 1 .. 7 /\ hop' = hop + 1
      /\ \A kind \in Kinds : \A id \in Ids(kind) :
           shown'[kind][id] = IF kind = r /\ Removes(kind, id) THEN None ELSE shown[kind][id]
      /\ late' = {l \in late : l[1] # r \/ ~Removes(r, l[2])}
  BY ResetEffect
<1>2. LeftInv'
  <2> SUFFICES ASSUME NEW kind \in Kinds, NEW id \in Ids(kind), shown'[kind][id] \notin {None, Player}
               PROVE  \/ Excused(kind, id)'
                      \/ /\ shown'[kind][id].conn = cur'
                         /\ ~Past(cur, kind)' /\ Removes(kind, id)'
    BY DEF LeftInv
  <2>1. shown'[kind][id] = shown[kind][id] /\ ~(kind = r /\ Removes(kind, id))
    BY <1>1
  <2>2. CASE Excused(kind, id)
    <3>1. <<kind, id>> \in late => <<kind, id>> \in late'
      BY <1>1, <2>1
    <3> QED
      BY <1>1, <2>1, <2>2, <3>1 DEF Excused, InFlight
  <2>3. CASE shown[kind][id].conn = cur /\ ~Past(cur, kind) /\ Removes(kind, id)
    <3>1. Index(kind) # hop /\ Index(kind) \in 1 .. 7
      BY <2>1, <2>3, Order
    <3>2. ~(hop' > Index(kind))
      BY <1>1, <2>3, <3>1 DEF Past
    <3> QED
      BY <1>1, <2>1, <2>3, <3>2 DEF Past, Removes
  <2> QED
    BY <2>1, <2>2, <2>3 DEF LeftInv
<1>3. SendInv'
  BY <1>1 DEF SendInv, Removes
<1> QED
  BY <1>2, <1>3

\* After the last loop everything that is left is excused.
LEMMA ConnectLeft ==
  ASSUME TypeInv, LeftInv, SendInv, Connect
  PROVE  LeftInv' /\ SendInv'
<1>1. /\ UNCHANGED <<packet, shown, faded, late, early>> /\ hop = Clear
      /\ cur' = cur + 1 /\ cur < MaxConns /\ cur \in Conns
  BY DEF Connect, caoVars, TypeInv, TypeOK
<1>2. cur' \in Conns /\ cur' > cur
  BY <1>1, ViewAssumption DEF Conns
<1>3. packet'[cur'].pc = "idle"
  BY <1>1, <1>2 DEF TypeInv, PacketInv
<1>4. LeftInv'
  <2> SUFFICES ASSUME NEW kind \in Kinds, NEW id \in Ids(kind), shown[kind][id] \notin {None, Player}
               PROVE  Excused(kind, id)'
    BY <1>1 DEF LeftInv
  <2>1. Past(cur, kind)
    BY <1>1, Order DEF Past
  <2>2. Excused(kind, id)
    BY <2>1 DEF LeftInv
  <2> QED
    BY <1>1, <2>2 DEF Excused, InFlight
<1>5. SendInv'
  BY <1>1, <1>3 DEF SendInv
<1> QED
  BY <1>4, <1>5

\* Nothing is shown yet.
LEMMA LeftInit == Init => LeftInv /\ SendInv
<1> SUFFICES ASSUME Init PROVE LeftInv /\ SendInv
  OBVIOUS
<1>1. \A kind \in Kinds : \A id \in Ids(kind) : shown[kind][id] = None
  BY DEF Init, Nowhere
<1>2. cur \in Conns /\ \A k \in Conns : packet[k] = NoPacket
  BY ViewAssumption DEF Init, Conns
<1> QED
  BY <1>1, <1>2 DEF LeftInv, SendInv, NoPacket

\* Every step preserves what keeps anything from being left.
LEMMA LeftNext == TypeInv /\ LeftInv /\ SendInv /\ [Next]_vars => LeftInv' /\ SendInv'
<1> SUFFICES ASSUME TypeInv, LeftInv, SendInv, [Next]_vars PROVE LeftInv' /\ SendInv'
  OBVIOUS
<1>1. CASE \E k \in Conns :
             \/ \E id \in AOIDs : ReceiveObject(k, id)
             \/ \E kind \in Kinds \ {"ao"} : \E id \in Names : ReceiveThing(k, kind, id)
  <2>1. PICK k \in Conns :
             \/ \E id \in AOIDs : ReceiveObject(k, id)
             \/ \E kind \in Kinds \ {"ao"} : \E id \in Names : ReceiveThing(k, kind, id)
    BY <1>1
  <2>2. /\ UNCHANGED <<cur, hop, tracked, shown, faded, late, early>>
        /\ packet[k].pc = "idle" /\ packet'[k].pc = "track"
        /\ \A j \in Conns \ {k} : packet'[j] = packet[j]
    BY <2>1, ReceiveEffect
  <2> QED
    BY <2>2, QuietLeft
<1>2. CASE \E k \in Conns : Track(k)
  BY <1>2, TrackLeft
<1>3. CASE \E k \in Conns : Send(k)
  BY <1>3, SendLeft
<1>4. CASE Detach
  BY <1>4, DetachLeft
<1>5. CASE Reset
  BY <1>5, ResetLeft
<1>6. CASE Connect
  BY <1>6, ConnectLeft
<1>7. CASE DialFails \/ (\E id \in AOIDs : Point(id)) \/ ReadServer \/ Interact \/ Hit \/ UNCHANGED vars
  <2>1. /\ UNCHANGED <<cur, tracked, packet, shown, faded, late, early>>
        /\ hop' = hop \/ (hop = Clear /\ hop' = Off)
    BY <1>7, OtherIs DEF history
  <2> QED
    BY <2>1, QuietLeft
<1> QED
  BY <1>1, <1>2, <1>3, <1>4, <1>5, <1>6, <1>7 DEF Next

\* HopRaw (hop.go) removes what ServerConn.process (process.go) has recorded: once
\* the loop of a kind is over the client shows nothing of the server it leaves,
\* except what a handler sent too late or is about to send, sounds that were
\* faded, and what came before the client had its player object.
THEOREM NothingIsLeft == Spec => []NothingLeft
<1>1. Spec => [](TypeInv /\ LeftInv /\ SendInv)
  BY InitType, TypeNext, LeftInit, LeftNext, PTL DEF Spec
<1>2. LeftInv => NothingLeft
  <2> SUFFICES ASSUME LeftInv, NEW kind \in Kinds, NEW id \in Ids(kind),
                      shown[kind][id] \notin {None, Player}, Past(shown[kind][id].conn, kind)
               PROVE  Excused(kind, id)
    BY DEF NothingLeft, Excused
  <2> QED
    BY DEF LeftInv
<1> QED
  BY <1>1, <1>2, PTL

-----------------------------------------------------------------------------
(* MessagesReachObject and InteractionReaches *)

\* The translation undoes itself.
LEMMA AcrossTwice == \A id : Across(Across(id)) = id
  BY DEF Across

\* The proxy's translation is this one as soon as it knows the player object of
\* the server.
LEMMA SwapIsAcross ==
  ASSUME TypeInv, attached, OwnKnown
  PROVE  /\ \A id : Swap(cur, id) = Across(id)
         /\ playerCAO # 0
<1>1. playerCAO # 0 /\ currentCAO = own
  BY DEF TypeInv, HopInv, OwnKnown
<1> QED
  BY <1>1 DEF Swap, Attached, Across

\* No object is added with the player object known before the client has one.
LEMMA AimedHas ==
  ASSUME TypeInv, OwnInv, aimed # {}
  PROVE  own # 0 /\ playerCAO # 0 /\ currentCAO = own
  BY DEF TypeInv, HopInv, OwnInv, OwnKnown

\* A packet of an object arrives.
LEMMA ObjectOwn ==
  ASSUME TypeInv, OwnInv, AimInv, ClickInv, NEW k \in Conns, NEW id \in AOIDs, ReceiveObject(k, id)
  PROVE  OwnInv' /\ AimInv' /\ ClickInv'
<1> DEFINE Is(op) == /\ packet'[cur].pc = "track" /\ packet'[cur].op = op
                     /\ packet'[cur].kind = "ao" /\ packet'[cur].id = id
<1>1. /\ UNCHANGED <<cur, attached, hop, shown, playerCAO, currentCAO, click, aimed, late>>
      /\ k = cur /\ attached /\ packet[cur].pc = "idle" /\ cur \in Conns
  BY ReceiveEffect DEF TypeInv, TypeOK
<1>2. ASSUME NEW op, Receive(k, op, "ao", id) PROVE Is(op)
  BY <1>1, <1>2 DEF Receive, TypeInv, TypeOK
<1>3. aimed \subseteq known \cup {own}
  BY <1>1 DEF AimInv, Doing
<1>4. \A x \in known \cap aimed : <<"ao", Across(x)>> \notin late => shown["ao"][Across(x)] = Origin(cur, x)
  BY <1>1 DEF AimInv, Doing
<1>5. CASE own = 0 /\ id \notin known /\ own' = id /\ known' = known /\ Receive(k, "own", "ao", id)
  <2>1. aimed = {} /\ Is("own")
    BY <1>2, <1>5 DEF OwnInv, OwnKnown
  <2>2. OwnInv'
    BY <1>1, <1>5, <2>1 DEF OwnInv, Doing
  <2>3. AimInv'
    BY <1>1, <2>1 DEF AimInv, Doing
  <2>4. ClickInv'
    BY <1>1, <1>5 DEF ClickInv
  <2> QED
    BY <2>2, <2>3, <2>4
<1>6. CASE /\ id \notin known \cup {own} /\ known' = known \cup {id} /\ own' = own
           /\ Receive(k, "add", "ao", id)
  <2>1. Is("add")
    BY <1>2, <1>6
  <2>2. OwnInv'
    BY <1>1, <1>6, <2>1 DEF OwnInv, OwnKnown, Doing
  <2>3. \A x : Across(x)' = Across(x)
    BY <1>1, <1>6 DEF Across
  <2>4. AimInv'
    BY <1>1, <1>3, <1>4, <1>6, <2>1, <2>3 DEF AimInv, Doing
  <2>5. ClickInv'
    BY <1>1, <1>6 DEF ClickInv, Across
  <2> QED
    BY <2>2, <2>4, <2>5
<1>7. CASE id \in known /\ known' = known \ {id} /\ own' = own /\ Receive(k, "del", "ao", id)
  <2>1. Is("del")
    BY <1>2, <1>7
  <2>2. OwnInv'
    BY <1>1, <1>7, <2>1 DEF OwnInv, OwnKnown, Doing
  <2>3. \A x : Across(x)' = Across(x)
    BY <1>1, <1>7 DEF Across
  <2>4. AimInv'
    BY <1>1, <1>3, <1>4, <1>7, <2>1, <2>3 DEF AimInv, Doing
  <2>5. ClickInv'
    BY <1>1, <1>7 DEF ClickInv, Across
  <2> QED
    BY <2>2, <2>4, <2>5
<1>8. CASE id \in known \cup {own} /\ UNCHANGED <<known, own>> /\ Receive(k, "msg", "ao", id)
  <2>1. Is("msg")
    BY <1>2, <1>8
  <2>2. OwnInv'
    BY <1>1, <1>8, <2>1 DEF OwnInv, OwnKnown, Doing
  <2>3. \A x : Across(x)' = Across(x)
    BY <1>1, <1>8 DEF Across
  <2>4. AimInv'
    BY <1>1, <1>3, <1>4, <1>8, <2>1, <2>3 DEF AimInv, Doing
  <2>5. ClickInv'
    BY <1>1, <1>8 DEF ClickInv, Across
  <2> QED
    BY <2>2, <2>4, <2>5
<1> QED
  BY <1>5, <1>6, <1>7, <1>8 DEF ReceiveObject, serverVars

\* A packet of anything else arrives.
LEMMA ThingOwn ==
  ASSUME TypeInv, OwnInv, AimInv, ClickInv, NEW k \in Conns, NEW kind \in Kinds \ {"ao"},
         NEW id \in Names, ReceiveThing(k, kind, id)
  PROVE  OwnInv' /\ AimInv' /\ ClickInv'
<1>1. /\ UNCHANGED <<cur, attached, hop, shown, playerCAO, currentCAO, click, aimed, late, own, known>>
      /\ k = cur /\ packet[cur].pc = "idle" /\ cur \in Conns
  BY ReceiveEffect DEF TypeInv, TypeOK, ReceiveThing, serverVars
<1>2. packet'[cur].kind # "ao"
  <2>1. PICK op : Receive(k, op, kind, id)
    BY DEF ReceiveThing
  <2> QED
    BY <1>1, <2>1 DEF Receive, TypeInv, TypeOK
<1>3. \A x : Across(x)' = Across(x)
  BY <1>1 DEF Across
<1> QED
  BY <1>1, <1>2, <1>3 DEF OwnInv, OwnKnown, AimInv, ClickInv, Doing

\* A step of another handler, or of the current one at a packet of no object: it
\* leaves the objects the server knows and the player object alone.
LEMMA QuietOwn ==
  ASSUME TypeInv, OwnInv, AimInv, ClickInv,
         UNCHANGED <<cur, own, known, click>>,
         \/ packet'[cur] = packet[cur]
         \/ packet[cur].kind # "ao" /\ packet'[cur].kind # "ao",
         \/ aimed' = {}
         \/ UNCHANGED <<aimed, playerCAO, currentCAO>>,
         playerCAO # 0 => playerCAO' = playerCAO,
         attached' => attached,
         \A id \in known : <<"ao", Across(id)>> \notin late' =>
           <<"ao", Across(id)>> \notin late /\ shown'["ao"][Across(id)] = shown["ao"][Across(id)]
  PROVE  OwnInv' /\ AimInv' /\ ClickInv'
<1>1. \A pc, op, x : Doing(pc, op, x)' <=> Doing(pc, op, x)
  BY DEF Doing
<1>2. OwnInv'
  BY <1>1 DEF OwnInv, OwnKnown
<1>3. playerCAO' = playerCAO => \A x : Across(x)' = Across(x)
  BY DEF Across
<1>4. ASSUME aimed' = {} PROVE AimInv'
  <2>1. /\ \A id \in AOIDs : Doing("send", "del", id) /\ attached => packet[cur].at = id
    BY DEF AimInv
  <2>2. \A id \in AOIDs : Doing("send", "del", id) /\ attached => packet'[cur].at = id
    BY <2>1 DEF Doing
  <2> QED
    BY <1>1, <1>4, <2>2 DEF AimInv
<1>5. ASSUME UNCHANGED <<aimed, playerCAO, currentCAO>> PROVE AimInv'
  <2>1. \A x : Across(x)' = Across(x)
    BY <1>3, <1>5
  <2>2. \A op \in {"add", "del", "msg"} : \A x : Doing("send", op, x) => packet'[cur].at = packet[cur].at
    BY DEF Doing
  <2>3. SUFFICES ASSUME attached PROVE AimInv'
    BY DEF AimInv
  <2>4. \A id \in aimed \ (known \cup {own}) : Doing("track", "del", id)'
    BY <1>1, <2>3 DEF AimInv
  <2>5. \A id \in AOIDs :
         /\ Doing("send", "own", id)' => aimed \subseteq {own}
         /\ Doing("send", "msg", id)' /\ id \in aimed => packet'[cur].at = Across(id)
         /\ Doing("track", "add", id)' => id \notin aimed
         /\ Doing("send", "add", id)' =>
              (id \in aimed /\ packet'[cur].at = Across(id)) \/ aimed = {}
         /\ Doing("send", "del", id)' => packet'[cur].at = id
    BY <1>1, <2>2, <2>3 DEF AimInv
  <2>6. \A id \in known \cap aimed :
         <<"ao", Across(id)>> \notin late' /\ ~Doing("send", "add", id)'
           => shown'["ao"][Across(id)] = Origin(cur, id)
    BY <1>1, <2>3 DEF AimInv
  <2> QED
    BY <1>5, <2>1, <2>4, <2>5, <2>6 DEF AimInv
<1>6. ClickInv'
  <2>1. playerCAO = 0 \/ \A x : Across(x)' = Across(x)
    BY <1>3
  <2> QED
    BY <2>1 DEF ClickInv
<1> QED
  BY <1>2, <1>4, <1>5, <1>6

\* The handler records what its packet does.
LEMMA TrackOwnInv ==
  ASSUME TypeInv, OwnInv, AimInv, ClickInv, NEW k \in Conns, Track(k)
  PROVE  OwnInv' /\ AimInv' /\ ClickInv'
<1> DEFINE p == packet[k]
<1>1. /\ UNCHANGED <<cur, attached, hop, shown, known, own, click, late, early>>
      /\ p.pc = "track" /\ cur \in Conns /\ packet \in [Conns -> Packet]
      /\ \/ p.op = "own" /\ p.kind = "ao" /\ TrackOwn(k, p.id) /\ p.id \in AOIDs
         \/ p.op = "add" /\ p.kind = "ao" /\ TrackAdd(k, p.id) /\ p.id \in AOIDs
         \/ p.op = "del" /\ p.kind = "ao" /\ TrackRemove(k, p.id) /\ p.id \in AOIDs
         \/ p.op = "msg" /\ p.kind = "ao" /\ TrackMessage(k, p.id) /\ p.id \in AOIDs
         \/ p.kind # "ao" /\ TrackThing(k, p.op, p.kind, p.id)
  BY TrackIs DEF TypeInv, TypeOK
<1>2. /\ \A j \in Conns \ {k} : packet'[j] = packet[j]
      /\ packet'[k].pc = "send"
      /\ packet'[k].op = p.op \/ (p.op = "own" /\ packet'[k].op = "init")
      /\ packet'[k].kind = p.kind /\ packet'[k].id = p.id
  BY TrackEffect
<1>3. playerCAO # 0 => playerCAO' = playerCAO
  BY <1>1 DEF TrackOwn, TrackAdd, TrackRemove, TrackMessage, TrackThing, caoVars, hasPlayerCAO
<1>4. aimed # {} => own # 0 /\ playerCAO # 0 /\ currentCAO = own
  BY AimedHas
<1>5. CASE k # cur
  <2>1. packet'[cur] = packet[cur] /\ ~Attached(k)
    BY <1>1, <1>2, <1>5 DEF Attached
  <2>2. aimed' = {} \/ UNCHANGED <<aimed, playerCAO, currentCAO>>
    <3>1. CASE TrackOwn(k, p.id)
      <4>1. currentCAO' = p.id /\ (aimed' = {} \/ (aimed' = aimed /\ p.id = own))
        BY <1>5, <3>1 DEF TrackOwn
      <4> QED
        BY <1>3, <1>4, <4>1
    <3>2. CASE TrackAdd(k, p.id)
      BY <2>1, <3>2 DEF TrackAdd, Aim, caoVars
    <3>3. CASE TrackRemove(k, p.id)
      BY <1>5, <3>3 DEF TrackRemove, caoVars
    <3>4. CASE TrackThing(k, p.op, p.kind, p.id)
      BY <3>4 DEF TrackThing, caoVars
    <3>5. CASE TrackMessage(k, p.id)
      BY <3>5 DEF TrackMessage, caoVars
    <3> QED
      BY <1>1, <3>1, <3>2, <3>3, <3>4, <3>5
  <2> QED
    BY <1>1, <1>3, <2>1, <2>2, QuietOwn
<1>6. CASE k = cur /\ p.kind # "ao" /\ TrackThing(k, p.op, p.kind, p.id)
  <2>1. UNCHANGED <<aimed, playerCAO, currentCAO>>
    BY <1>6 DEF TrackThing, caoVars
  <2>2. packet'[cur].kind # "ao"
    <3>1. packet'[cur].kind = p.kind
      BY <1>2, <1>6, <1>1 DEF TrackThing, ToSend
    <3> QED
      BY <1>6, <3>1
  <2> QED
    BY <1>1, <1>3, <1>6, <2>1, <2>2, QuietOwn
<1>7. ASSUME k = cur, p.kind = "ao", p.id \in AOIDs
      PROVE  \A pc, op, x : /\ Doing(pc, op, x) <=> pc = "track" /\ op = p.op /\ x = p.id
                            /\ Doing(pc, op, x)' => pc = "send" /\ x = p.id
                            /\ Doing(pc, op, x)' => op = p.op \/ (p.op = "own" /\ op = "init")
  BY <1>1, <1>2, <1>7 DEF Doing
<1>8. CASE k = cur /\ p.kind = "ao" /\ p.op = "own" /\ TrackOwn(k, p.id) /\ p.id \in AOIDs
  <2>1. p.id = own
    BY <1>7, <1>8 DEF OwnInv
  <2>2. aimed' = aimed \cup {own} /\ currentCAO' = own /\ own # 0
    BY <1>8, <2>1, ViewAssumption DEF TrackOwn
  <2>3. attached => aimed \subseteq known \cup {own}
    BY <1>7, <1>8 DEF AimInv
  <2>4. OwnInv'
    <3>1. aimed' # {} => OwnKnown'
      BY <1>1, <1>4, <2>2 DEF OwnKnown
    <3> QED
      BY <1>1, <1>7, <1>8, <2>1, <2>2, <3>1 DEF OwnInv, Doing
  <2>5. AimInv'
    <3>0. own \notin known
      BY DEF OwnInv
    <3>1. CASE aimed = {}
      BY <1>1, <1>7, <1>8, <2>2, <3>0, <3>1 DEF AimInv
    <3>2. CASE aimed # {}
      <4>1. playerCAO' = playerCAO /\ packet'[k].op = "init"
        <5>1. packet' = [packet EXCEPT ![k] = [@ EXCEPT !.pc = "send", !.op = "init", !.at = p.id]]
          BY <1>4, <1>8, <3>2 DEF TrackOwn, hasPlayerCAO
        <5> QED
          BY <1>1, <1>3, <1>4, <3>2, <5>1 DEF Packet
      <4>2. \A x : Across(x)' = Across(x)
        BY <1>1, <4>1 DEF Across
      <4>3. \A pc, op, x : Doing(pc, op, x)' => op = "init"
        BY <1>1, <1>8, <4>1 DEF Doing
      <4>4. attached => \A x \in known \cap aimed : <<"ao", Across(x)>> \notin late
                          => shown["ao"][Across(x)] = Origin(cur, x)
        BY <1>7, <1>8 DEF AimInv
      <4> QED
        BY <1>1, <2>2, <2>3, <3>0, <4>2, <4>3, <4>4 DEF AimInv
    <3> QED
      BY <3>1, <3>2
  <2>6. ClickInv'
    <3>1. playerCAO = 0 \/ \A x : Across(x)' = Across(x)
      BY <1>1, <1>3 DEF Across
    <3> QED
      BY <1>1, <1>3, <3>1 DEF ClickInv
  <2> QED
    BY <2>4, <2>5, <2>6
<1>9. CASE k = cur /\ p.kind = "ao" /\ p.op = "add" /\ TrackAdd(k, p.id) /\ p.id \in AOIDs
  <2>1. /\ ToSend(k, Swap(k, p.id)) /\ UNCHANGED <<playerCAO, currentCAO>>
        /\ aimed' = IF Attached(k) /\ OwnKnown THEN aimed \cup {p.id} ELSE aimed
    BY <1>9 DEF TrackAdd, caoVars, Aim
  <2>2. packet'[cur].pc = "send" /\ packet'[cur].at = Swap(cur, p.id)
    BY <1>1, <1>9, <2>1 DEF ToSend, Packet
  <2>3. \A x : Across(x)' = Across(x)
    BY <1>1, <2>1 DEF Across
  <2>4. p.id \in known
    BY <1>7, <1>9 DEF OwnInv
  <2>5. OwnInv'
    BY <1>1, <1>7, <1>9, <2>1, <2>4 DEF OwnInv, OwnKnown
  <2>6. AimInv'
    <3> SUFFICES ASSUME attached PROVE AimInv'
      BY <1>1 DEF AimInv
    <3>1. aimed \subseteq known \cup {own}
      BY <1>7, <1>9 DEF AimInv
    <3>2. \A x \in known \cap aimed : <<"ao", Across(x)>> \notin late
             => shown["ao"][Across(x)] = Origin(cur, x)
      BY <1>7, <1>9 DEF AimInv
    <3>3. Doing("send", "add", p.id)'
      BY <1>1, <1>2, <1>9, <2>2 DEF Doing, NoPacket
    <3>4. CASE OwnKnown
      <4>1. aimed' = aimed \cup {p.id} /\ packet'[cur].at = Across(p.id)
        BY <1>9, <2>1, <2>2, <3>4, SwapIsAcross DEF Attached
      <4> QED
        BY <1>1, <1>7, <1>9, <2>3, <2>4, <3>1, <3>2, <3>3, <4>1 DEF AimInv
    <3>5. CASE ~OwnKnown
      <4>1. aimed' = {}
        BY <2>1, <3>5 DEF OwnInv
      <4> QED
        BY <1>7, <1>9, <4>1 DEF AimInv
    <3> QED
      BY <3>4, <3>5
  <2>7. ClickInv'
    BY <1>1, <2>1, <2>3 DEF ClickInv
  <2> QED
    BY <2>5, <2>6, <2>7
<1>10. CASE k = cur /\ p.kind = "ao" /\ p.op = "del" /\ TrackRemove(k, p.id) /\ p.id \in AOIDs
  <2>1. ToSend(k, p.id) /\ UNCHANGED <<playerCAO, currentCAO>> /\ aimed' = aimed \ {p.id}
    BY <1>10 DEF TrackRemove, caoVars
  <2>2. packet'[cur].pc = "send" /\ packet'[cur].at = p.id
    BY <1>1, <1>10, <2>1 DEF ToSend, Packet
  <2>3. \A x : Across(x)' = Across(x)
    BY <1>1, <2>1 DEF Across
  <2>4. p.id \notin known \cup {own}
    BY <1>7, <1>10 DEF OwnInv
  <2>5. OwnInv'
    BY <1>1, <1>7, <1>10, <2>1, <2>4 DEF OwnInv, OwnKnown
  <2>6. AimInv'
    <3> SUFFICES ASSUME attached PROVE AimInv'
      BY <1>1 DEF AimInv
    <3>1. aimed' \subseteq known \cup {own}
      BY <1>7, <1>10, <2>1 DEF AimInv
    <3>2. \A x \in known \cap aimed : <<"ao", Across(x)>> \notin late
             => shown["ao"][Across(x)] = Origin(cur, x)
      BY <1>7, <1>10 DEF AimInv
    <3> QED
      BY <1>1, <1>7, <1>10, <2>1, <2>2, <2>3, <3>1, <3>2 DEF AimInv
  <2>7. ClickInv'
    BY <1>1, <2>1, <2>3 DEF ClickInv
  <2> QED
    BY <2>5, <2>6, <2>7
<1>11. CASE k = cur /\ p.kind = "ao" /\ p.op = "msg" /\ TrackMessage(k, p.id) /\ p.id \in AOIDs
  <2>1. ToSend(k, Swap(k, p.id)) /\ UNCHANGED <<playerCAO, currentCAO, aimed>>
    BY <1>11 DEF TrackMessage, caoVars
  <2>2. packet'[cur].at = Swap(cur, p.id)
    BY <1>1, <1>11, <2>1 DEF ToSend, Packet
  <2>3. \A x : Across(x)' = Across(x)
    BY <1>1, <2>1 DEF Across
  <2>4. p.id \in known \cup {own}
    BY <1>7, <1>11 DEF OwnInv
  <2>5. OwnInv'
    BY <1>1, <1>7, <1>11, <2>1, <2>4 DEF OwnInv, OwnKnown
  <2>6. AimInv'
    <3> SUFFICES ASSUME attached PROVE AimInv'
      BY <1>1 DEF AimInv
    <3>1. aimed \subseteq known \cup {own}
      BY <1>7, <1>11 DEF AimInv
    <3>2. \A x \in known \cap aimed : <<"ao", Across(x)>> \notin late
             => shown["ao"][Across(x)] = Origin(cur, x)
      BY <1>7, <1>11 DEF AimInv
    <3>3. p.id \in aimed => packet'[cur].at = Across(p.id)
      BY <2>2, SwapIsAcross DEF OwnInv
    <3> QED
      BY <1>1, <1>7, <1>11, <2>1, <2>3, <3>1, <3>2, <3>3 DEF AimInv
  <2>7. ClickInv'
    BY <1>1, <2>1, <2>3 DEF ClickInv
  <2> QED
    BY <2>5, <2>6, <2>7
<1> QED
  BY <1>1, <1>5, <1>6, <1>8, <1>9, <1>10, <1>11

\* What the current handler sends of an object reaches the slot of that object,
\* and no slot of another.
LEMMA SendOwnInv ==
  ASSUME TypeInv, OwnInv, AimInv, ClickInv, NEW k \in Conns, Send(k)
  PROVE  OwnInv' /\ AimInv' /\ ClickInv'
<1> DEFINE p == packet[k]
<1>1. /\ UNCHANGED <<cur, attached, hop, playerCAO, currentCAO, known, own, click, aimed>>
      /\ p.pc = "send" /\ k <= cur /\ cur \in Conns
      /\ p.op \in OpsOf(p.kind)
      /\ p.kind \in Kinds /\ p.at \in Ids(p.kind) /\ p.id \in Ids(p.kind)
      /\ packet'[k] = NoPacket /\ \A j \in Conns \ {k} : packet'[j] = packet[j]
      /\ shown'[p.kind][p.at] = Result(k, p)
      /\ \A kind \in Kinds : \A id \in Ids(kind) :
           ~(kind = p.kind /\ id = p.at) => shown'[kind][id] = shown[kind][id]
  BY SendEffect DEF TypeInv, TypeOK
<1>2. late' = IF p.op \in Keeping THEN late
              ELSE IF Past(k, p.kind) THEN late \cup {<<p.kind, p.at>>}
              ELSE late \ {<<p.kind, p.at>>}
  BY DEF Send
<1>3. p.kind = "ao" => p.op \in {"own", "add", "del", "msg", "init"}
  BY <1>1 DEF OpsOf
<1>4. \A x : Across(x)' = Across(x)
  BY <1>1 DEF Across
<1>5. /\ known \subseteq AOIDs
      /\ aimed # {} => \A x \in AOIDs : Across(x) \in AOIDs
  <2>1. aimed # {} => own \in AOIDs /\ playerCAO \in AOIDs
    BY AimedHas DEF TypeInv, TypeOK
  <2> QED
    BY <2>1 DEF TypeInv, TypeOK, Across
<1>6. OwnInv'
  <2>1. \A pc \in {"track", "send"} : \A op, x : Doing(pc, op, x)' => Doing(pc, op, x)
    BY <1>1 DEF Doing, NoPacket
  <2> QED
    BY <1>1, <2>1 DEF OwnInv, OwnKnown
<1>7. ClickInv'
  BY <1>1, <1>4 DEF ClickInv
<1>8. ASSUME NEW x \in AOIDs, ~(p.kind = "ao" /\ p.at = x)
      PROVE  /\ <<"ao", x>> \in late' <=> <<"ao", x>> \in late
             /\ shown'["ao"][x] = shown["ao"][x]
  BY <1>1, <1>2, <1>8, IdsOf
<1>9. ASSUME attached, aimed # {} PROVE AimInv'
  <2>1. \A x \in AOIDs : Across(x) \in AOIDs
    BY <1>5, <1>9
  <2>2. CASE k # cur
    <3>1. packet'[cur] = packet[cur] /\ \A pc, op, x : Doing(pc, op, x)' <=> Doing(pc, op, x)
      BY <1>1, <2>2 DEF Doing
    <3>2. Past(k, p.kind)
      BY <1>1, <2>2 DEF Past, Conns
    <3>3. ASSUME NEW x \in known \cap aimed, <<"ao", Across(x)>> \notin late', ~Doing("send", "add", x)
          PROVE  shown'["ao"][Across(x)] = Origin(cur, x)
      <4>1. \/ ~(p.kind = "ao" /\ p.at = Across(x))
            \/ p.op \in Keeping
        BY <1>2, <3>2, <3>3
      <4>2. Across(x) \in AOIDs
        BY <1>5, <2>1, <3>3
      <4>3. <<"ao", Across(x)>> \notin late /\ shown'["ao"][Across(x)] = shown["ao"][Across(x)]
        <5>1. CASE p.kind = "ao" /\ p.at = Across(x) /\ p.op \in Keeping
          BY <1>1, <1>2, <3>3, <5>1 DEF Result, Keeping
        <5> QED
          BY <1>8, <3>3, <4>1, <4>2, <5>1
      <4> QED
        BY <1>9, <3>3, <4>3 DEF AimInv
    <3>4. \A x \in aimed \ (known \cup {own}) : Doing("track", "del", x)'
      BY <1>9, <3>1 DEF AimInv
    <3>5. \A id \in AOIDs :
         /\ Doing("send", "own", id)' => aimed \subseteq {own}
         /\ Doing("send", "msg", id)' /\ id \in aimed => packet'[cur].at = Across(id)
         /\ Doing("track", "add", id)' => id \notin aimed
         /\ Doing("send", "add", id)' =>
              (id \in aimed /\ packet'[cur].at = Across(id)) \/ aimed = {}
         /\ Doing("send", "del", id)' => packet'[cur].at = id
      BY <1>9, <3>1 DEF AimInv
    <3> QED
      BY <1>1, <1>4, <3>1, <3>3, <3>4, <3>5 DEF AimInv
  <2>3. CASE k = cur
    <3>1. \A pc \in {"track", "send"} : \A op, x : ~Doing(pc, op, x)'
      BY <1>1, <2>3 DEF Doing, NoPacket
    <3>2. aimed \subseteq known \cup {own}
      BY <1>1, <1>9, <2>3 DEF AimInv, Doing
    <3>3. ASSUME NEW x \in known \cap aimed, <<"ao", Across(x)>> \notin late'
          PROVE  shown'["ao"][Across(x)] = Origin(cur, x)
      <4>1. Across(x) \in AOIDs /\ x \in AOIDs /\ x # own
        BY <1>5, <2>1, <3>3 DEF OwnInv
      <4>2. CASE ~(p.kind = "ao" /\ p.at = Across(x))
        <5>1. <<"ao", Across(x)>> \notin late /\ shown'["ao"][Across(x)] = shown["ao"][Across(x)]
          BY <1>8, <3>3, <4>1, <4>2
        <5>2. ~Doing("send", "add", x)
          BY <1>9, <2>3, <4>1, <4>2 DEF AimInv, Doing
        <5> QED
          BY <1>9, <3>3, <5>1, <5>2 DEF AimInv
      <4>3. CASE p.kind = "ao" /\ p.at = Across(x)
        <5>1. p.id \in AOIDs
          BY <1>1, <4>3, IdsOf
        <5>2. CASE p.op = "own"
          <6>1. aimed \subseteq {own}
            BY <1>1, <1>9, <2>3, <4>3, <5>1, <5>2 DEF AimInv, Doing
          <6> QED
            BY <3>3, <4>1, <6>1
        <5>3. CASE p.op = "add"
          <6>1. p.at = Across(p.id)
            BY <1>1, <1>9, <2>3, <4>3, <5>1, <5>3 DEF AimInv, Doing
          <6>2. p.id = x
            BY <4>3, <6>1, AcrossTwice
          <6> QED
            BY <1>1, <2>3, <4>3, <5>3, <6>2 DEF Result, Keeping
        <5>4. CASE p.op = "del"
          <6>1. p.at = p.id
            BY <1>1, <1>9, <2>3, <4>3, <5>1, <5>4 DEF AimInv, Doing
          <6>2. p.id \notin known \cup {own}
            BY <1>1, <2>3, <4>3, <5>1, <5>4 DEF OwnInv, Doing
          <6> QED
            BY <3>3, <4>1, <4>3, <6>1, <6>2 DEF Across
        <5>5. CASE p.op \in {"msg", "init"}
          <6>1. shown'["ao"][Across(x)] = shown["ao"][Across(x)] /\ late' = late
            BY <1>1, <1>2, <4>3, <5>5 DEF Result, Keeping
          <6>2. ~Doing("send", "add", x)
            BY <2>3, <5>5 DEF Doing
          <6> QED
            BY <1>9, <3>3, <6>1, <6>2 DEF AimInv
        <5> QED
          BY <1>3, <4>3, <5>2, <5>3, <5>4, <5>5
      <4> QED
        BY <4>2, <4>3
    <3> QED
      BY <1>1, <1>4, <3>1, <3>2, <3>3 DEF AimInv
  <2> QED
    BY <2>2, <2>3
<1>10. ASSUME attached, aimed = {} PROVE AimInv'
  <2>1. \A id \in AOIDs : Doing("send", "del", id)' => packet'[cur].at = id
    BY <1>1, <1>10 DEF AimInv, Doing, NoPacket
  <2> QED
    BY <1>1, <1>10, <2>1 DEF AimInv
<1>11. AimInv'
  BY <1>1, <1>9, <1>10 DEF AimInv
<1> QED
  BY <1>6, <1>7, <1>11

\* While the hop is going on the objects do not matter; the next server starts
\* without any.
LEMMA HopOwn ==
  ASSUME TypeInv, OwnInv, AimInv, ClickInv, Detach \/ Reset \/ Connect
  PROVE  OwnInv' /\ AimInv' /\ ClickInv'
<1>1. CASE Detach \/ Reset
  <2>1. /\ UNCHANGED <<cur, packet, playerCAO, currentCAO, known, own, click, aimed>> /\ attached' = FALSE
    <3>1. Detach => UNCHANGED <<cur, packet, playerCAO, currentCAO, known, own, click, aimed>> /\ attached' = FALSE
      BY DEF Detach, caoVars, serverVars
    <3>2. Reset => hop # Idle /\ attached' = attached
      BY Order DEF Reset
    <3>3. Reset => UNCHANGED <<cur, packet, playerCAO, currentCAO, known, own, click, aimed>>
      BY DEF Reset, caoVars, serverVars
    <3>4. hop # Idle => attached = FALSE
      BY DEF TypeInv, HopInv, TypeOK
    <3> QED
      BY <1>1, <3>1, <3>2, <3>3, <3>4
  <2>2. \A x : Across(x)' = Across(x)
    BY <2>1 DEF Across
  <2> QED
    BY <2>1, <2>2 DEF OwnInv, OwnKnown, AimInv, ClickInv, Doing
<1>2. CASE Connect
  <2>1. /\ UNCHANGED <<packet, click>> /\ cur' = cur + 1 /\ cur < MaxConns /\ cur \in Conns
        /\ known' = {} /\ own' = 0 /\ aimed' = {}
    BY <1>2 DEF Connect, TypeInv, TypeOK
  <2>2. cur' \in Conns /\ cur < cur'
    BY <2>1, ViewAssumption DEF Conns
  <2>3. packet'[cur'].pc = "idle"
    BY <2>1, <2>2 DEF TypeInv, PacketInv
  <2>4. OwnInv' /\ AimInv'
    BY <2>1, <2>3 DEF OwnInv, AimInv, Doing
  <2>5. ClickInv'
    <3>1. click.pc # "idle" => click.what.conn \in Conns /\ click.what.conn < cur'
      BY <2>1, <2>2 DEF ClickInv, Conns
    <3> QED
      BY <2>1, <3>1 DEF ClickInv, Conns
  <2> QED
    BY <2>4, <2>5
<1> QED
  BY <1>1, <1>2

\* The player points at what the client shows, and the proxy handles it.
LEMMA ClickOwn ==
  ASSUME TypeInv, OwnInv, AimInv, ClickInv,
         DialFails \/ (\E id \in AOIDs : Point(id)) \/ ReadServer \/ Interact \/ Hit \/ UNCHANGED vars
  PROVE  OwnInv' /\ AimInv' /\ ClickInv'
<1>1. UNCHANGED <<cur, attached, packet, shown, playerCAO, currentCAO, known, own, aimed, late>>
  BY OtherIs DEF caoVars, serverVars, history
<1>2. \A x : Across(x)' = Across(x)
  BY <1>1 DEF Across
<1>3. OwnInv' /\ AimInv'
  BY <1>1, <1>2 DEF OwnInv, OwnKnown, AimInv, Doing
<1>4. ASSUME click' = NoClick PROVE ClickInv'
  BY <1>4 DEF ClickInv, NoClick
<1>5. ASSUME click' = click PROVE ClickInv'
  BY <1>1, <1>2, <1>5 DEF ClickInv
<1>6. ASSUME NEW id \in AOIDs, Point(id) PROVE ClickInv'
  <2> DEFINE w == shown["ao"][id]
  <2>1. w \notin {None, Player} /\ click' = [pc |-> "sent", id |-> id, what |-> w, aim |-> Shows(id), srv |-> None]
    BY <1>6 DEF Point
  <2>2. w.conn \in Conns /\ w.conn <= cur
    BY <2>1, IdsOf DEF TypeInv, ShownInv, Things
  <2>3. DOMAIN click' = {"pc", "id", "what", "aim", "srv"} /\ click'.what = w /\ click'.id = id
    BY <2>1
  <2>4. click'.aim => Shows(id)
    BY <2>1
  <2>5. Shows(id) => own # 0 /\ playerCAO # 0 /\ id = Across(w.id)
    BY SwapIsAcross DEF Shows, OwnKnown
  <2> QED
    BY <1>1, <1>2, <2>2, <2>3, <2>4, <2>5 DEF ClickInv
<1>7. ASSUME ReadServer PROVE ClickInv'
  <2>1. CASE click' = [click EXCEPT !.pc = "srv", !.srv = cur]
    <3>1. /\ DOMAIN click' = DOMAIN click /\ click'.what = click.what /\ click'.aim = click.aim
          /\ click'.id = click.id /\ click.pc = "sent"
      BY <1>7, <2>1 DEF ReadServer, ClickInv
    <3> QED
      BY <1>1, <1>2, <3>1 DEF ClickInv
  <2> QED
    BY <1>4, <1>7, <2>1 DEF ReadServer
<1>8. ASSUME Interact PROVE ClickInv'
  <2>1. click' = [click EXCEPT !.pc = "hit", !.id = Swap(click.srv, click.id)] /\ click.pc = "srv"
    BY <1>8 DEF Interact
  <2>2. /\ DOMAIN click' = DOMAIN click /\ click'.what = click.what /\ click'.pc = "hit"
    BY <2>1 DEF ClickInv
  <2> QED
    BY <1>1, <2>1, <2>2 DEF ClickInv
<1> QED
  BY <1>3, <1>4, <1>5, <1>6, <1>7, <1>8 DEF DialFails, Hit, vars

\* No object is known and no packet is under way.
LEMMA OwnInit == Init => OwnInv /\ AimInv /\ ClickInv
<1> SUFFICES ASSUME Init PROVE OwnInv /\ AimInv /\ ClickInv
  OBVIOUS
<1>1. packet[cur] = NoPacket
  BY ViewAssumption DEF Init, Conns
<1> QED
  BY <1>1 DEF Init, OwnInv, AimInv, ClickInv, Doing, NoPacket, NoClick

\* Every step preserves what the translation rests on.
LEMMA OwnNext ==
  TypeInv /\ OwnInv /\ AimInv /\ ClickInv /\ [Next]_vars => OwnInv' /\ AimInv' /\ ClickInv'
<1> SUFFICES ASSUME TypeInv, OwnInv, AimInv, ClickInv, [Next]_vars
             PROVE  OwnInv' /\ AimInv' /\ ClickInv'
  OBVIOUS
<1>1. CASE \E k \in Conns : \E id \in AOIDs : ReceiveObject(k, id)
  BY <1>1, ObjectOwn
<1>2. CASE \E k \in Conns : \E kind \in Kinds \ {"ao"} : \E id \in Names : ReceiveThing(k, kind, id)
  BY <1>2, ThingOwn
<1>3. CASE \E k \in Conns : Track(k)
  BY <1>3, TrackOwnInv
<1>4. CASE \E k \in Conns : Send(k)
  BY <1>4, SendOwnInv
<1>5. CASE Detach \/ Reset \/ Connect
  BY <1>5, HopOwn
<1>6. CASE DialFails \/ (\E id \in AOIDs : Point(id)) \/ ReadServer \/ Interact \/ Hit \/ UNCHANGED vars
  BY <1>6, ClickOwn
<1> QED
  BY <1>1, <1>2, <1>3, <1>4, <1>5, <1>6 DEF Next

\* The client has not got its player object yet.
LEMMA PlayerInit == Init => PlayerInv
<1> SUFFICES ASSUME Init PROVE PlayerInv
  OBVIOUS
<1>1. \A id \in AOIDs : shown["ao"][id] = None
  BY IdsOf DEF Init, Nowhere
<1>2. \A k \in Conns : packet[k] = NoPacket
  BY DEF Init
<1> QED
  BY <1>1, <1>2, ViewAssumption DEF PlayerInv, NoPacket

\* A step that sends no player object and shows none.
LEMMA PlayerQuiet ==
  ASSUME PlayerInv, playerCAO' = playerCAO,
         \A id \in AOIDs : shown'["ao"][id] = Player => shown["ao"][id] = Player,
         \A k \in Conns : packet'[k].pc = "send" /\ packet'[k].op = "own" => packet'[k] = packet[k]
  PROVE  PlayerInv'
  BY DEF PlayerInv

\* The first server's player object is the one, and is sent once.
LEMMA PlayerNext ==
  TypeInv /\ PlayerInv /\ [Next]_vars => PlayerInv'
<1> SUFFICES ASSUME TypeInv, PlayerInv, [Next]_vars PROVE PlayerInv'
  OBVIOUS
<1>1. CASE \E k \in Conns :
             \/ \E id \in AOIDs : ReceiveObject(k, id)
             \/ \E kind \in Kinds \ {"ao"} : \E id \in Names : ReceiveThing(k, kind, id)
  <2>1. PICK k \in Conns :
             \/ \E id \in AOIDs : ReceiveObject(k, id)
             \/ \E kind \in Kinds \ {"ao"} : \E id \in Names : ReceiveThing(k, kind, id)
    BY <1>1
  <2>2. /\ UNCHANGED <<shown, playerCAO>> /\ packet'[k].pc = "track"
        /\ \A j \in Conns \ {k} : packet'[j] = packet[j]
    BY <2>1, ReceiveEffect
  <2> QED
    BY <2>2, PlayerQuiet
<1>2. ASSUME NEW k \in Conns, Track(k) PROVE PlayerInv'
  <2> DEFINE p == packet[k]
  <2>1. /\ shown' = shown /\ p.pc = "track" /\ packet \in [Conns -> Packet]
        /\ p.op = "own" => TrackOwn(k, p.id) /\ p.id \in AOIDs
        /\ p.op # "own" => UNCHANGED <<playerCAO, currentCAO>>
    BY <1>2, TrackIs DEF TrackAdd, TrackRemove, TrackMessage, TrackThing, caoVars, TypeInv, TypeOK
  <2>2. /\ \A j \in Conns \ {k} : packet'[j] = packet[j]
        /\ packet'[k].op = p.op \/ (p.op = "own" /\ packet'[k].op = "init")
    BY <1>2, TrackEffect
  <2>3. CASE p.op # "own" \/ hasPlayerCAO
    <3>1. playerCAO' = playerCAO
      BY <2>1, <2>3 DEF TrackOwn
    <3>2. packet'[k].op # "own"
      BY <2>1, <2>2, <2>3 DEF TrackOwn, Packet
    <3> QED
      BY <2>1, <2>2, <3>1, <3>2, PlayerQuiet
  <2>4. CASE p.op = "own" /\ ~hasPlayerCAO
    <3>1. playerCAO' = p.id /\ packet'[k].at = p.id
      BY <2>1, <2>4 DEF TrackOwn, ToSend, Packet
    <3>2. \A id \in AOIDs : shown["ao"][id] # Player
      BY <2>4, ViewAssumption DEF PlayerInv, hasPlayerCAO
    <3>3. ASSUME NEW j \in Conns \ {k}, packet'[j].pc = "send", packet'[j].op = "own"
          PROVE  FALSE
      <4>1. packet[j].at = 0
        BY <2>2, <2>4, <3>3 DEF PlayerInv, hasPlayerCAO
      <4>2. packet[j].at \in AOIDs
        <5>1. packet[j].kind = "ao"
          BY <2>2, <3>3, IdsOf DEF TypeInv, TypeOK, Entry, PacketInv, OpsOf
        <5> QED
          BY <2>2, <3>3, <5>1, IdsOf DEF TypeInv, TypeOK
      <4> QED
        BY <4>1, <4>2, ViewAssumption
    <3> QED
      BY <2>1, <3>1, <3>2, <3>3 DEF PlayerInv
  <2> QED
    BY <2>3, <2>4
<1>3. ASSUME NEW k \in Conns, Send(k) PROVE PlayerInv'
  <2> DEFINE p == packet[k]
  <2>1. /\ playerCAO' = playerCAO /\ p.pc = "send" /\ p.id \in Ids(p.kind)
        /\ p.kind \in Kinds /\ p.at \in Ids(p.kind) /\ p.op \in {"own", "add", "del"} \cup Keeping
        /\ packet'[k] = NoPacket /\ \A j \in Conns \ {k} : packet'[j] = packet[j]
        /\ shown'[p.kind][p.at] = Result(k, p)
        /\ \A kind \in Kinds : \A id \in Ids(kind) :
             ~(kind = p.kind /\ id = p.at) => shown'[kind][id] = shown[kind][id]
    BY <1>3, SendEffect
  <2>2. ASSUME NEW id \in AOIDs, shown'["ao"][id] = Player PROVE id = playerCAO
    <3>1. CASE ~(p.kind = "ao" /\ p.at = id)
      <4>1. shown'["ao"][id] = shown["ao"][id]
        BY <2>1, <3>1, IdsOf
      <4> QED
        BY <2>2, <4>1 DEF PlayerInv
    <3>2. CASE p.kind = "ao" /\ p.at = id /\ p.op = "own"
      BY <2>1, <3>2 DEF PlayerInv
    <3>3. CASE p.kind = "ao" /\ p.at = id /\ p.op = "add"
      <4>1. Player = Origin(k, p.id)
        BY <2>1, <2>2, <3>3 DEF Result, Keeping
      <4>2. p.id \in AOIDs
        BY <2>1, <3>3, IdsOf
      <4> QED
        BY <2>1, <3>3, <4>1, <4>2, ViewAssumption DEF Origin, Conns
    <3>4. CASE p.kind = "ao" /\ p.at = id /\ p.op = "del"
      BY <2>1, <2>2, <3>4, ViewAssumption DEF Result, Keeping
    <3>5. CASE p.kind = "ao" /\ p.at = id /\ p.op \in Keeping
      BY <2>1, <2>2, <3>5 DEF Result, Keeping, PlayerInv
    <3> QED
      BY <2>1, <3>1, <3>2, <3>3, <3>4, <3>5
  <2> QED
    BY <2>1, <2>2 DEF PlayerInv, NoPacket
<1>4. CASE Detach \/ Connect
  <2>1. UNCHANGED <<packet, shown, playerCAO>>
    BY <1>4 DEF Detach, Connect, caoVars
  <2> QED
    BY <2>1, PlayerQuiet
<1>5. CASE Reset
  <2>1. UNCHANGED <<packet, playerCAO>> /\ \A id \in AOIDs : shown'["ao"][id] \in {None, shown["ao"][id]}
    BY <1>5, ResetEffect, IdsOf
  <2> QED
    BY <2>1, PlayerQuiet, ViewAssumption
<1>6. CASE DialFails \/ (\E id \in AOIDs : Point(id)) \/ ReadServer \/ Interact \/ Hit \/ UNCHANGED vars
  <2>1. UNCHANGED <<packet, shown, playerCAO>>
    BY <1>6, OtherIs DEF caoVars
  <2> QED
    BY <2>1, PlayerQuiet
<1> QED
  BY <1>1, <1>2, <1>3, <1>4, <1>5, <1>6 DEF Next

\* The inductive invariant.
THEOREM Inductive == Spec => []ViewInv
<1>1. Init => ViewInv
  BY InitType, LeftInit, PlayerInit, OwnInit DEF ViewInv
<1>2. ViewInv /\ [Next]_vars => ViewInv'
  <2> SUFFICES ASSUME ViewInv, [Next]_vars PROVE ViewInv'
    OBVIOUS
  <2> QED
    BY TypeNext, LeftNext, PlayerNext, OwnNext DEF ViewInv
<1> QED
  BY <1>1, <1>2, PTL DEF Spec

\* swapAOID and ToCltAOMsgs (activeobject.go, process.go:739-743): once the proxy knows
\* the player object of the server, a message of that server about this object, or
\* about one it has added since, is sent with the identifier the object has at the
\* client.  The messages that come with the player object are not among them.
THEOREM MessagesReach == Spec => MessagesReachObject
<1> DEFINE Reaches ==
      \A k \in Conns :
        LET p == packet[k]
        IN  p.pc = "send" /\ p.op = "msg" /\ packet'[k].pc = "idle" /\ Attached(k) /\ p.id \in aimed
            => IF p.id = own THEN \A id \in AOIDs : shown["ao"][id] = Player => id = p.at
               ELSE <<"ao", p.at>> \notin late => shown["ao"][p.at] = Origin(k, p.id)
<1>1. ViewInv => Reaches
  <2> SUFFICES ASSUME ViewInv, NEW k \in Conns, packet[k].pc = "send", packet[k].op = "msg",
                      Attached(k), packet[k].id \in aimed
               PROVE  IF packet[k].id = own
                      THEN \A id \in AOIDs : shown["ao"][id] = Player => id = packet[k].at
                      ELSE <<"ao", packet[k].at>> \notin late
                             => shown["ao"][packet[k].at] = Origin(k, packet[k].id)
    OBVIOUS
  <2> DEFINE x == packet[k].id
  <2>1. k = cur /\ attached /\ x \in AOIDs
    BY DEF Attached, ViewInv, TypeInv, TypeOK
  <2>2. packet[k].kind = "ao"
    BY DEF ViewInv, TypeInv, TypeOK, Entry, PacketInv, OpsOf
  <2>3. Doing("send", "msg", x)
    BY <2>1, <2>2 DEF Doing
  <2>4. packet[k].at = Across(x) /\ (x \in known \/ x = own)
    BY <2>1, <2>3 DEF ViewInv, AimInv, Doing
  <2>5. CASE x = own
    <3>1. packet[k].at = playerCAO
      BY <2>4, <2>5 DEF Across
    <3> QED
      BY <2>5, <3>1 DEF ViewInv, PlayerInv
  <2>6. CASE x # own
    <3>1. ~Doing("send", "add", x) /\ x \in known \cap aimed
      BY <2>3, <2>4, <2>6 DEF Doing
    <3> QED
      BY <2>1, <2>4, <2>6, <3>1 DEF ViewInv, AimInv
  <2> QED
    BY <2>5, <2>6
<1> QED
  BY <1>1, Inductive, PTL DEF MessagesReachObject

\* ClientConn.process translates the identifier of an interaction with the same
\* swapAOID: it is forwarded with the identifier the server has for the object.
THEOREM InteractionsReach == Spec => InteractionReaches
<1> DEFINE Reaches == click.pc = "srv" /\ click'.pc = "hit"
                      /\ click.aim /\ click.what.conn = click.srv
                      /\ Attached(click.srv) /\ OwnKnown
                      => click'.id = click.what.id
<1>1. ViewInv /\ [Next]_vars => Reaches
  <2> SUFFICES ASSUME ViewInv, [Next]_vars, click.pc = "srv", click'.pc = "hit",
                      click.aim, click.what.conn = click.srv, Attached(click.srv), OwnKnown
               PROVE  click'.id = click.what.id
    OBVIOUS
  <2>1. click.srv = cur /\ attached
    BY DEF Attached
  <2>2. click.id = Across(click.what.id) /\ DOMAIN click = {"pc", "id", "what", "aim", "srv"}
    BY <2>1 DEF ViewInv, ClickInv
  <2>3. Interact
    <3>1. click' # click /\ click' # NoClick
      BY DEF NoClick
    <3>2. ~(\E id \in AOIDs : Point(id)) /\ ~ReadServer /\ ~Hit
      BY DEF Point, ReadServer, Hit
    <3>3. \A k \in Conns : ~Track(k) /\ ~Send(k)
      BY <3>1 DEF Track, Send
    <3>4. \A k \in Conns :
            /\ \A id \in AOIDs : ~ReceiveObject(k, id)
            /\ \A kind \in Kinds \ {"ao"} : \A id \in Names : ~ReceiveThing(k, kind, id)
      BY <3>1 DEF ReceiveObject, ReceiveThing, Receive
    <3>5. ~Detach /\ ~Reset /\ ~Connect /\ ~DialFails /\ ~UNCHANGED vars
      BY <3>1 DEF Detach, Reset, Connect, DialFails, vars
    <3> QED
      BY <3>2, <3>3, <3>4, <3>5 DEF Next
  <2>4. click'.id = Swap(cur, click.id)
    BY <2>1, <2>2, <2>3 DEF Interact
  <2> QED
    BY <2>1, <2>2, <2>4, SwapIsAcross, AcrossTwice DEF ViewInv
<1> QED
  BY <1>1, Inductive, PTL DEF Spec, InteractionReaches
====
