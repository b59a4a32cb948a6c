------------------------- MODULE ModChannelsProofs -------------------------
(***************************************************************************)
(* RejoinedAfterHop and ClientIsKnown hold for any number of connections,  *)
(* channels and requests.  For the first, IInv is inductive: a channel     *)
(* that is recorded and not joined is in the rest of the loop, in a        *)
(* request, or in a signal that will remove it; and a success that the     *)
(* server took back is followed by such a signal.  For the second, KInv    *)
(* is: whatever is under way about a channel the client is in cannot be    *)
(* taken for the success of a later join, because a request to leave it,   *)
(* and its answer, stay behind every success of it.                        *)
(***************************************************************************)
EXTENDS ModChannelsInv, SequenceTheorems, TLAPS

\* The elements of a sequence that grows.
LEMMA AppendElements ==
  ASSUME NEW S, NEW s \in Seq(S), NEW e \in S
  PROVE  /\ Append(s, e) \in Seq(S)
         /\ Len(s) \in Nat
         /\ DOMAIN s = 1 .. Len(s)
         /\ DOMAIN Append(s, e) = 1 .. Len(s) + 1
         /\ \A i \in DOMAIN s : Append(s, e)[i] = s[i]
         /\ Append(s, e)[Len(s) + 1] = e
  BY AppendProperties, LenProperties

\* The elements of a sequence that loses its first.
LEMMA TailElements ==
  ASSUME NEW S, NEW s \in Seq(S), s # <<>>
  PROVE  /\ Head(s) \in S
         /\ Head(s) = s[1]
         /\ Tail(s) \in Seq(S)
         /\ Len(s) \in Nat \ {0}
         /\ DOMAIN s = 1 .. Len(s)
         /\ DOMAIN Tail(s) = 1 .. Len(s) - 1
         /\ \A i \in DOMAIN Tail(s) : Tail(s)[i] = s[i + 1]
<1>1. Len(s) \in Nat /\ DOMAIN s = 1 .. Len(s) /\ Len(s) # 0
  BY LenProperties, EmptySeq
<1>2. Tail(s) \in Seq(S) /\ Len(Tail(s)) = Len(s) - 1 /\ Head(s) = s[1]
      /\ \A i \in 1 .. Len(s) - 1 : Tail(s)[i] = s[i + 1]
  BY HeadTailProperties, <1>1
<1>3. DOMAIN Tail(s) = 1 .. Len(s) - 1
  BY <1>2, LenProperties
<1>4. Head(s) \in S
  BY <1>1, <1>2, ElementOfSeq
<1> QED
  BY <1>1, <1>2, <1>3, <1>4

\* A step that leaves the signals alone keeps their order.
LEMMA OrderFrame ==
  ASSUME OrderInv, UNCHANGED <<cur, attached, member, toClt, handler>>
  PROVE  OrderInv'
  BY DEF OrderInv, Removal

-----------------------------------------------------------------------------
\* The initial state satisfies the invariant.
LEMMA InitInv == Init => IInv
<1> SUFFICES ASSUME Init PROVE IInv
  OBVIOUS
<1> USE ModChanAssumption DEF Init
<1>1. TypeOK
  <2>1. /\ cur \in Conns /\ loop \in [todo : SUBSET Channels, done : SUBSET Channels]
        /\ view \in [Channels -> {"none", "init", "ready"}]
        /\ requests \in 0 .. MaxRequests
    BY DEF Conns, NoLoop
  <2>2. /\ clt \in [pc : {"idle", "read", "sent"}, req : Message \cup {None},
                    srv : Conns \cup {None}]
        /\ clt.pc # "read"
    BY DEF NoRequest
  <2>3. /\ handler \in [Conns -> [pc : {"idle", "got", "send"}, sig : Signal \cup {None}]]
        /\ \A k \in Conns : handler[k].pc = "idle"
    BY DEF NoSignal
  <2>4. <<>> \in Seq(Message) /\ <<>> \in Seq(Signal)
    BY EmptySeq
  <2> QED
    BY <2>1, <2>2, <2>3, <2>4 DEF TypeOK
<1>2. HopInv
  BY DEF HopInv, NoSignal
<1>3. OrderInv
  <2>1. 1 \in Conns /\ DOMAIN toClt = {}
    BY DEF Conns
  <2>2. handler[cur].pc = "idle"
    BY <2>1 DEF NoSignal
  <2> QED
    BY <2>1, <2>2 DEF OrderInv
<1>4. PendingInv
  BY DEF PendingInv
<1> QED
  BY <1>1, <1>2, <1>3, <1>4 DEF IInv

\* A request of the client touches nothing the proxy has recorded.
LEMMA RequestInv ==
  ASSUME IInv, NEW op \in {"join", "leave"}, NEW ch \in Channels, Request(op, ch)
  PROVE  IInv'
<1> USE DEF IInv, Request, hopVars, srvVars, history
<1>1. TypeOK'
  BY ModChanAssumption DEF TypeOK, Message, Conns
<1>2. HopInv'
  BY DEF HopInv
<1>3. OrderInv'
  BY OrderFrame
<1>4. PendingInv'
  BY DEF PendingInv, Removal, Removes, Handles
<1> QED
  BY <1>1, <1>2, <1>3, <1>4

\* A request that is forwarded comes behind those under way.
LEMMA ForwardInv ==
  ASSUME IInv, Forward
  PROVE  IInv'
<1> USE DEF IInv, Forward, hopVars, history
<1>1. clt.req \in Message
  BY DEF TypeOK
<1>2. toSrv \in Seq(Message)
  BY DEF TypeOK
<1>3. toSrv' = toSrv \/ (attached /\ toSrv' = Append(toSrv, clt.req))
  OBVIOUS
<1>4. toSrv' \in Seq(Message)
  BY <1>1, <1>2, <1>3, AppendElements
<1>5. TypeOK'
  BY <1>1, <1>4 DEF TypeOK, Message
<1>6. HopInv'
  BY <1>3 DEF HopInv
<1>7. OrderInv'
  BY OrderFrame
<1>8. \A i \in DOMAIN toSrv : i \in DOMAIN toSrv' /\ toSrv'[i] = toSrv[i]
  BY <1>1, <1>2, <1>3, AppendElements
<1>9. PendingInv'
  BY <1>8 DEF PendingInv, Removal, Removes, Handles
<1> QED
  BY <1>5, <1>6, <1>7, <1>9

\* The end of a request.
LEMMA EndRequestInv ==
  ASSUME IInv, EndRequest
  PROVE  IInv'
<1> USE DEF IInv, EndRequest, hopVars, srvVars, history
<1>1. TypeOK'
  BY DEF TypeOK, NoRequest
<1>2. HopInv'
  BY DEF HopInv
<1>3. OrderInv'
  BY OrderFrame
<1>4. PendingInv'
  BY DEF PendingInv, Removal, Removes, Handles
<1> QED
  BY <1>1, <1>2, <1>3, <1>4

-----------------------------------------------------------------------------
\* What an answer of the server does to the signals.
LEMMA AnswerInv ==
  ASSUME IInv, Answer
  PROVE  IInv'
<1> USE DEF IInv, history
<1>1. /\ toSrv # <<>> /\ toSrv \in Seq(Message) /\ toClt \in Seq(Signal)
      /\ toSrv' = Tail(toSrv) /\ member \subseteq Channels
  BY DEF Answer, TypeOK
<1>2. Head(toSrv) \in Message
  BY <1>1, TailElements
<1> DEFINE Sig(o, c) == [op |-> o, ch |-> c]
<1>0. PICK ch \in Channels : ch = Head(toSrv).ch
  BY <1>2 DEF Message
<1>3. UNCHANGED <<cur, attached, hop, loop, view, requests, clt, subscribers, ready, modChs,
                  handler, late, unsure>>
  BY DEF Answer, hopVars, cltVars, history
<1>4. PICK op \in {"joinOK", "joinFail", "leaveOK", "leaveFail"} :
        /\ toClt' = Append(toClt, Sig(op, ch))
        /\ op = "joinOK" => Head(toSrv).op = "join" /\ member' = member \cup {ch}
        /\ op = "joinFail" => Head(toSrv).op = "join" /\ member' = member
        /\ op \in {"leaveOK", "leaveFail"} => Head(toSrv).op = "leave" /\ member' = member \ {ch}
        /\ op = "leaveFail" => ch \notin member
  <2>1. CASE Head(toSrv).op = "join" /\ AnswerJoin(Head(toSrv).ch)
    BY <1>0, <2>1 DEF AnswerJoin, Reply
  <2>2. CASE Head(toSrv).op = "leave" /\ AnswerLeave(Head(toSrv).ch)
    <3>1. CASE ch \in member
      BY <1>0, <2>2, <3>1 DEF AnswerLeave, Reply
    <3>2. CASE ch \notin member
      BY <1>0, <2>2, <3>2 DEF AnswerLeave, Reply
    <3> QED
      BY <3>1, <3>2
  <2> QED
    BY <2>1, <2>2 DEF Answer
<1>5. Sig(op, ch) \in Signal
  BY DEF Signal
<1>6. /\ toClt' \in Seq(Signal) /\ toSrv' \in Seq(Message)
      /\ Len(toClt) \in Nat /\ DOMAIN toClt = 1 .. Len(toClt)
      /\ DOMAIN toClt' = 1 .. Len(toClt) + 1
      /\ \A i \in DOMAIN toClt : toClt'[i] = toClt[i]
      /\ toClt'[Len(toClt) + 1] = Sig(op, ch)
  BY <1>1, <1>4, <1>5, AppendElements, TailElements
<1>7. member' \subseteq Channels
  BY <1>1, <1>2, <1>4
<1>8. TypeOK'
  BY <1>3, <1>6, <1>7 DEF TypeOK
<1>9. HopInv'
  BY <1>1, <1>3 DEF HopInv
<1>10. \A c : Removal(c) => Removal(c)'
  BY <1>6 DEF Removal, Removes
<1>11. op \in {"joinFail", "leaveOK"} => Removal(ch)'
  BY <1>6 DEF Removal, Removes
<1>12. OrderInv'
  <2> SUFFICES ASSUME attached, NEW c \in Channels \ member'
               PROVE  /\ \A i \in DOMAIN toClt' : Joined(toClt'[i], c)
                           => \E j \in DOMAIN toClt' : j > i /\ Removes(toClt'[j], c)
                      /\ handler[cur].pc = "got" /\ Joined(handler[cur].sig, c)
                           => Removal(c)'
    BY <1>3 DEF OrderInv, Removes
  <2>1. CASE c \notin member
    <3>1. op # "joinOK" \/ c # ch
      BY <1>4, <2>1
    <3>2. ~Joined(toClt'[Len(toClt) + 1], c)
      BY <3>1, <1>6 DEF Joined
    <3>3. ASSUME NEW i \in DOMAIN toClt', Joined(toClt'[i], c)
          PROVE  \E j \in DOMAIN toClt' : j > i /\ Removes(toClt'[j], c)
      <4>1. i \in DOMAIN toClt
        BY <3>2, <3>3, <1>6
      <4>2. PICK j \in DOMAIN toClt : j > i /\ Removes(toClt[j], c)
        BY <2>1, <3>3, <4>1, <1>6 DEF OrderInv
      <4> QED
        BY <4>2, <1>6
    <3>4. handler[cur].pc = "got" /\ Joined(handler[cur].sig, c) => Removal(c)'
      BY <2>1, <1>10 DEF OrderInv
    <3> QED
      BY <3>3, <3>4
  <2>2. CASE c \in member
    <3>1. c = ch /\ op = "leaveOK"
      BY <2>2, <1>4
    <3>2. Removes(toClt'[Len(toClt) + 1], c)
      BY <3>1, <1>6 DEF Removes
    <3>3. ASSUME NEW i \in DOMAIN toClt', Joined(toClt'[i], c)
          PROVE  \E j \in DOMAIN toClt' : j > i /\ Removes(toClt'[j], c)
      <4>1. toClt'[Len(toClt) + 1].op = "leaveOK"
        BY <3>1, <1>6
      <4>2. i # Len(toClt) + 1
        BY <4>1, <3>3 DEF Joined
      <4> QED
        BY <4>2, <3>2, <1>6
    <3> QED
      BY <3>1, <3>3, <1>11
  <2> QED
    BY <2>1, <2>2
<1>13. PendingInv'
  <2> SUFFICES ASSUME attached, NEW c \in modChs \ (unsure \cup member')
               PROVE  \/ hop = "rejoin" /\ c \in loop.todo \ loop.done
                      \/ \E i \in DOMAIN toSrv' : Joins(toSrv'[i], c)
                      \/ Removal(c)'
                      \/ Handles(c)
    BY <1>3 DEF PendingInv, Handles, Removes
  <2>1. CASE c \in member
    BY <2>1, <1>4, <1>11
  <2>2. CASE c \notin member
    <3>1. CASE \E i \in DOMAIN toSrv : Joins(toSrv[i], c)
      <4>1. PICK i \in DOMAIN toSrv : Joins(toSrv[i], c)
        BY <3>1
      <4>2. CASE i = 1
        <5>1. Joins(Head(toSrv), c)
          BY <4>1, <4>2, <1>1, TailElements
        <5>2. op = "joinFail" /\ c = ch
          BY <5>1, <1>0, <1>4 DEF Joins
        <5> QED
          BY <5>2, <1>11
      <4>3. CASE i # 1
        <5>1. i - 1 \in DOMAIN toSrv' /\ toSrv'[i - 1] = toSrv[i]
          BY <4>1, <4>3, <1>1, TailElements
        <5> QED
          BY <5>1, <4>1
      <4> QED
        BY <4>2, <4>3
    <3>2. CASE ~\E i \in DOMAIN toSrv : Joins(toSrv[i], c)
      BY <2>2, <3>2, <1>10 DEF PendingInv
    <3> QED
      BY <3>1, <3>2
  <2> QED
    BY <2>1, <2>2
<1> QED
  BY <1>8, <1>9, <1>12, <1>13

\* A request the server ignores is excepted.
LEMMA IgnoreInv ==
  ASSUME IInv, Ignore
  PROVE  IInv'
<1> USE DEF IInv, Ignore, hopVars, cltVars, history
<1>1. /\ toSrv # <<>> /\ toSrv \in Seq(Message) /\ toSrv' = Tail(toSrv)
  BY DEF TypeOK
<1>2. Head(toSrv) \in Message /\ toSrv' \in Seq(Message)
  BY <1>1, TailElements
<1>3. TypeOK'
  BY <1>2 DEF TypeOK, Message
<1>4. HopInv'
  BY DEF HopInv
<1>5. OrderInv'
  BY OrderFrame
<1>6. PendingInv'
  <2> SUFFICES ASSUME attached, NEW c \in modChs \ (unsure' \cup member)
               PROVE  \/ hop = "rejoin" /\ c \in loop.todo \ loop.done
                      \/ \E i \in DOMAIN toSrv' : Joins(toSrv'[i], c)
                      \/ Removal(c)
                      \/ Handles(c)
    BY DEF PendingInv, Handles, Removal, Removes
  <2>1. c # Head(toSrv).ch /\ c \notin unsure
    OBVIOUS
  <2>2. ASSUME NEW i \in DOMAIN toSrv, Joins(toSrv[i], c)
        PROVE  \E k \in DOMAIN toSrv' : Joins(toSrv'[k], c)
    <3>1. i # 1
      BY <2>1, <2>2, <1>1, TailElements DEF Joins
    <3>2. i - 1 \in DOMAIN toSrv' /\ toSrv'[i - 1] = toSrv[i]
      BY <3>1, <1>1, TailElements
    <3> QED
      BY <3>2, <2>2
  <2> QED
    BY <2>1, <2>2 DEF PendingInv
<1> QED
  BY <1>3, <1>4, <1>5, <1>6

-----------------------------------------------------------------------------
\* The handler takes the first signal.
LEMMA ReceiveInv ==
  ASSUME IInv, Receive
  PROVE  IInv'
<1> USE DEF IInv
<1>1. /\ toClt # <<>> /\ toClt \in Seq(Signal) /\ toClt' = Tail(toClt)
      /\ attached /\ cur \in Conns /\ handler[cur].pc = "idle"
      /\ handler' = [handler EXCEPT ![cur] = [pc |-> "got", sig |-> Head(toClt)]]
      /\ DOMAIN handler = Conns
  BY DEF Receive, TypeOK
<1>2. UNCHANGED <<cur, attached, hop, loop, view, requests, clt, subscribers, toSrv, member, ready,
                  modChs, late, unsure>>
  BY DEF Receive, hopVars, cltVars, history
<1>3. /\ Head(toClt) \in Signal /\ Head(toClt) = toClt[1]
      /\ toClt' \in Seq(Signal)
      /\ Len(toClt) \in Nat \ {0} /\ DOMAIN toClt = 1 .. Len(toClt)
      /\ DOMAIN toClt' = 1 .. Len(toClt) - 1
      /\ \A i \in DOMAIN toClt' : toClt'[i] = toClt[i + 1]
  BY <1>1, TailElements
<1>4. handler'[cur].pc = "got" /\ handler'[cur].sig = Head(toClt)
  BY <1>1
<1>5. TypeOK'
  <2>1. handler' \in [Conns -> [pc : {"idle", "got", "send"}, sig : Signal \cup {None}]]
    BY <1>1, <1>3 DEF TypeOK
  <2>2. \A k \in Conns : handler'[k].pc # "idle" => handler'[k].sig \in Signal
    BY <1>1, <1>3 DEF TypeOK
  <2> QED
    BY <1>2, <1>3, <2>1, <2>2 DEF TypeOK
<1>6. HopInv'
  <2>1. \A k \in Conns : k > cur => handler'[k].pc = "idle"
    BY <1>1 DEF HopInv, Conns
  <2> QED
    BY <1>1, <1>2, <2>1 DEF HopInv
<1>7. ASSUME NEW j \in DOMAIN toClt, j # 1
      PROVE  j - 1 \in DOMAIN toClt' /\ toClt'[j - 1] = toClt[j]
  BY <1>3, <1>7
<1>8. OrderInv'
  <2> SUFFICES ASSUME NEW c \in Channels \ member
               PROVE  /\ \A i \in DOMAIN toClt' : Joined(toClt'[i], c)
                           => \E j \in DOMAIN toClt' : j > i /\ Removes(toClt'[j], c)
                      /\ Joined(Head(toClt), c) => Removal(c)'
    BY <1>2, <1>4 DEF OrderInv
  <2>1. \A i \in DOMAIN toClt : Joined(toClt[i], c)
          => \E j \in DOMAIN toClt : j > i /\ Removes(toClt[j], c)
    BY <1>1 DEF OrderInv
  <2>2. ASSUME NEW i \in DOMAIN toClt', Joined(toClt'[i], c)
        PROVE  \E j \in DOMAIN toClt' : j > i /\ Removes(toClt'[j], c)
    <3>1. i + 1 \in DOMAIN toClt /\ Joined(toClt[i + 1], c)
      BY <2>2, <1>3
    <3>2. PICK j \in DOMAIN toClt : j > i + 1 /\ Removes(toClt[j], c)
      BY <2>1, <3>1
    <3>3. j # 1 /\ j - 1 > i
      BY <3>2, <1>3
    <3> QED
      BY <3>2, <3>3, <1>7
  <2>3. ASSUME Joined(Head(toClt), c)
        PROVE  Removal(c)'
    <3>1. 1 \in DOMAIN toClt
      BY <1>3
    <3>2. PICK j \in DOMAIN toClt : j > 1 /\ Removes(toClt[j], c)
      BY <2>1, <2>3, <3>1, <1>3
    <3>3. j - 1 \in DOMAIN toClt' /\ Removes(toClt'[j - 1], c)
      BY <3>2, <1>7
    <3> QED
      BY <3>3 DEF Removal
  <2> QED
    BY <2>2, <2>3
<1>9. ASSUME NEW c, Removal(c)
      PROVE  Removal(c)' \/ Handles(c)'
  <2>1. PICK j \in DOMAIN toClt : Removes(toClt[j], c)
    BY <1>9 DEF Removal
  <2>2. CASE j = 1
    BY <2>1, <2>2, <1>2, <1>3, <1>4 DEF Handles
  <2>3. CASE j # 1
    BY <2>1, <2>3, <1>7 DEF Removal
  <2> QED
    BY <2>2, <2>3
<1>10. PendingInv'
  <2> SUFFICES ASSUME NEW c \in modChs \ (unsure \cup member)
               PROVE  \/ hop = "rejoin" /\ c \in loop.todo \ loop.done
                      \/ \E i \in DOMAIN toSrv : Joins(toSrv[i], c)
                      \/ Removal(c)'
                      \/ Handles(c)'
    BY <1>2 DEF PendingInv
  <2>1. ~Handles(c)
    BY <1>1 DEF Handles
  <2> QED
    BY <2>1, <1>1, <1>9 DEF PendingInv
<1> QED
  BY <1>5, <1>6, <1>8, <1>10

\* The handler records a signal.
LEMMA RecordInv ==
  ASSUME IInv, NEW k \in Conns, Record(k)
  PROVE  IInv'
<1> DEFINE sig == handler[k].sig
<1> USE DEF IInv
<1>1. /\ handler[k].pc = "got" /\ DOMAIN handler = Conns
      /\ \E h \in {NoSignal, [handler[k] EXCEPT !.pc = "send"]} :
           handler' = [handler EXCEPT ![k] = h]
  BY DEF Record, TypeOK
<1>2. UNCHANGED <<cur, attached, hop, loop, view, requests, clt, subscribers, toSrv, toClt,
                  member, ready>>
  BY DEF Record, hopVars, cltVars, srvVars, history
<1>3. sig \in Signal /\ handler[k] \in [pc : {"idle", "got", "send"}, sig : Signal \cup {None}]
  BY <1>1 DEF TypeOK
<1>4. /\ sig.ch \in Channels
      /\ late \subseteq Channels /\ unsure \subseteq Channels /\ modChs \subseteq Channels
  BY <1>3 DEF Signal, TypeOK
<1>5. /\ modChs' = Recorded(sig)
      /\ late' = late \/ late' = late \cup {sig.ch}
      /\ \/ Left(k) /\ unsure' = unsure \cup {sig.ch}
         \/ ~Left(k) /\ Settles(sig) /\ unsure' = unsure \ {sig.ch}
         \/ ~Left(k) /\ ~Settles(sig) /\ unsure' = unsure
  <2>1. /\ modChs' = Recorded(sig) /\ Late(k)
        /\ unsure' = IF Left(k) THEN unsure \cup {sig.ch}
                     ELSE IF Settles(sig) THEN unsure \ {sig.ch}
                     ELSE unsure
    BY Zenon DEF Record
  <2>2. Left(k) \in BOOLEAN /\ Settles(sig) \in BOOLEAN
    BY DEF Left, Settles
  <2> QED
    BY <2>1, <2>2 DEF Late
<1>6. /\ \A c : c \in modChs' => c \in modChs \/ c = sig.ch
      /\ sig.op \in {"joinFail", "leaveOK"} => sig.ch \notin modChs'
      /\ sig.op = "leaveFail" => modChs' = modChs
      /\ sig.op \in {"joinOK", "joinFail", "leaveOK", "leaveFail"}
  BY <1>3, <1>5 DEF Recorded, Signal
<1>7. \A j \in Conns \ {k} : handler'[j] = handler[j]
  BY <1>1
<1>8. handler'[k] \in [pc : {"idle", "got", "send"}, sig : Signal \cup {None}]
      /\ handler'[k].pc # "got"
      /\ (handler'[k].pc # "idle" => handler'[k].sig = sig)
  BY <1>1, <1>3 DEF NoSignal
<1>9. TypeOK'
  <2>1. handler' \in [Conns -> [pc : {"idle", "got", "send"}, sig : Signal \cup {None}]]
    BY <1>1, <1>8 DEF TypeOK
  <2>2. \A j \in Conns : handler'[j].pc # "idle" => handler'[j].sig \in Signal
    BY <1>3, <1>7, <1>8 DEF TypeOK
  <2>3. modChs' \subseteq Channels /\ late' \subseteq Channels /\ unsure' \subseteq Channels
    BY <1>4, <1>5, <1>6
  <2> QED
    BY <1>2, <2>1, <2>2, <2>3 DEF TypeOK
<1>10. HopInv'
  <2>1. ~(k > cur)
    BY <1>1 DEF HopInv
  <2>2. \A j \in Conns : j > cur => handler'[j].pc = "idle"
    BY <2>1, <1>7 DEF HopInv
  <2> QED
    BY <1>2, <2>2 DEF HopInv
<1>11. cur \in Conns
  BY DEF TypeOK
<1>12. OrderInv'
  <2>1. handler'[cur].pc = "got" => handler'[cur] = handler[cur]
    BY <1>7, <1>8, <1>11
  <2> QED
    BY <1>2, <2>1 DEF OrderInv, Removal
<1>13. PendingInv'
  <2> SUFFICES ASSUME attached, NEW c \in modChs' \ (unsure' \cup member)
               PROVE  \/ hop = "rejoin" /\ c \in loop.todo \ loop.done
                      \/ \E i \in DOMAIN toSrv : Joins(toSrv[i], c)
                      \/ Removal(c)
                      \/ Handles(c)'
    BY <1>2 DEF PendingInv, Removal
  <2>1. (c = sig.ch \/ c \notin unsure) /\ (Left(k) => c # sig.ch)
    <3> HIDE DEF sig
    <3> QED
      BY <1>5
  <2>2. CASE c = sig.ch /\ sig.op = "joinOK"
    <3>1. k = cur
      BY <2>1, <2>2, <1>1, <1>11 DEF Left, HopInv, Conns
    <3>2. Joined(handler[cur].sig, c) /\ c \in Channels \ member
      BY <2>2, <3>1, <1>4 DEF Joined
    <3> QED
      BY <3>1, <3>2, <1>1 DEF OrderInv
  <2>3. CASE c # sig.ch \/ sig.op # "joinOK"
    <3>1. c \in modChs /\ c \notin unsure
      <4> HIDE DEF sig
      <4> QED
        BY <2>1, <2>3, <1>5, <1>6 DEF Settles
    <3>2. ASSUME Handles(c)
          PROVE  Handles(c)'
      <4>1. k # cur
        BY <3>2, <1>6 DEF Handles, Removes
      <4> QED
        BY <4>1, <3>2, <1>2, <1>7, <1>11 DEF Handles
    <3> QED
      BY <3>1, <3>2 DEF PendingInv
  <2> QED
    BY <2>2, <2>3
<1> QED
  BY <1>9, <1>10, <1>12, <1>13

\* The handler sends a signal on.
LEMMA PassInv ==
  ASSUME IInv, NEW k \in Conns, Pass(k)
  PROVE  IInv'
<1> DEFINE sig == handler[k].sig
<1> USE DEF IInv
<1>1. /\ handler[k].pc = "send" /\ DOMAIN handler = Conns
      /\ handler' = [handler EXCEPT ![k] = NoSignal]
      /\ cur \in Conns
  BY DEF Pass, TypeOK
<1>2. UNCHANGED <<cur, attached, hop, loop, requests, clt, subscribers, toSrv, toClt, member,
                  ready, modChs, unsure>>
  BY DEF Pass, hopVars, srvVars, history
<1>3. sig \in Signal /\ sig.ch \in Channels
  BY <1>1 DEF TypeOK, Signal
<1>4. late \subseteq late' /\ late' \subseteq Channels
  BY <1>3 DEF Pass, Late, TypeOK
<1>5. view' \in [Channels -> {"none", "init", "ready"}]
  BY <1>3 DEF Pass, Believed, Signal, TypeOK
<1>6. \A j \in Conns \ {k} : handler'[j] = handler[j]
  BY <1>1
<1>7. handler'[k] = NoSignal
  BY <1>1
<1>8. TypeOK'
  <2>1. handler' \in [Conns -> [pc : {"idle", "got", "send"}, sig : Signal \cup {None}]]
    BY <1>1 DEF TypeOK, NoSignal
  <2>2. \A j \in Conns : handler'[j].pc # "idle" => handler'[j].sig \in Signal
    BY <1>6, <1>7 DEF TypeOK, NoSignal
  <2> QED
    BY <1>2, <1>4, <1>5, <2>1, <2>2 DEF TypeOK
<1>9. HopInv'
  BY <1>2, <1>6, <1>7 DEF HopInv, NoSignal
<1>10. OrderInv'
  <2>1. handler'[cur].pc = "got" => handler'[cur] = handler[cur]
    BY <1>1, <1>6, <1>7 DEF NoSignal
  <2> QED
    BY <1>2, <2>1 DEF OrderInv, Removal
<1>11. PendingInv'
  <2>1. \A c : Handles(c) => Handles(c)'
    BY <1>1, <1>2, <1>6 DEF Handles
  <2> QED
    BY <1>2, <1>4, <2>1 DEF PendingInv, Removal
<1> QED
  BY <1>8, <1>9, <1>10, <1>11

-----------------------------------------------------------------------------
\* The connection is left.
LEMMA LeaveInv ==
  ASSUME IInv, Leave
  PROVE  IInv'
<1> USE DEF IInv, Leave, cltVars, history
<1>1. <<>> \in Seq(Message) /\ <<>> \in Seq(Signal)
  BY EmptySeq
<1>2. TypeOK'
  BY <1>1 DEF TypeOK
<1>3. HopInv'
  BY DEF HopInv
<1>4. OrderInv' /\ PendingInv'
  BY DEF OrderInv, PendingInv
<1> QED
  BY <1>2, <1>3, <1>4

\* The next connection is made.
LEMMA ConnectInv ==
  ASSUME IInv, Connect
  PROVE  IInv'
<1> USE DEF IInv
<1>1. /\ hop = "cleared" /\ cur \in Conns /\ ~attached
      /\ cur < MaxConns
      /\ toSrv = <<>> /\ toClt = <<>>
      /\ cur' = cur + 1 /\ attached' = TRUE /\ hop' = "rejoin"
      /\ loop' = [todo |-> modChs, done |-> {}]
      /\ member' = {} /\ unsure' = {}
  BY DEF Connect, HopInv, TypeOK
<1>2. UNCHANGED <<view, requests, clt, subscribers, toSrv, toClt, ready, modChs, handler, late>>
  BY DEF Connect, cltVars, history
<1>3. DOMAIN toClt = {}
  BY <1>1
<1>4. cur' \in Conns /\ handler[cur'].pc = "idle"
  BY ModChanAssumption, <1>1 DEF TypeOK, HopInv, Conns
<1>5. TypeOK'
  BY <1>1, <1>2, <1>4 DEF TypeOK
<1>6. HopInv'
  BY <1>1, <1>2 DEF HopInv, Conns
<1>7. OrderInv'
  BY <1>2, <1>3, <1>4 DEF OrderInv
<1>8. PendingInv'
  BY <1>1, <1>2 DEF PendingInv
<1> QED
  BY <1>5, <1>6, <1>7, <1>8

\* The proxy joins a channel again.
LEMMA RejoinInv ==
  ASSUME IInv, NEW ch \in Channels, Rejoin(ch)
  PROVE  IInv'
<1> USE DEF IInv
<1> DEFINE req == [op |-> "join", ch |-> ch]
<1>1. /\ hop = "rejoin"
      /\ loop' = [loop EXCEPT !.done = @ \cup {ch}]
      /\ toSrv' = Append(toSrv, req)
  BY DEF Rejoin
<1>2. UNCHANGED <<cur, attached, hop, view, requests, clt, subscribers, toClt, member,
                  ready, modChs, handler, late, unsure>>
  BY DEF Rejoin, cltVars, history
<1>3. req \in Message /\ toSrv \in Seq(Message)
  BY DEF Message, TypeOK
<1>4. toSrv' \in Seq(Message)
  BY <1>1, <1>3, AppendElements
<1>5. loop'.todo = loop.todo /\ loop'.done = loop.done \cup {ch}
  BY <1>1 DEF TypeOK
<1>6. TypeOK'
  BY <1>1, <1>2, <1>4 DEF TypeOK
<1>7. HopInv'
  BY <1>1, <1>2 DEF HopInv
<1>8. OrderInv'
  BY <1>2, OrderFrame
<1>9. /\ \A i \in DOMAIN toSrv : i \in DOMAIN toSrv' /\ toSrv'[i] = toSrv[i]
      /\ Len(toSrv) + 1 \in DOMAIN toSrv' /\ toSrv'[Len(toSrv) + 1] = req
  <2> HIDE DEF req
  <2> QED
    BY <1>1, <1>3, AppendElements
<1>10. \E i \in DOMAIN toSrv' : Joins(toSrv'[i], ch)
  BY <1>9 DEF Joins
<1>11. PendingInv'
  BY <1>2, <1>5, <1>9, <1>10 DEF PendingInv, Removal, Removes, Handles
<1> QED
  BY <1>6, <1>7, <1>8, <1>11

\* The loop over the record ends: nothing that is still recorded is left out.
LEMMA EndLoopInv ==
  ASSUME IInv, EndLoop
  PROVE  IInv'
<1> USE DEF IInv, EndLoop, cltVars, srvVars, history
<1>1. TypeOK'
  BY DEF TypeOK, NoLoop
<1>2. HopInv'
  BY DEF HopInv
<1>3. OrderInv'
  BY OrderFrame
<1>4. PendingInv'
  BY DEF PendingInv, Removal, Removes, Handles
<1> QED
  BY <1>1, <1>2, <1>3, <1>4

\* The handshake ends.
LEMMA WelcomeInv ==
  ASSUME IInv, Welcome
  PROVE  IInv'
<1> USE DEF IInv, Welcome, hopVars, cltVars, history
<1>1. TypeOK' /\ HopInv'
  BY DEF TypeOK, HopInv
<1>2. OrderInv' /\ PendingInv'
  BY OrderFrame DEF PendingInv, Removal, Removes, Handles
<1> QED
  BY <1>1, <1>2

\* A step that changes nothing.
LEMMA StutterInv ==
  ASSUME IInv, UNCHANGED vars
  PROVE  IInv'
<1> USE DEF IInv, vars, hopVars, cltVars, srvVars, history
<1>1. TypeOK' /\ HopInv'
  BY DEF TypeOK, HopInv
<1>2. OrderInv' /\ PendingInv'
  BY OrderFrame DEF PendingInv, Removal, Removes, Handles
<1> QED
  BY <1>1, <1>2

-----------------------------------------------------------------------------
\* No reachable state is outside IInv: a channel that is recorded is joined or
\* about to be joined or removed, whatever a hop interrupts.
THEOREM Inductive == Spec => []IInv
<1>1. Init => IInv
  BY InitInv
<1>2. IInv /\ [Next]_vars => IInv'
  <2> SUFFICES ASSUME IInv, [Next]_vars PROVE IInv'
    OBVIOUS
  <2>1. CASE \E ch \in Channels : Request("join", ch) \/ Request("leave", ch) \/ Rejoin(ch)
    BY <2>1, RequestInv, RejoinInv
  <2>2. CASE Forward \/ EndRequest
    BY <2>2, ForwardInv, EndRequestInv
  <2>3. CASE Answer \/ Ignore \/ Welcome
    BY <2>3, AnswerInv, IgnoreInv, WelcomeInv
  <2>4. CASE Receive \/ \E k \in Conns : Record(k) \/ Pass(k)
    BY <2>4, ReceiveInv, RecordInv, PassInv
  <2>5. CASE Leave \/ Connect \/ EndLoop
    BY <2>5, LeaveInv, ConnectInv, EndLoopInv
  <2>6. CASE UNCHANGED vars
    BY <2>6, StutterInv
  <2> QED
    BY <2>1, <2>2, <2>3, <2>4, <2>5, <2>6 DEF Next
<1> QED
  BY <1>1, <1>2, PTL DEF Spec

\* The variables of the mod channels keep their types.
THEOREM TypesHold == Spec => []TypeOK
<1>1. IInv => TypeOK
  BY DEF IInv
<1> QED
  BY <1>1, Inductive, PTL

\* When no request or signal is under way, a channel of modChs that the server has
\* not the client in is one that it ignored a request for before the handshake was
\* over, or that a handler of an old connection recorded, and no answer of the
\* server came since: there is no other way to lose a channel (plugin_modchan.go,
\* process.go of ToCltModChanSig, the loop at the end of HopRaw).
THEOREM Rejoins == Spec => []RejoinedAfterHop
<1>1. IInv => RejoinedAfterHop
  <2> SUFFICES ASSUME IInv, Resting, NEW ch \in modChs \ unsure, ch \notin member
               PROVE  FALSE
    BY DEF RejoinedAfterHop
  <2>1. attached /\ hop = "idle" /\ DOMAIN toSrv = {} /\ DOMAIN toClt = {}
    BY DEF Resting
  <2>2. handler[cur].pc = "idle"
    BY DEF Resting, IInv, TypeOK
  <2> QED
    BY <2>1, <2>2 DEF IInv, PendingInv, Removal, Handles
<1> QED
  BY <1>1, Inductive, PTL

-----------------------------------------------------------------------------
(* What the client believes is recorded *)

\* Where the signals and requests are.
LEMMA Places ==
  ASSUME TypeOK
  PROVE  /\ cur \in Conns /\ cur \in Nat /\ cur # None
         /\ toSrv \in Seq(Message) /\ toClt \in Seq(Signal)
         /\ Len(toSrv) \in Nat /\ DOMAIN toSrv = 1 .. Len(toSrv)
         /\ Len(toClt) \in Nat /\ DOMAIN toClt = 1 .. Len(toClt)
         /\ DOMAIN handler = Conns
<1>1. cur \in Conns /\ toSrv \in Seq(Message) /\ toClt \in Seq(Signal) /\ DOMAIN handler = Conns
  BY DEF TypeOK
<1>2. cur \in Nat /\ cur # None
  BY <1>1, ModChanAssumption DEF Conns
<1> QED
  BY <1>1, <1>2, LenProperties

\* A step that leaves the connection, its signals and the requests alone keeps
\* what is said of them.
LEMMA PlacesFrame ==
  ASSUME UNCHANGED <<cur, toSrv, toClt, handler, modChs>>, NEW ch
  PROVE  /\ Passing(ch)' = Passing(ch) /\ Failing(ch)' = Failing(ch) /\ Got(ch)' = Got(ch)
         /\ NoLeave(ch)' = NoLeave(ch)
         /\ SrvFree(ch, SrvEnd)' = SrvFree(ch, SrvEnd)
         /\ CltFree(ch, CltEnd)' = CltFree(ch, CltEnd)
         /\ NoSuccess(ch, CltEnd)' = NoSuccess(ch, CltEnd)
         /\ AtMostOne(ch, SrvEnd, CltEnd)' = AtMostOne(ch, SrvEnd, CltEnd)
         /\ \A m : SrvFree(ch, m)' = SrvFree(ch, m)
         /\ \A n : NoSuccess(ch, n)' = NoSuccess(ch, n)
         /\ \A m, n : AtMostOne(ch, m, n)' = AtMostOne(ch, m, n)
  BY DEF Passing, Failing, Got, NoLeave, SrvFree, CltFree, NoSuccess, AtMostOne, SrvEnd, CltEnd,
         At, LeaveAsked, LeaveSaid

\* Such a step keeps what is said of a request to leave; one that makes it has to
\* show that nothing else was under way.
LEMMA LeavingFrame ==
  ASSUME UNCHANGED <<cur, toSrv, toClt, handler, modChs, member>>, NEW ch, Leaving(ch),
         Pending("leave", ch)' => NoLeave(ch)' /\ Calm(ch)'
  PROVE  Leaving(ch)'
<1>1. ASSUME NEW m \in DOMAIN toSrv', LeaveAsked(ch, m)'
      PROVE  /\ ~Passing(ch)' /\ ~At("got", Leaves, ch)'
             /\ \A i \in DOMAIN toSrv' : LeaveAsked(ch, i)' => i = m
             /\ \A n \in DOMAIN toClt' : ~LeaveSaid(ch, n)'
             /\ \/ (ch \in member' \/ SrvFree(ch, m)') /\ NoSuccess(ch, CltEnd)'
                \/ AtMostOne(ch, m, CltEnd)'
  <2>1. m \in DOMAIN toSrv /\ LeaveAsked(ch, m)
    BY <1>1 DEF LeaveAsked
  <2> QED
    BY <2>1 DEF Leaving, LeaveAsked, LeaveSaid, Passing, At, SrvFree, NoSuccess, AtMostOne,
                CltEnd, CltFree, Got, Joined, Leaves
<1>2. ASSUME NEW n \in DOMAIN toClt', LeaveSaid(ch, n)'
      PROVE  /\ ~Passing(ch)' /\ ~At("got", Leaves, ch)'
             /\ \A i \in DOMAIN toClt' : LeaveSaid(ch, i)' => i = n
             /\ NoSuccess(ch, n)' \/ AtMostOne(ch, 1, n)'
  <2>1. n \in DOMAIN toClt /\ LeaveSaid(ch, n)
    BY <1>2 DEF LeaveSaid
  <2> QED
    BY <2>1 DEF Leaving, LeaveAsked, LeaveSaid, Passing, At, SrvFree, NoSuccess, AtMostOne,
                CltEnd, CltFree, Got, Joined, Leaves
<1> QED
  BY <1>1, <1>2 DEF Leaving

\* A step that leaves the channels alone keeps what is known of the answers.
LEMMA SuccessFrame ==
  ASSUME SuccessInv, UNCHANGED <<cur, attached, toClt, handler, member>>
  PROVE  SuccessInv'
  BY DEF SuccessInv, At, LeaveSaid

\* The initial state.
LEMMA InitKnown == Init => SuccessInv /\ KnownInv
<1> SUFFICES ASSUME Init PROVE SuccessInv /\ KnownInv
  OBVIOUS
<1>1. 1 \in Conns /\ cur = 1 /\ DOMAIN toClt = {} /\ DOMAIN toSrv = {} /\ handler[cur].pc = "idle"
  BY ModChanAssumption DEF Init, Conns, NoSignal
<1>2. SuccessInv
  BY <1>1 DEF SuccessInv, At
<1>3. \A ch \in Channels : Ready(ch) /\ Leaving(ch) /\ Succeeding(ch)
  BY <1>1 DEF Init, Ready, Leaving, Succeeding, Passing, At, Pending, LeaveAsked, LeaveSaid,
              NoRequest
<1>4. clt.srv = None
  BY DEF Init, NoRequest
<1> QED
  BY <1>2, <1>3, <1>4 DEF KnownInv, Known

\* A client leaves a channel that it is in.
LEMMA RequestKnown ==
  ASSUME KInv, NEW op \in {"join", "leave"}, NEW c \in Channels, Request(op, c)
  PROVE  SuccessInv' /\ KnownInv'
<1> USE DEF KInv, IInv
<1>1. /\ UNCHANGED <<cur, attached, hop, loop, toSrv, toClt, member, modChs, handler, late>>
      /\ clt.pc = "idle"
      /\ view[c] = IF op = "join" THEN "none" ELSE "ready"
      /\ clt' = [pc |-> "read", req |-> [op |-> op, ch |-> c],
                 srv |-> IF hop = "cleared" THEN None ELSE cur]
      /\ view' = [view EXCEPT ![c] = IF op = "join" THEN "init" ELSE "none"]
  BY DEF Request, hopVars, srvVars, history
<1>2. SuccessInv'
  BY <1>1, SuccessFrame
<1>3. clt'.srv # None => clt'.srv <= cur'
  BY <1>1, Places
<1>4. ASSUME NEW ch \in Channels, ~Spoiled(ch)'
      PROVE  Known(ch)'
  <2>1. Known(ch)
    BY <1>1, <1>4 DEF KnownInv, Spoiled, Left
  <2>2. /\ ~Pending("join", ch) /\ ~Pending("leave", ch)
        /\ Pending("join", ch)' => ch = c /\ op = "join"
        /\ Pending("leave", ch)' => ch = c /\ op = "leave"
    BY <1>1 DEF Pending
  <2>3. ~Pending("join", ch)' => Calm(ch)' = Calm(ch)
    BY <1>1, <2>2, PlacesFrame DEF Calm, MayRejoin
  <2>4. Ready(ch)'
    <3>1. view'[ch] = "ready" => view[ch] = "ready" /\ ch # c
      BY <1>1 DEF TypeOK
    <3> QED
      BY <3>1, <2>1, <2>2, <2>3, <1>1, PlacesFrame DEF Known, Ready
  <2>5. ASSUME attached PROVE Leaving(ch)'
    <3>1. Pending("leave", ch)' => NoLeave(ch)' /\ Calm(ch)'
      BY <2>1, <2>2, <2>3, <2>5, <1>1, PlacesFrame DEF Known, Ready
    <3>2. Leaving(ch)
      BY <2>1, <2>5 DEF Known
    <3> QED
      BY <3>1, <3>2, <1>1, LeavingFrame
  <2>6. ASSUME attached PROVE Succeeding(ch)'
    <3>1. op = "leave" /\ ch = c => ~Passing(ch)
      BY <2>1, <2>6, <1>1 DEF Known, Ready, Calm
    <3> QED
      BY <3>1, <2>1, <2>2, <2>6, <1>1, PlacesFrame DEF Known, Succeeding
  <2> QED
    BY <2>4, <2>5, <2>6, <1>1 DEF Known
<1> QED
  BY <1>2, <1>3, <1>4 DEF KnownInv

\* The end of a request.
LEMMA EndRequestKnown ==
  ASSUME KInv, EndRequest
  PROVE  SuccessInv' /\ KnownInv'
<1> USE DEF KInv, IInv
<1>1. /\ UNCHANGED <<cur, attached, hop, loop, toSrv, toClt, member, modChs, handler, late, view>>
      /\ clt' = NoRequest
  BY DEF EndRequest, hopVars, srvVars, history
<1>2. SuccessInv'
  BY <1>1, SuccessFrame
<1>3. clt'.srv = None
  BY <1>1 DEF NoRequest
<1>4. ASSUME NEW ch \in Channels, ~Spoiled(ch)'
      PROVE  Known(ch)'
  <2>1. Known(ch)
    BY <1>1, <1>4 DEF KnownInv, Spoiled, Left
  <2>2. ~Pending("join", ch)' /\ ~Pending("leave", ch)'
    BY <1>1 DEF Pending, NoRequest
  <2>3. Calm(ch) => Calm(ch)'
    BY <1>1, <2>2, PlacesFrame DEF Calm, MayRejoin
  <2>4. Ready(ch)'
    BY <2>1, <2>2, <2>3, <1>1, PlacesFrame DEF Known, Ready
  <2>5. ASSUME attached PROVE Leaving(ch)' /\ Succeeding(ch)'
    BY <2>1, <2>2, <2>5, <1>1, PlacesFrame, LeavingFrame DEF Known, Leaving, Succeeding
  <2> QED
    BY <2>4, <2>5, <1>1 DEF Known
<1> QED
  BY <1>2, <1>3, <1>4 DEF KnownInv

\* The loop ends.
LEMMA EndLoopKnown ==
  ASSUME KInv, EndLoop
  PROVE  SuccessInv' /\ KnownInv'
<1> USE DEF KInv, IInv
<1>1. /\ UNCHANGED <<cur, attached, toSrv, toClt, member, modChs, handler, late, view, clt>>
      /\ hop' = "idle"
  BY DEF EndLoop, cltVars, srvVars, history
<1>2. SuccessInv'
  BY <1>1, SuccessFrame
<1>4. ASSUME NEW ch \in Channels, ~Spoiled(ch)'
      PROVE  Known(ch)'
  <2>1. Known(ch)
    BY <1>1, <1>4 DEF KnownInv, Spoiled, Left
  <2>2. \A op : Pending(op, ch)' = Pending(op, ch)
    BY <1>1 DEF Pending
  <2>3. Calm(ch) => Calm(ch)'
    BY <1>1, <2>2, PlacesFrame DEF Calm, MayRejoin
  <2>4. Ready(ch)'
    BY <2>1, <2>2, <2>3, <1>1, PlacesFrame DEF Known, Ready
  <2>5. ASSUME attached PROVE Leaving(ch)' /\ Succeeding(ch)'
    BY <2>1, <2>2, <2>3, <2>5, <1>1, PlacesFrame, LeavingFrame DEF Known, Leaving, Succeeding
  <2> QED
    BY <2>4, <2>5, <1>1 DEF Known
<1> QED
  BY <1>1, <1>2, <1>4 DEF KnownInv

\* A step that changes nothing the channels are known by.
LEMMA FrameKnown ==
  ASSUME KInv,
         UNCHANGED <<cur, attached, hop, loop, toSrv, toClt, member, modChs, handler, late, view, clt>>
  PROVE  SuccessInv' /\ KnownInv'
<1> USE DEF KInv, IInv
<1>1. UNCHANGED <<cur, attached, hop, loop, toSrv, toClt, member, modChs, handler, late, view, clt>>
  OBVIOUS
<1>2. SuccessInv'
  BY <1>1, SuccessFrame
<1>4. ASSUME NEW ch \in Channels, ~Spoiled(ch)'
      PROVE  Known(ch)'
  <2>1. Known(ch)
    BY <1>1, <1>4 DEF KnownInv, Spoiled, Left
  <2>2. (\A op : Pending(op, ch)' = Pending(op, ch)) /\ Calm(ch)' = Calm(ch)
    BY <1>1, PlacesFrame DEF Pending, Calm, MayRejoin
  <2>4. Ready(ch)'
    BY <2>1, <2>2, <1>1, PlacesFrame DEF Known, Ready
  <2>5. ASSUME attached PROVE Leaving(ch)' /\ Succeeding(ch)'
    BY <2>1, <2>2, <2>5, <1>1, PlacesFrame, LeavingFrame DEF Known, Leaving, Succeeding
  <2> QED
    BY <2>4, <2>5, <1>1 DEF Known
<1> QED
  BY <1>1, <1>2, <1>4 DEF KnownInv

\* The handshake ends.
LEMMA WelcomeKnown ==
  ASSUME KInv, Welcome
  PROVE  SuccessInv' /\ KnownInv'
  BY FrameKnown DEF Welcome, hopVars, cltVars, history

\* A step that changes nothing.
LEMMA StutterKnown ==
  ASSUME KInv, UNCHANGED vars
  PROVE  SuccessInv' /\ KnownInv'
  BY FrameKnown DEF vars, hopVars, cltVars, srvVars, history

\* The connection is left: the signal its handler is at spoils its channel.
LEMMA LeaveKnown ==
  ASSUME KInv, Leave
  PROVE  SuccessInv' /\ KnownInv'
<1> USE DEF KInv, IInv
<1>1. /\ UNCHANGED <<cur, modChs, handler, late, view, clt>>
      /\ attached' = FALSE
  BY DEF Leave, cltVars, history
<1>2. SuccessInv'
  BY <1>1 DEF SuccessInv
<1>3. ASSUME NEW ch \in Channels, ~Spoiled(ch)'
      PROVE  Known(ch)'
  <2>1. Known(ch)
    BY <1>1, <1>3 DEF KnownInv, Spoiled, Left
  <2>2. ~Failing(ch)
    BY <1>1, <1>3, Places DEF Failing, At, Spoiled, Left
  <2> QED
    BY <2>1, <2>2, <1>1 DEF Known, Ready
<1> QED
  BY <1>1, <1>2, <1>3 DEF KnownInv

\* A new connection knows nothing of any channel.
LEMMA ConnectKnown ==
  ASSUME KInv, Connect
  PROVE  SuccessInv' /\ KnownInv'
<1> USE DEF KInv, IInv
<1>1. /\ UNCHANGED <<toSrv, toClt, modChs, handler, late, view, clt>>
      /\ ~attached /\ attached' = TRUE /\ cur' = cur + 1
      /\ loop'.done = {}
      /\ toSrv = <<>> /\ toClt = <<>>
  BY DEF Connect, cltVars, history, HopInv
<1>2. /\ DOMAIN toSrv' = {} /\ DOMAIN toClt' = {} /\ handler'[cur'].pc = "idle"
      /\ cur' \in Conns /\ cur \in Nat
  BY <1>1, Places, ModChanAssumption DEF Connect, HopInv, Conns
<1>3. SuccessInv'
  BY <1>2 DEF SuccessInv, At
<1>4. clt'.srv # None => clt'.srv <= cur' /\ clt'.srv # cur'
  <2>1. clt.srv # None => clt.srv \in Nat /\ clt.srv <= cur
    BY DEF TypeOK, KnownInv, Conns
  <2> QED
    BY <2>1, <1>1, <1>2
<1>5. clt'.srv # cur'
  BY <1>2, <1>4, ModChanAssumption DEF Conns
<1>6. ASSUME NEW ch \in Channels, ~Spoiled(ch)'
      PROVE  Known(ch)'
  <2>1. ~Spoiled(ch)
    <3>1. \A k \in Conns : handler[k].pc # "idle" => k < cur'
      BY <1>1, <1>2 DEF HopInv, Conns
    <3> QED
      BY <3>1, <1>1, <1>6 DEF Spoiled, Left
  <2>2. ~Failing(ch)
    BY <2>1, <1>1, Places DEF Failing, At, Spoiled, Left
  <2>3. Ready(ch)
    BY <2>1 DEF KnownInv, Known
  <2>4. NoLeave(ch)' /\ ~Pending("leave", ch)' /\ ~Pending("join", ch)' /\ ~Passing(ch)'
    BY <1>2, <1>5 DEF NoLeave, LeaveAsked, LeaveSaid, Pending, Passing, At
  <2>5. Calm(ch)'
    BY <1>2, <2>4 DEF Calm, AtMostOne, SrvFree, CltFree, Got
  <2>6. Leaving(ch)'
    BY <1>2, <2>4 DEF Leaving, LeaveAsked, LeaveSaid
  <2> QED
    BY <2>2, <2>3, <2>4, <2>5, <2>6, <1>1 DEF Known, Ready, Succeeding
<1> QED
  BY <1>3, <1>4, <1>6 DEF KnownInv

-----------------------------------------------------------------------------
\* A request that comes behind the others is not among the first ones.
LEMMA SrvGrows ==
  ASSUME TypeOK, NEW e \in Message, toSrv' = Append(toSrv, e),
         UNCHANGED <<cur, toClt, handler, modChs>>, NEW ch
  PROVE  /\ SrvEnd \in Nat \ {0} /\ DOMAIN toSrv' = 1 .. SrvEnd /\ toSrv'[SrvEnd] = e
         /\ \A i \in DOMAIN toSrv : i \in DOMAIN toSrv' /\ toSrv'[i] = toSrv[i]
         /\ \A i \in DOMAIN toSrv' : i \in DOMAIN toSrv \/ i = SrvEnd
         /\ \A m \in 1 .. SrvEnd : SrvFree(ch, m) => SrvFree(ch, m)'
         /\ \A m \in 1 .. SrvEnd : \A n : AtMostOne(ch, m, n) => AtMostOne(ch, m, n)'
         /\ \A n : NoSuccess(ch, n) => NoSuccess(ch, n)'
<1>1. /\ SrvEnd \in Nat \ {0} /\ DOMAIN toSrv' = 1 .. SrvEnd /\ toSrv'[SrvEnd] = e
      /\ DOMAIN toSrv = 1 .. Len(toSrv) /\ Len(toSrv) \in Nat
      /\ \A i \in DOMAIN toSrv : toSrv'[i] = toSrv[i]
  BY Places, AppendElements DEF SrvEnd
<1>2. /\ \A i \in DOMAIN toSrv : i \in DOMAIN toSrv' /\ toSrv'[i] = toSrv[i]
      /\ \A i \in DOMAIN toSrv' : i \in DOMAIN toSrv \/ i = SrvEnd
  BY <1>1 DEF SrvEnd
<1>3. ASSUME NEW m \in 1 .. SrvEnd, NEW i \in DOMAIN toSrv', i < m
      PROVE  i \in DOMAIN toSrv /\ toSrv'[i] = toSrv[i]
  BY <1>1, <1>3 DEF SrvEnd
<1>4. \A m \in 1 .. SrvEnd : SrvFree(ch, m) => SrvFree(ch, m)'
  BY <1>3 DEF SrvFree
<1>5. \A m \in 1 .. SrvEnd : \A n : AtMostOne(ch, m, n) => AtMostOne(ch, m, n)'
  BY <1>3, <1>4 DEF AtMostOne, CltFree, Got
<1>6. \A n : NoSuccess(ch, n) => NoSuccess(ch, n)'
  BY DEF NoSuccess, At, Joined
<1> QED
  BY <1>1, <1>2, <1>4, <1>5, <1>6

\* A request about another channel leaves the requests about this one alone.
LEMMA SrvGrowsElse ==
  ASSUME TypeOK, NEW e \in Message, toSrv' = Append(toSrv, e),
         UNCHANGED <<cur, toClt, handler, modChs>>, NEW ch, e.ch # ch
  PROVE  /\ SrvFree(ch, SrvEnd) => SrvFree(ch, SrvEnd)'
         /\ AtMostOne(ch, SrvEnd, CltEnd) => AtMostOne(ch, SrvEnd, CltEnd)'
<1>1. /\ DOMAIN toSrv' = 1 .. SrvEnd /\ toSrv'[SrvEnd] = e
      /\ DOMAIN toSrv = 1 .. Len(toSrv) /\ Len(toSrv) \in Nat
      /\ \A i \in DOMAIN toSrv' : i \in DOMAIN toSrv \/ i = SrvEnd
      /\ \A i \in DOMAIN toSrv : toSrv'[i] = toSrv[i]
  BY Places, SrvGrows
<1>2. ASSUME NEW i \in DOMAIN toSrv', toSrv'[i].ch = ch
      PROVE  i \in DOMAIN toSrv /\ toSrv[i].ch = ch /\ i < SrvEnd
  BY <1>1, <1>2 DEF SrvEnd
<1>3. SrvFree(ch, SrvEnd) => SrvFree(ch, SrvEnd)'
  BY <1>2 DEF SrvFree
<1>4. CltFree(ch, CltEnd)' = CltFree(ch, CltEnd) /\ Got(ch)' = Got(ch)
  BY DEF CltFree, CltEnd, Got
<1>5. AtMostOne(ch, SrvEnd, CltEnd) => AtMostOne(ch, SrvEnd, CltEnd)'
  BY <1>2, <1>3, <1>4 DEF AtMostOne, CltEnd
<1> QED
  BY <1>3, <1>5

\* The first request about a recorded channel of which no signal is under way.
LEMMA SrvGrowsFirst ==
  ASSUME TypeOK, NEW e \in Message, toSrv' = Append(toSrv, e),
         UNCHANGED <<cur, toClt, handler, modChs>>, NEW ch \in modChs,
         SrvFree(ch, SrvEnd), CltFree(ch, CltEnd), ~Got(ch)
  PROVE  AtMostOne(ch, SrvEnd, CltEnd)'
<1>1. /\ DOMAIN toSrv = 1 .. Len(toSrv) /\ Len(toSrv) \in Nat
      /\ \A i \in DOMAIN toSrv' : i \in DOMAIN toSrv \/ i = SrvEnd
      /\ \A i \in DOMAIN toSrv : toSrv'[i] = toSrv[i]
  BY Places, SrvGrows
<1>2. ASSUME NEW i \in DOMAIN toSrv', toSrv'[i].ch = ch
      PROVE  i = SrvEnd
  BY <1>1, <1>2 DEF SrvEnd, SrvFree
<1>3. CltFree(ch, CltEnd)' /\ ~Got(ch)'
  BY DEF CltFree, CltEnd, Got
<1>4. \A i \in DOMAIN toClt' : i < CltEnd' => toClt'[i].ch # ch
  BY <1>3 DEF CltFree
<1> QED
  BY <1>2, <1>3, <1>4 DEF AtMostOne

\* A request that does not leave the channel is behind those that do.
LEMMA LeavingGrows ==
  ASSUME TypeOK, NEW e \in Message, toSrv' = Append(toSrv, e),
         UNCHANGED <<cur, toClt, handler, modChs, member>>, NEW ch,
         ~(e.op = "leave" /\ e.ch = ch), Leaving(ch),
         Pending("leave", ch)' => NoLeave(ch)' /\ Calm(ch)'
  PROVE  Leaving(ch)'
<1>1. /\ SrvEnd \in Nat \ {0} /\ DOMAIN toSrv' = 1 .. SrvEnd /\ toSrv'[SrvEnd] = e
      /\ \A i \in DOMAIN toSrv : i \in DOMAIN toSrv' /\ toSrv'[i] = toSrv[i]
      /\ \A i \in DOMAIN toSrv' : i \in DOMAIN toSrv \/ i = SrvEnd
      /\ \A m \in 1 .. SrvEnd : SrvFree(ch, m) => SrvFree(ch, m)'
      /\ \A m \in 1 .. SrvEnd : \A n : AtMostOne(ch, m, n) => AtMostOne(ch, m, n)'
      /\ \A n : NoSuccess(ch, n) => NoSuccess(ch, n)'
  BY SrvGrows
<1>2. /\ Passing(ch)' = Passing(ch)
      /\ NoSuccess(ch, CltEnd)' = NoSuccess(ch, CltEnd)
      /\ CltEnd' = CltEnd
      /\ \A n : LeaveSaid(ch, n)' = LeaveSaid(ch, n)
      /\ At("got", Leaves, ch)' = At("got", Leaves, ch)
  BY DEF Passing, CltEnd, NoSuccess, At, Joined, LeaveSaid
<1>3. \A m \in DOMAIN toSrv' : LeaveAsked(ch, m)' => m \in DOMAIN toSrv /\ LeaveAsked(ch, m)
  BY <1>1 DEF LeaveAsked
<1>5. ASSUME NEW m \in DOMAIN toSrv', LeaveAsked(ch, m)'
      PROVE  /\ ~Passing(ch)' /\ ~At("got", Leaves, ch)'
             /\ \A i \in DOMAIN toSrv' : LeaveAsked(ch, i)' => i = m
             /\ \A n \in DOMAIN toClt' : ~LeaveSaid(ch, n)'
             /\ \/ (ch \in member' \/ SrvFree(ch, m)') /\ NoSuccess(ch, CltEnd)'
                \/ AtMostOne(ch, m, CltEnd)'
  <2>1. m \in DOMAIN toSrv /\ LeaveAsked(ch, m) /\ m \in 1 .. SrvEnd
    BY <1>1, <1>3, <1>5
  <2>2. AtMostOne(ch, m, CltEnd) => AtMostOne(ch, m, CltEnd)'
    BY <2>1, <1>1, <1>2 DEF AtMostOne
  <2> QED
    BY <2>1, <2>2, <1>1, <1>2, <1>3 DEF Leaving
<1>6. ASSUME NEW n \in DOMAIN toClt', LeaveSaid(ch, n)'
      PROVE  /\ ~Passing(ch)' /\ ~At("got", Leaves, ch)'
             /\ \A i \in DOMAIN toClt' : LeaveSaid(ch, i)' => i = n
             /\ NoSuccess(ch, n)' \/ AtMostOne(ch, 1, n)'
  <2>1. n \in DOMAIN toClt /\ LeaveSaid(ch, n) /\ 1 \in 1 .. SrvEnd
    BY <1>1, <1>2, <1>6
  <2> QED
    BY <2>1, <1>1, <1>2 DEF Leaving
<1> QED
  BY <1>5, <1>6 DEF Leaving

\* A request is forwarded: one to leave is behind everything that is under way.
LEMMA ForwardKnown ==
  ASSUME KInv, Forward
  PROVE  SuccessInv' /\ KnownInv'
<1> USE DEF KInv, IInv
<1> DEFINE req == clt.req
<1>1. /\ UNCHANGED <<cur, attached, hop, loop, toClt, member, modChs, handler, late, view>>
      /\ clt.pc = "read" /\ clt'.pc = "sent" /\ clt'.srv = clt.srv
      /\ req \in Message
      /\ toSrv' = IF clt.srv = cur /\ attached THEN Append(toSrv, req) ELSE toSrv
  BY DEF Forward, hopVars, history, TypeOK
<1>2. SuccessInv'
  BY <1>1, SuccessFrame
<1>4. ASSUME NEW ch \in Channels, ~Spoiled(ch)'
      PROVE  Known(ch)'
  <2>1. Known(ch)
    BY <1>1, <1>4 DEF KnownInv, Spoiled, Left
  <2>2. \A op : ~Pending(op, ch)'
    BY <1>1 DEF Pending
  <2>3. CASE ~(clt.srv = cur /\ attached)
    <3>0. UNCHANGED <<cur, attached, hop, loop, toSrv, toClt, member, modChs, handler, late, view>>
      BY <1>1, <2>3
    <3>1. Calm(ch) => Calm(ch)'
      BY <3>0, <2>2, PlacesFrame DEF Calm, MayRejoin
    <3>2. Ready(ch)'
      BY <2>1, <2>2, <3>0, <3>1, PlacesFrame DEF Known, Ready
    <3>3. ASSUME attached PROVE Leaving(ch)' /\ Succeeding(ch)'
      BY <2>1, <2>2, <3>0, <3>3, PlacesFrame, LeavingFrame DEF Known, Leaving, Succeeding
    <3> QED
      BY <3>0, <3>2, <3>3 DEF Known
  <2>4. CASE clt.srv = cur /\ attached
    <3>0. toSrv' = Append(toSrv, req) /\ Ready(ch) /\ Leaving(ch) /\ Succeeding(ch)
      BY <1>1, <2>1, <2>4 DEF Known
    <3>1. /\ SrvEnd \in Nat \ {0} /\ DOMAIN toSrv' = 1 .. SrvEnd /\ toSrv'[SrvEnd] = req
          /\ \A i \in DOMAIN toSrv : i \in DOMAIN toSrv' /\ toSrv'[i] = toSrv[i]
          /\ \A i \in DOMAIN toSrv' : i \in DOMAIN toSrv \/ i = SrvEnd
          /\ \A m \in 1 .. SrvEnd : SrvFree(ch, m) => SrvFree(ch, m)'
          /\ \A m \in 1 .. SrvEnd : \A n : AtMostOne(ch, m, n) => AtMostOne(ch, m, n)'
          /\ \A n : NoSuccess(ch, n) => NoSuccess(ch, n)'
      BY <1>1, <3>0, SrvGrows
    <3>2. req.ch # ch => /\ SrvFree(ch, SrvEnd) => SrvFree(ch, SrvEnd)'
                         /\ AtMostOne(ch, SrvEnd, CltEnd) => AtMostOne(ch, SrvEnd, CltEnd)'
      BY <1>1, <3>0, SrvGrowsElse
    <3>3. req.op = "join" \/ req.op = "leave"
      BY <1>1 DEF Message
    <3>4. Pending(req.op, req.ch)
      BY <1>1, <2>4 DEF Pending
    <3>5. /\ Passing(ch)' = Passing(ch) /\ Failing(ch)' = Failing(ch) /\ Got(ch)' = Got(ch)
          /\ CltFree(ch, CltEnd)' = CltFree(ch, CltEnd)
          /\ NoSuccess(ch, CltEnd)' = NoSuccess(ch, CltEnd)
          /\ CltEnd' = CltEnd
          /\ \A n : LeaveSaid(ch, n)' = LeaveSaid(ch, n)
          /\ At("got", Leaves, ch)' = At("got", Leaves, ch)
      BY <1>1 DEF Passing, Failing, Got, CltFree, CltEnd, NoSuccess, At, Joined, LeaveSaid
    <3>6. ASSUME ~(req.op = "leave" /\ req.ch = ch)
          PROVE  /\ NoLeave(ch) => NoLeave(ch)'
                 /\ Calm(ch) => Calm(ch)'
                 /\ \A m \in DOMAIN toSrv' : LeaveAsked(ch, m)' => m \in DOMAIN toSrv /\ LeaveAsked(ch, m)
      <4>1. \A m \in DOMAIN toSrv' : LeaveAsked(ch, m)' => m \in DOMAIN toSrv /\ LeaveAsked(ch, m)
        BY <3>1, <3>6 DEF LeaveAsked
      <4>2. NoLeave(ch) => NoLeave(ch)'
        BY <4>1, <3>5, <1>1 DEF NoLeave
      <4>3. Calm(ch) => Calm(ch)'
        <5>1. CASE req.ch = ch
          BY <5>1, <3>3, <3>4, <3>5, <3>6, <1>1 DEF Calm
        <5>2. CASE req.ch # ch
          BY <5>2, <2>2, <3>2, <3>5, <1>1 DEF Calm, MayRejoin
        <5> QED
          BY <5>1, <5>2
      <4> QED
        BY <4>1, <4>2, <4>3
    <3>7. CASE ~(req.op = "leave" /\ req.ch = ch)
      <4>1. Ready(ch)'
        BY <1>1, <2>2, <3>0, <3>5, <3>6, <3>7, <2>4 DEF Ready
      <4>2. Leaving(ch)'
        BY <3>0, <3>7, <2>2, <1>1, LeavingGrows
      <4>3. Succeeding(ch)'
        BY <3>0, <3>5, <3>6, <3>7, <2>2, <1>1 DEF Succeeding
      <4> QED
        BY <4>1, <4>2, <4>3 DEF Known
    <3>8. CASE req.op = "leave" /\ req.ch = ch
      <4>1. Pending("leave", ch) /\ NoLeave(ch) /\ Calm(ch)
        BY <3>0, <3>4, <3>8 DEF Leaving
      <4>2. Ready(ch)'
        BY <4>1, <3>0, <2>4, <1>1 DEF Ready
      <4>3. ~Passing(ch)' /\ ~At("got", Leaves, ch)'
        BY <4>1, <3>5 DEF Calm, NoLeave
      <4>4. \A n \in DOMAIN toClt' : ~LeaveSaid(ch, n)'
        BY <4>1, <3>5, <1>1 DEF NoLeave
      <4>5. \A i \in DOMAIN toSrv' : LeaveAsked(ch, i)' => i = SrvEnd
        BY <4>1, <3>1 DEF NoLeave, LeaveAsked
      <4>6. \/ ch \in member' /\ NoSuccess(ch, CltEnd)'
            \/ AtMostOne(ch, SrvEnd, CltEnd) /\ SrvEnd \in 1 .. SrvEnd
        BY <4>1, <3>1, <3>5, <1>1 DEF Calm
      <4>7. \A n : n = CltEnd => (AtMostOne(ch, SrvEnd, CltEnd) => \A m : m = SrvEnd => AtMostOne(ch, m, n)')
        BY <3>1
      <4>8. Leaving(ch)'
        <5>1. ASSUME NEW m \in DOMAIN toSrv', LeaveAsked(ch, m)'
              PROVE  \/ (ch \in member' \/ SrvFree(ch, m)') /\ NoSuccess(ch, CltEnd)'
                     \/ AtMostOne(ch, m, CltEnd)'
          <6>1. m = SrvEnd
            BY <5>1, <4>5
          <6>2. AtMostOne(ch, SrvEnd, CltEnd) => AtMostOne(ch, m, CltEnd)'
            BY <6>1, <4>7, <3>5 DEF AtMostOne
          <6> QED
            BY <6>2, <4>6
        <5> QED
          BY <5>1, <4>3, <4>4, <4>5, <2>2 DEF Leaving
      <4> QED
        BY <4>2, <4>3, <4>8 DEF Known, Succeeding
    <3> QED
      BY <3>7, <3>8
  <2> QED
    BY <2>3, <2>4
<1> QED
  BY <1>1, <1>2, <1>4 DEF KnownInv

\* The loop produces a recorded channel once, and only channels of which
\* nothing else is under way that is not known to be joined.
LEMMA RejoinKnown ==
  ASSUME KInv, NEW c \in Channels, Rejoin(c)
  PROVE  SuccessInv' /\ KnownInv'
<1> USE DEF KInv, IInv
<1>0. PICK e \in Message : e = [op |-> "join", ch |-> c]
  BY DEF Message
<1>1. /\ UNCHANGED <<cur, attached, hop, toClt, member, modChs, handler, late, view, clt>>
      /\ hop = "rejoin" /\ c \in modChs /\ c \notin loop.done
      /\ loop'.done = loop.done \cup {c}
      /\ toSrv' = Append(toSrv, e)
      /\ e.op = "join" /\ e.ch = c
  BY <1>0 DEF Rejoin, cltVars, history, TypeOK
<1>2. SuccessInv'
  BY <1>1, SuccessFrame
<1>3. ASSUME NEW ch \in Channels, ~Spoiled(ch)'
      PROVE  Known(ch)'
  <2>1. attached /\ Ready(ch) /\ Leaving(ch) /\ Succeeding(ch)
    BY <1>1, <1>3 DEF KnownInv, Known, Spoiled, Left, HopInv
  <2>2. \A op : Pending(op, ch)' = Pending(op, ch)
    BY <1>1 DEF Pending
  <2>3. /\ Passing(ch)' = Passing(ch) /\ Failing(ch)' = Failing(ch) /\ Got(ch)' = Got(ch)
        /\ CltFree(ch, CltEnd)' = CltFree(ch, CltEnd)
        /\ NoSuccess(ch, CltEnd)' = NoSuccess(ch, CltEnd)
    BY <1>1 DEF Passing, Failing, Got, CltFree, CltEnd, NoSuccess, At, Joined
  <2>4. Calm(ch) => Calm(ch)'
    <3>1. CASE ch = c
      <4>1. SrvFree(ch, SrvEnd) /\ CltFree(ch, CltEnd) /\ ~Got(ch) => AtMostOne(ch, SrvEnd, CltEnd)'
        BY <1>1, <3>1, SrvGrowsFirst
      <4> QED
        BY <4>1, <3>1, <2>2, <2>3, <1>1 DEF Calm, MayRejoin
    <3>2. CASE ch # c
      <4>1. /\ SrvFree(ch, SrvEnd) => SrvFree(ch, SrvEnd)'
            /\ AtMostOne(ch, SrvEnd, CltEnd) => AtMostOne(ch, SrvEnd, CltEnd)'
        BY <1>1, <3>2, SrvGrowsElse
      <4> QED
        BY <4>1, <3>2, <2>2, <2>3, <1>1 DEF Calm, MayRejoin
    <3> QED
      BY <3>1, <3>2
  <2>5. NoLeave(ch) => NoLeave(ch)'
    <3>1. /\ \A i \in DOMAIN toSrv' : i \in DOMAIN toSrv \/ i = SrvEnd
          /\ \A i \in DOMAIN toSrv : toSrv'[i] = toSrv[i]
          /\ toSrv'[SrvEnd] = e
      BY <1>1, SrvGrows
    <3> QED
      BY <3>1, <1>1 DEF NoLeave, LeaveAsked, LeaveSaid, At
  <2>6. Leaving(ch)'
    BY <1>1, <2>1, <2>2, <2>4, <2>5, LeavingGrows DEF Leaving
  <2>7. Ready(ch)' /\ Succeeding(ch)'
    BY <1>1, <2>1, <2>2, <2>3, <2>4, <2>5 DEF Ready, Succeeding
  <2> QED
    BY <2>6, <2>7 DEF Known
<1> QED
  BY <1>1, <1>2, <1>3 DEF KnownInv

-----------------------------------------------------------------------------
\* A request that the server takes.
LEMMA SrvShrinks ==
  ASSUME TypeOK, toSrv # <<>>, toSrv' = Tail(toSrv), NEW ch
  PROVE  /\ 1 \in DOMAIN toSrv /\ toSrv[1] = Head(toSrv) /\ toSrv[1] \in Message
         /\ SrvEnd \in Nat /\ SrvEnd' = SrvEnd - 1 /\ SrvEnd > 1
         /\ \A i \in DOMAIN toSrv' : /\ i \in Nat \ {0} /\ i + 1 \in DOMAIN toSrv
                                     /\ toSrv'[i] = toSrv[i + 1]
         /\ \A i \in DOMAIN toSrv : i = 1 \/ (i - 1 \in DOMAIN toSrv' /\ toSrv'[i - 1] = toSrv[i])
         /\ \A m : LeaveAsked(ch, m)' => LeaveAsked(ch, m + 1) /\ m \in Nat \ {0}
         /\ \A m \in Nat : SrvFree(ch, m + 1) => SrvFree(ch, m)'
         /\ SrvFree(ch, SrvEnd) => SrvFree(ch, SrvEnd)' /\ toSrv[1].ch # ch
<1>1. /\ Len(toSrv) \in Nat \ {0} /\ toSrv[1] = Head(toSrv) /\ toSrv[1] \in Message
      /\ DOMAIN toSrv = 1 .. Len(toSrv) /\ DOMAIN toSrv' = 1 .. Len(toSrv) - 1
      /\ \A i \in DOMAIN toSrv' : toSrv'[i] = toSrv[i + 1]
      /\ toSrv' \in Seq(Message)
  BY Places, TailElements
<1>2. Len(toSrv') = Len(toSrv) - 1
  BY Places, HeadTailProperties
<1>3. \A i \in DOMAIN toSrv' : /\ i \in Nat \ {0} /\ i + 1 \in DOMAIN toSrv
                               /\ toSrv'[i] = toSrv[i + 1]
  BY <1>1
<1>4. \A i \in DOMAIN toSrv : i = 1 \/ (i - 1 \in DOMAIN toSrv' /\ toSrv'[i - 1] = toSrv[i])
  BY <1>1
<1>5. \A m : LeaveAsked(ch, m)' => LeaveAsked(ch, m + 1) /\ m \in Nat \ {0}
  BY <1>3 DEF LeaveAsked
<1>6. \A m \in Nat : SrvFree(ch, m + 1) => SrvFree(ch, m)'
  BY <1>3 DEF SrvFree
<1>7. SrvFree(ch, SrvEnd) => SrvFree(ch, SrvEnd)' /\ toSrv[1].ch # ch
  <2> SUFFICES ASSUME SrvFree(ch, SrvEnd) PROVE SrvFree(ch, SrvEnd)' /\ toSrv[1].ch # ch
    OBVIOUS
  <2>1. \A i \in DOMAIN toSrv : toSrv[i].ch # ch
    BY <1>1 DEF SrvFree, SrvEnd
  <2> QED
    BY <2>1, <1>1, <1>3 DEF SrvFree
<1> QED
  BY <1>1, <1>2, <1>3, <1>4, <1>5, <1>6, <1>7 DEF SrvEnd

\* A request that is ignored.
LEMMA IgnoreKnown ==
  ASSUME KInv, Ignore
  PROVE  SuccessInv' /\ KnownInv'
<1> USE DEF KInv, IInv
<1>1. /\ UNCHANGED <<cur, attached, hop, loop, toClt, member, modChs, handler, late, view, clt>>
      /\ toSrv # <<>> /\ toSrv' = Tail(toSrv)
  BY DEF Ignore, hopVars, cltVars, history
<1>2. SuccessInv'
  BY <1>1, SuccessFrame
<1>3. ASSUME NEW ch \in Channels, ~Spoiled(ch)'
      PROVE  Known(ch)'
  <2>1. Ready(ch) /\ Leaving(ch) /\ Succeeding(ch)
    BY <1>1, <1>3 DEF KnownInv, Known, Spoiled, Left, HopInv
  <2>2. \A op : Pending(op, ch)' = Pending(op, ch)
    BY <1>1 DEF Pending
  <2>3. /\ Passing(ch)' = Passing(ch) /\ Failing(ch)' = Failing(ch) /\ Got(ch)' = Got(ch)
        /\ CltFree(ch, CltEnd)' = CltFree(ch, CltEnd)
        /\ NoSuccess(ch, CltEnd)' = NoSuccess(ch, CltEnd)
        /\ CltEnd' = CltEnd
        /\ \A n : LeaveSaid(ch, n)' = LeaveSaid(ch, n)
        /\ \A n : CltFree(ch, n)' = CltFree(ch, n)
        /\ \A n : NoSuccess(ch, n)' = NoSuccess(ch, n)
        /\ At("got", Leaves, ch)' = At("got", Leaves, ch)
    BY <1>1 DEF Passing, Failing, Got, CltFree, CltEnd, NoSuccess, At, Joined, LeaveSaid
  <2>4. /\ SrvEnd \in Nat /\ SrvEnd' = SrvEnd - 1 /\ SrvEnd > 1
        /\ \A i \in DOMAIN toSrv' : /\ i \in Nat \ {0} /\ i + 1 \in DOMAIN toSrv
                                    /\ toSrv'[i] = toSrv[i + 1]
        /\ \A m : LeaveAsked(ch, m)' => LeaveAsked(ch, m + 1) /\ m \in Nat \ {0}
        /\ \A m \in Nat : SrvFree(ch, m + 1) => SrvFree(ch, m)'
        /\ SrvFree(ch, SrvEnd) => SrvFree(ch, SrvEnd)'
    BY <1>1, SrvShrinks
  <2>5. \A m \in Nat : \A n : AtMostOne(ch, m + 1, n) => AtMostOne(ch, m, n)'
    BY <1>1, <2>3, <2>4 DEF AtMostOne
  <2>6. AtMostOne(ch, SrvEnd, CltEnd) => AtMostOne(ch, SrvEnd, CltEnd)'
    <3>1. \A m \in Nat : \A n : m + 1 = SrvEnd /\ n = CltEnd =>
            (AtMostOne(ch, SrvEnd, CltEnd) => AtMostOne(ch, m, n)')
      BY <2>5
    <3>2. SrvEnd' \in Nat /\ SrvEnd' + 1 = SrvEnd
      BY <2>4
    <3> QED
      BY <3>1, <3>2, <2>3 DEF AtMostOne, SrvFree, CltFree
  <2>7. (Calm(ch) => Calm(ch)') /\ (NoLeave(ch) => NoLeave(ch)')
    <3>1. NoLeave(ch) => NoLeave(ch)'
      BY <1>1, <2>3, <2>4 DEF NoLeave, LeaveAsked
    <3> QED
      BY <3>1, <1>1, <2>2, <2>3, <2>4, <2>6 DEF Calm, MayRejoin
  <2>8. Leaving(ch)'
    <3>1. ASSUME NEW m \in DOMAIN toSrv', LeaveAsked(ch, m)'
          PROVE  /\ ~Passing(ch)' /\ ~At("got", Leaves, ch)'
                 /\ \A i \in DOMAIN toSrv' : LeaveAsked(ch, i)' => i = m
                 /\ \A n \in DOMAIN toClt' : ~LeaveSaid(ch, n)'
                 /\ \/ (ch \in member' \/ SrvFree(ch, m)') /\ NoSuccess(ch, CltEnd)'
                    \/ AtMostOne(ch, m, CltEnd)'
      <4>1. m \in Nat /\ m + 1 \in DOMAIN toSrv /\ LeaveAsked(ch, m + 1)
        BY <3>1, <2>4
      <4>2. AtMostOne(ch, m + 1, CltEnd) => AtMostOne(ch, m, CltEnd)'
        <5>1. \A n : n = CltEnd => (AtMostOne(ch, m + 1, CltEnd) => AtMostOne(ch, m, n)')
          BY <4>1, <2>5
        <5> QED
          BY <5>1, <2>3 DEF AtMostOne
      <4>3. \A i \in DOMAIN toSrv' : LeaveAsked(ch, i)' => i = m
        <5>1. ASSUME NEW i \in DOMAIN toSrv', LeaveAsked(ch, i)' PROVE i = m
          <6>1. i + 1 \in DOMAIN toSrv /\ LeaveAsked(ch, i + 1) /\ i \in Nat
            BY <5>1, <2>4
          <6>2. i + 1 = m + 1
            BY <6>1, <4>1, <2>1 DEF Leaving
          <6> QED
            BY <6>1, <6>2, <4>1
        <5> QED
          BY <5>1
      <4> QED
        BY <4>1, <4>2, <4>3, <2>1, <2>3, <2>4, <1>1 DEF Leaving
    <3>2. ASSUME NEW n \in DOMAIN toClt', LeaveSaid(ch, n)'
          PROVE  /\ ~Passing(ch)' /\ ~At("got", Leaves, ch)'
                 /\ \A i \in DOMAIN toClt' : LeaveSaid(ch, i)' => i = n
                 /\ NoSuccess(ch, n)' \/ AtMostOne(ch, 1, n)'
      <4>1. n \in DOMAIN toClt /\ LeaveSaid(ch, n)
        BY <3>2, <2>3, <1>1
      <4>2. AtMostOne(ch, 1, n) => AtMostOne(ch, 1, n)'
        BY <2>3, <2>4, <1>1 DEF AtMostOne, SrvFree
      <4> QED
        BY <4>1, <4>2, <2>1, <2>3, <1>1 DEF Leaving
    <3> QED
      BY <3>1, <3>2, <2>1, <2>2, <2>7 DEF Leaving
  <2>9. Ready(ch)' /\ Succeeding(ch)'
    BY <1>1, <2>1, <2>2, <2>3, <2>7 DEF Ready, Succeeding
  <2> QED
    BY <2>8, <2>9 DEF Known
<1> QED
  BY <1>1, <1>2, <1>3 DEF KnownInv

\* What an answer is: its channel is that of the first request.
LEMMA AnswerIs ==
  ASSUME TypeOK, Answer
  PROVE  \E e \in Signal :
           /\ toSrv # <<>> /\ toSrv' = Tail(toSrv) /\ toClt' = Append(toClt, e)
           /\ e.ch = Head(toSrv).ch
           /\ e.op = "joinOK" => e.ch \notin member /\ member' = member \cup {e.ch}
           /\ e.op = "joinFail" => member' = member
           /\ e.op \in {"joinOK", "joinFail"} => Head(toSrv).op = "join"
           /\ e.op \in Leaves => Head(toSrv).op = "leave" /\ member' = member \ {e.ch}
<1>1. toSrv # <<>> /\ toSrv' = Tail(toSrv) /\ Head(toSrv) \in Message
  BY TailElements DEF Answer, TypeOK
<1>2. PICK c \in Channels : c = Head(toSrv).ch
  BY <1>1 DEF Message
<1>3. CASE Head(toSrv).op = "join" /\ AnswerJoin(c)
  <2>1. CASE c \notin member /\ member' = member \cup {c} /\ Reply("joinOK")
    <3>1. PICK e \in Signal : e = [op |-> "joinOK", ch |-> c]
      BY DEF Signal
    <3> QED
      BY <3>1, <2>1, <1>1, <1>2, <1>3 DEF Reply, Leaves
  <2>2. CASE UNCHANGED member /\ Reply("joinFail")
    <3>1. PICK e \in Signal : e = [op |-> "joinFail", ch |-> c]
      BY DEF Signal
    <3> QED
      BY <3>1, <2>2, <1>1, <1>2, <1>3 DEF Reply, Leaves
  <2> QED
    BY <2>1, <2>2, <1>3 DEF AnswerJoin
<1>4. CASE Head(toSrv).op = "leave" /\ AnswerLeave(c)
  <2>1. PICK op \in Leaves : Reply(op)
    BY <1>4 DEF AnswerLeave, Leaves
  <2>2. PICK e \in Signal : e = [op |-> op, ch |-> c]
    BY DEF Signal, Leaves
  <2> QED
    BY <2>1, <2>2, <1>1, <1>2, <1>4 DEF Reply, Leaves, AnswerLeave
<1> QED
  BY <1>2, <1>3, <1>4 DEF Answer

\* A signal that comes behind the others.
LEMMA CltGrows ==
  ASSUME TypeOK, NEW e \in Signal, toClt' = Append(toClt, e),
         UNCHANGED <<cur, handler, modChs>>, NEW ch
  PROVE  /\ CltEnd \in Nat \ {0} /\ CltEnd' = CltEnd + 1 /\ toClt'[CltEnd] = e
         /\ CltEnd \in DOMAIN toClt'
         /\ \A i \in DOMAIN toClt : /\ i \in Nat /\ i < CltEnd
                                    /\ i \in DOMAIN toClt' /\ toClt'[i] = toClt[i]
         /\ \A i \in DOMAIN toClt' : i \in DOMAIN toClt \/ i = CltEnd
         /\ \A n \in 1 .. CltEnd : CltFree(ch, n) => CltFree(ch, n)'
         /\ \A n \in 1 .. CltEnd : NoSuccess(ch, n) => NoSuccess(ch, n)'
         /\ ~Joined(e, ch) /\ NoSuccess(ch, CltEnd) => NoSuccess(ch, CltEnd)'
         /\ e.ch # ch /\ CltFree(ch, CltEnd) => CltFree(ch, CltEnd)'
         /\ \A n \in DOMAIN toClt : LeaveSaid(ch, n)' = LeaveSaid(ch, n)
<1>1. /\ CltEnd \in Nat \ {0} /\ toClt'[CltEnd] = e
      /\ DOMAIN toClt = 1 .. Len(toClt) /\ Len(toClt) \in Nat
      /\ DOMAIN toClt' = 1 .. CltEnd /\ toClt' \in Seq(Signal)
      /\ \A i \in DOMAIN toClt : toClt'[i] = toClt[i]
  BY Places, AppendElements DEF CltEnd
<1>2. CltEnd' = CltEnd + 1
  BY <1>1, LenProperties DEF CltEnd
<1>3. /\ \A i \in DOMAIN toClt : /\ i \in Nat /\ i < CltEnd
                                 /\ i \in DOMAIN toClt' /\ toClt'[i] = toClt[i]
      /\ \A i \in DOMAIN toClt' : i \in DOMAIN toClt \/ i = CltEnd
  BY <1>1 DEF CltEnd
<1>4. ASSUME NEW n \in 1 .. CltEnd, NEW i \in DOMAIN toClt', i < n
      PROVE  i \in DOMAIN toClt /\ toClt'[i] = toClt[i]
  BY <1>1, <1>4 DEF CltEnd
<1>5. \A n \in 1 .. CltEnd : CltFree(ch, n) => CltFree(ch, n)'
  BY <1>4 DEF CltFree
<1>6. \A n \in 1 .. CltEnd : NoSuccess(ch, n) => NoSuccess(ch, n)'
  BY <1>4 DEF NoSuccess, At, Joined
<1>7. ~Joined(e, ch) /\ NoSuccess(ch, CltEnd) => NoSuccess(ch, CltEnd)'
  BY <1>1, <1>3 DEF NoSuccess, At, Joined
<1>8. e.ch # ch /\ CltFree(ch, CltEnd) => CltFree(ch, CltEnd)'
  BY <1>1, <1>3 DEF CltFree
<1>9. \A n \in DOMAIN toClt : LeaveSaid(ch, n)' = LeaveSaid(ch, n)
  BY <1>3 DEF LeaveSaid
<1> QED
  BY <1>1, <1>2, <1>3, <1>5, <1>6, <1>7, <1>8, <1>9

\* The server turns a request into a signal about the same channel.
LEMMA AnswerMoves ==
  ASSUME TypeOK, toSrv # <<>>, toSrv' = Tail(toSrv),
         NEW e \in Signal, e.ch = Head(toSrv).ch, toClt' = Append(toClt, e),
         UNCHANGED <<cur, handler, modChs>>, NEW ch
  PROVE  /\ \A m \in Nat \ {0} : AtMostOne(ch, m + 1, CltEnd) => AtMostOne(ch, m, CltEnd)'
         /\ AtMostOne(ch, SrvEnd, CltEnd) => AtMostOne(ch, SrvEnd, CltEnd)'
         /\ SrvFree(ch, SrvEnd) /\ CltFree(ch, CltEnd)
              => SrvFree(ch, SrvEnd)' /\ CltFree(ch, CltEnd)'
         /\ \A n \in 1 .. CltEnd : AtMostOne(ch, 1, n) => AtMostOne(ch, 1, n)'
<1>1. /\ 1 \in DOMAIN toSrv /\ toSrv[1].ch = e.ch
      /\ SrvEnd \in Nat /\ SrvEnd' = SrvEnd - 1 /\ SrvEnd > 1
      /\ \A i \in DOMAIN toSrv' : /\ i \in Nat \ {0} /\ i + 1 \in DOMAIN toSrv
                                  /\ toSrv'[i] = toSrv[i + 1]
      /\ \A m \in Nat : SrvFree(ch, m + 1) => SrvFree(ch, m)'
      /\ SrvFree(ch, SrvEnd) => SrvFree(ch, SrvEnd)' /\ toSrv[1].ch # ch
  BY SrvShrinks
<1>2. /\ CltEnd \in Nat \ {0} /\ CltEnd' = CltEnd + 1 /\ toClt'[CltEnd] = e
      /\ \A i \in DOMAIN toClt : /\ i \in Nat /\ i < CltEnd
                                 /\ i \in DOMAIN toClt' /\ toClt'[i] = toClt[i]
      /\ \A i \in DOMAIN toClt' : i \in DOMAIN toClt \/ i = CltEnd
      /\ \A n \in 1 .. CltEnd : CltFree(ch, n) => CltFree(ch, n)'
      /\ e.ch # ch /\ CltFree(ch, CltEnd) => CltFree(ch, CltEnd)'
  BY CltGrows
<1>3. Got(ch)' = Got(ch)
  BY DEF Got
<1>4. ASSUME NEW m \in Nat \ {0}, AtMostOne(ch, m + 1, CltEnd)
      PROVE  AtMostOne(ch, m, CltEnd)'
  <2>1. CASE e.ch = ch
    <3>1. \A i \in DOMAIN toSrv : i < m + 1 /\ toSrv[i].ch = ch => i = 1
      BY <2>1, <1>1, <1>4 DEF AtMostOne
    <3>2. ~SrvFree(ch, m + 1)
      BY <2>1, <1>1 DEF SrvFree
    <3>3. CltFree(ch, CltEnd) /\ ~Got(ch) /\ ch \in modChs
      BY <3>2, <1>4 DEF AtMostOne
    <3>4. SrvFree(ch, m)'
      BY <3>1, <1>1 DEF SrvFree
    <3>5. \A i \in DOMAIN toClt' : toClt'[i].ch = ch => i = CltEnd
      BY <3>3, <1>2 DEF CltFree
    <3>6. \A i, j \in DOMAIN toSrv' : i < m /\ j < m /\ toSrv'[i].ch = ch /\ toSrv'[j].ch = ch => i = j
      BY <3>4 DEF SrvFree
    <3> QED
      BY <3>3, <3>4, <3>5, <3>6, <1>3 DEF AtMostOne
  <2>2. CASE e.ch # ch
    <3>1. \A i \in DOMAIN toClt' : toClt'[i].ch = ch => i \in DOMAIN toClt /\ toClt[i].ch = ch /\ i < CltEnd
      BY <2>2, <1>2
    <3>2. \A i, j \in DOMAIN toClt' : toClt'[i].ch = ch /\ toClt'[j].ch = ch => i = j
      BY <3>1, <1>4 DEF AtMostOne
    <3>3. \A i, j \in DOMAIN toSrv' : i < m /\ j < m /\ toSrv'[i].ch = ch /\ toSrv'[j].ch = ch => i = j
      <4> SUFFICES ASSUME NEW i \in DOMAIN toSrv', NEW j \in DOMAIN toSrv', i < m, j < m,
                          toSrv'[i].ch = ch, toSrv'[j].ch = ch
                   PROVE  i = j
        OBVIOUS
      <4>1. i + 1 = j + 1
        BY <1>1, <1>4 DEF AtMostOne
      <4> QED
        BY <4>1, <1>1
    <3>4. (SrvFree(ch, m + 1) => SrvFree(ch, m)') /\ (CltFree(ch, CltEnd) => CltFree(ch, CltEnd)')
      BY <2>2, <1>1, <1>2
    <3> QED
      BY <3>2, <3>3, <3>4, <1>3, <1>4 DEF AtMostOne
  <2> QED
    BY <2>1, <2>2
<1>5. AtMostOne(ch, SrvEnd, CltEnd) => AtMostOne(ch, SrvEnd, CltEnd)'
  <2>1. \A m \in Nat \ {0} : m + 1 = SrvEnd =>
          (AtMostOne(ch, SrvEnd, CltEnd) => AtMostOne(ch, m, CltEnd)')
    BY <1>4
  <2>2. SrvEnd' \in Nat \ {0} /\ SrvEnd' + 1 = SrvEnd
    BY <1>1
  <2> QED
    BY <2>1, <2>2 DEF AtMostOne, SrvFree
<1>6. SrvFree(ch, SrvEnd) /\ CltFree(ch, CltEnd) => SrvFree(ch, SrvEnd)' /\ CltFree(ch, CltEnd)'
  BY <1>1, <1>2
<1>7. ASSUME NEW n \in 1 .. CltEnd, AtMostOne(ch, 1, n)
      PROVE  AtMostOne(ch, 1, n)'
  <2>1. \A i \in DOMAIN toClt' : i < n => i \in DOMAIN toClt /\ toClt'[i] = toClt[i]
    BY <1>2
  <2>2. SrvFree(ch, 1)' /\ \A i \in DOMAIN toSrv' : ~(i < 1)
    BY <1>1 DEF SrvFree
  <2> QED
    BY <2>1, <2>2, <1>2, <1>3, <1>7 DEF AtMostOne
<1> QED
  BY <1>4, <1>5, <1>6, <1>7

\* An answer: a success makes the client a member of the channel, and who leaves
\* says so behind everything else.
LEMMA AnswerSuccess ==
  ASSUME KInv, Answer
  PROVE  SuccessInv'
<1> USE DEF KInv, IInv
<1>1. PICK e \in Signal :
           /\ toClt' = Append(toClt, e)
           /\ e.op = "joinOK" => e.ch \notin member /\ member' = member \cup {e.ch}
           /\ e.op = "joinFail" => member' = member
           /\ e.op \in Leaves => member' = member \ {e.ch}
  BY AnswerIs
<1>2. UNCHANGED <<cur, attached, handler, modChs>>
  BY DEF Answer, hopVars, history
<1>3. e.op \in {"joinOK", "joinFail"} \cup Leaves
  BY DEF Signal, Leaves
<1> SUFFICES ASSUME attached, NEW ch \in Channels
             PROVE  /\ \A i \in DOMAIN toClt' : Joined(toClt'[i], ch) =>
                         \/ \E j \in DOMAIN toClt' : j > i /\ LeaveSaid(ch, j)'
                         \/ ch \in member' /\ \A j \in DOMAIN toClt' : j > i => ~Joined(toClt'[j], ch)
                    /\ At("got", {"joinOK"}, ch)' =>
                         \/ \E j \in DOMAIN toClt' : LeaveSaid(ch, j)'
                         \/ ch \in member' /\ \A j \in DOMAIN toClt' : ~Joined(toClt'[j], ch)
  BY <1>2 DEF SuccessInv
<1>4. PICK n \in Nat :
        /\ toClt'[n] = e /\ n \in DOMAIN toClt'
        /\ \A i \in DOMAIN toClt : /\ i \in Nat /\ i < n
                                   /\ i \in DOMAIN toClt' /\ toClt'[i] = toClt[i]
        /\ \A i \in DOMAIN toClt' : i \in DOMAIN toClt \/ i = n
        /\ \A i \in DOMAIN toClt : LeaveSaid(ch, i)' = LeaveSaid(ch, i)
  BY <1>1, <1>2, CltGrows
<1>5. e.ch = ch /\ e.op \in Leaves => LeaveSaid(ch, n)'
  BY <1>4 DEF LeaveSaid
<1>6. Joined(e, ch) => ch \notin member /\ ch \in member'
  BY <1>1 DEF Joined
<1>7. ch \in member => ch \in member' \/ LeaveSaid(ch, n)'
  BY <1>1, <1>3, <1>5
<1>8. At("got", {"joinOK"}, ch)' = At("got", {"joinOK"}, ch)
  BY <1>2 DEF At
<1>9. ASSUME NEW i \in DOMAIN toClt', Joined(toClt'[i], ch)
      PROVE  \/ \E j \in DOMAIN toClt' : j > i /\ LeaveSaid(ch, j)'
             \/ ch \in member' /\ \A j \in DOMAIN toClt' : j > i => ~Joined(toClt'[j], ch)
  <2>1. CASE i \in DOMAIN toClt
    <3>1. \/ \E j \in DOMAIN toClt : j > i /\ LeaveSaid(ch, j)
          \/ ch \in member /\ \A j \in DOMAIN toClt : j > i => ~Joined(toClt[j], ch)
      BY <2>1, <1>4, <1>9 DEF SuccessInv
    <3>2. n > i
      BY <2>1, <1>4
    <3> QED
      BY <3>1, <3>2, <1>4, <1>6, <1>7
  <2>2. CASE i = n
    <3>1. ch \in member'
      BY <2>2, <1>4, <1>6, <1>9
    <3>2. \A j \in DOMAIN toClt' : ~(j > i)
      BY <2>2, <1>4
    <3> QED
      BY <3>1, <3>2
  <2> QED
    BY <2>1, <2>2, <1>4
<1>10. ASSUME At("got", {"joinOK"}, ch)
       PROVE  \/ \E j \in DOMAIN toClt' : LeaveSaid(ch, j)'
              \/ ch \in member' /\ \A j \in DOMAIN toClt' : ~Joined(toClt'[j], ch)
  <2>1. \/ \E j \in DOMAIN toClt : LeaveSaid(ch, j)
        \/ ch \in member /\ \A j \in DOMAIN toClt : ~Joined(toClt[j], ch)
    BY <1>10 DEF SuccessInv
  <2> QED
    BY <2>1, <1>4, <1>6, <1>7
<1> QED
  BY <1>8, <1>9, <1>10

\* An answer to a request to leave is behind every success of its channel.
LEMMA AnswerKnown ==
  ASSUME KInv, Answer
  PROVE  KnownInv'
<1> USE DEF KInv, IInv
<1>1. PICK e \in Signal :
           /\ toSrv # <<>> /\ toSrv' = Tail(toSrv) /\ toClt' = Append(toClt, e)
           /\ e.ch = Head(toSrv).ch
           /\ e.op = "joinOK" => e.ch \notin member /\ member' = member \cup {e.ch}
           /\ e.op = "joinFail" => member' = member
           /\ e.op \in {"joinOK", "joinFail"} => Head(toSrv).op = "join"
           /\ e.op \in Leaves => Head(toSrv).op = "leave" /\ member' = member \ {e.ch}
  BY AnswerIs
<1>2. UNCHANGED <<cur, attached, hop, loop, modChs, handler, late, view, clt>>
  BY DEF Answer, hopVars, cltVars, history
<1>3. e.op \in {"joinOK", "joinFail"} \cup Leaves
  BY DEF Signal, Leaves
<1>4. ASSUME NEW ch \in Channels, ~Spoiled(ch)'
      PROVE  Known(ch)'
  <2>1. attached /\ Ready(ch) /\ Leaving(ch) /\ Succeeding(ch)
    BY <1>1, <1>2, <1>4 DEF KnownInv, Known, Spoiled, Left, HopInv
  <2>2. /\ \A op : Pending(op, ch)' = Pending(op, ch)
        /\ Passing(ch)' = Passing(ch) /\ Failing(ch)' = Failing(ch) /\ Got(ch)' = Got(ch)
        /\ At("got", Leaves, ch)' = At("got", Leaves, ch)
    BY <1>2 DEF Pending, Passing, Failing, Got, At
  <2>3. /\ 1 \in DOMAIN toSrv /\ toSrv[1] = Head(toSrv)
        /\ SrvEnd \in Nat /\ SrvEnd > 1
        /\ \A i \in DOMAIN toSrv' : /\ i \in Nat \ {0} /\ i + 1 \in DOMAIN toSrv
                                    /\ toSrv'[i] = toSrv[i + 1]
        /\ \A m : LeaveAsked(ch, m)' => LeaveAsked(ch, m + 1) /\ m \in Nat \ {0}
        /\ \A m \in Nat : SrvFree(ch, m + 1) => SrvFree(ch, m)'
    BY <1>1, SrvShrinks
  <2>4. /\ CltEnd \in Nat \ {0} /\ toClt'[CltEnd] = e /\ CltEnd \in DOMAIN toClt'
        /\ \A i \in DOMAIN toClt : /\ i \in Nat /\ i < CltEnd
                                   /\ i \in DOMAIN toClt' /\ toClt'[i] = toClt[i]
        /\ \A i \in DOMAIN toClt' : i \in DOMAIN toClt \/ i = CltEnd
        /\ \A n \in 1 .. CltEnd : NoSuccess(ch, n) => NoSuccess(ch, n)'
        /\ ~Joined(e, ch) /\ NoSuccess(ch, CltEnd) => NoSuccess(ch, CltEnd)'
        /\ \A n \in DOMAIN toClt : LeaveSaid(ch, n)' = LeaveSaid(ch, n)
    BY <1>1, <1>2, CltGrows
  <2>5. /\ \A m \in Nat \ {0} : AtMostOne(ch, m + 1, CltEnd) => AtMostOne(ch, m, CltEnd)'
        /\ AtMostOne(ch, SrvEnd, CltEnd) => AtMostOne(ch, SrvEnd, CltEnd)'
        /\ SrvFree(ch, SrvEnd) /\ CltFree(ch, CltEnd)
              => SrvFree(ch, SrvEnd)' /\ CltFree(ch, CltEnd)'
        /\ \A n \in 1 .. CltEnd : AtMostOne(ch, 1, n) => AtMostOne(ch, 1, n)'
    BY <1>1, <1>2, AnswerMoves
  <2>6. e.op \in Leaves /\ e.ch = ch => LeaveAsked(ch, 1)
    BY <1>1, <2>3 DEF LeaveAsked
  <2>7. ch \in member => ~Joined(e, ch) /\ (ch \in member' \/ (e.op \in Leaves /\ e.ch = ch))
    BY <1>1, <1>3 DEF Joined
  <2>8. ASSUME NoLeave(ch) PROVE NoLeave(ch)' /\ (Calm(ch) => Calm(ch)')
    <3>1. ~(e.op \in Leaves /\ e.ch = ch)
      BY <2>3, <2>6, <2>8 DEF NoLeave
    <3>2. \A n \in DOMAIN toClt' : ~LeaveSaid(ch, n)'
      BY <3>1, <2>4, <2>8 DEF NoLeave, LeaveSaid
    <3>3. \A m \in DOMAIN toSrv' : ~LeaveAsked(ch, m)'
      BY <2>3, <2>8 DEF NoLeave
    <3>4. NoLeave(ch)'
      BY <3>2, <3>3, <2>2, <2>8 DEF NoLeave
    <3>5. Calm(ch) => Calm(ch)'
      BY <3>1, <2>2, <2>4, <2>5, <2>7, <1>2 DEF Calm, MayRejoin
    <3> QED
      BY <3>4, <3>5
  <2>9. ASSUME NEW m \in DOMAIN toSrv', LeaveAsked(ch, m)'
        PROVE  /\ ~Passing(ch)' /\ ~At("got", Leaves, ch)'
               /\ \A i \in DOMAIN toSrv' : LeaveAsked(ch, i)' => i = m
               /\ \A n \in DOMAIN toClt' : ~LeaveSaid(ch, n)'
               /\ \/ (ch \in member' \/ SrvFree(ch, m)') /\ NoSuccess(ch, CltEnd)'
                  \/ AtMostOne(ch, m, CltEnd)'
    <3>1. m \in Nat \ {0} /\ m + 1 \in DOMAIN toSrv /\ LeaveAsked(ch, m + 1)
      BY <2>3, <2>9
    <3>2. /\ ~Passing(ch) /\ ~At("got", Leaves, ch)
          /\ \A i \in DOMAIN toSrv : LeaveAsked(ch, i) => i = m + 1
          /\ \A n \in DOMAIN toClt : ~LeaveSaid(ch, n)
          /\ \/ (ch \in member \/ SrvFree(ch, m + 1)) /\ NoSuccess(ch, CltEnd)
             \/ AtMostOne(ch, m + 1, CltEnd)
      BY <3>1, <2>1 DEF Leaving
    <3>3. ~(e.op \in Leaves /\ e.ch = ch)
      BY <3>1, <3>2, <2>3, <2>6
    <3>4. \A n \in DOMAIN toClt' : ~LeaveSaid(ch, n)'
      BY <3>2, <3>3, <2>4 DEF LeaveSaid
    <3>5. \A i \in DOMAIN toSrv' : LeaveAsked(ch, i)' => i = m
      <4>1. ASSUME NEW i \in DOMAIN toSrv', LeaveAsked(ch, i)' PROVE i = m
        <5>1. i + 1 = m + 1 /\ i \in Nat
          BY <4>1, <3>2, <2>3
        <5> QED
          BY <5>1, <3>1
      <4> QED
        BY <4>1
    <3>6. SrvFree(ch, m + 1) => ~Joined(e, ch)
      BY <3>1, <2>3, <1>1 DEF SrvFree, Joined
    <3> QED
      BY <3>1, <3>2, <3>3, <3>4, <3>5, <3>6, <2>2, <2>3, <2>4, <2>5, <2>7
  <2>10. ASSUME NEW n \in DOMAIN toClt', LeaveSaid(ch, n)'
         PROVE  /\ ~Passing(ch)' /\ ~At("got", Leaves, ch)'
                /\ \A i \in DOMAIN toClt' : LeaveSaid(ch, i)' => i = n
                /\ NoSuccess(ch, n)' \/ AtMostOne(ch, 1, n)'
    <3>1. CASE n \in DOMAIN toClt
      <4>1. /\ LeaveSaid(ch, n) /\ n \in 1 .. CltEnd
            /\ ~Passing(ch) /\ ~At("got", Leaves, ch)
            /\ \A i \in DOMAIN toClt : LeaveSaid(ch, i) => i = n
            /\ NoSuccess(ch, n) \/ AtMostOne(ch, 1, n)
        BY <3>1, <2>1, <2>4, <2>10, Places DEF Leaving
      <4>2. ~(e.op \in Leaves /\ e.ch = ch)
        BY <4>1, <3>1, <2>1, <2>3, <2>6 DEF Leaving
      <4>3. \A i \in DOMAIN toClt' : LeaveSaid(ch, i)' => i = n
        BY <4>1, <4>2, <2>4 DEF LeaveSaid
      <4> QED
        BY <4>1, <4>3, <2>2, <2>4, <2>5
    <3>2. CASE n = CltEnd
      <4>1. e.op \in Leaves /\ e.ch = ch
        BY <3>2, <2>4, <2>10 DEF LeaveSaid
      <4>2. /\ ~Passing(ch) /\ ~At("got", Leaves, ch)
            /\ \A i \in DOMAIN toClt : ~LeaveSaid(ch, i)
            /\ NoSuccess(ch, CltEnd) \/ AtMostOne(ch, 1, CltEnd)
        BY <4>1, <2>1, <2>3, <2>6 DEF Leaving
      <4>3. NoSuccess(ch, n) \/ AtMostOne(ch, 1, n)
        BY <4>2, <3>2
      <4>4. n \in 1 .. CltEnd
        BY <3>2, <2>4
      <4>5. \A i \in DOMAIN toClt' : LeaveSaid(ch, i)' => i = n
        BY <4>2, <3>2, <2>4
      <4> QED
        BY <4>2, <4>3, <4>4, <4>5, <2>2, <2>4, <2>5
    <3> QED
      BY <3>1, <3>2, <2>4
  <2>11. Leaving(ch)'
    BY <2>1, <2>2, <2>8, <2>9, <2>10 DEF Leaving
  <2>12. Ready(ch)'
    BY <1>2, <2>1, <2>2, <2>8 DEF Ready
  <2>13. Succeeding(ch)'
    <3> SUFFICES ASSUME Passing(ch)'
                 PROVE  /\ ch \in modChs' \cap member'
                        /\ NoLeave(ch)' /\ ~Pending("leave", ch)'
                        /\ \A i \in DOMAIN toClt' : ~Joined(toClt'[i], ch)
      BY DEF Succeeding
    <3>1. /\ ch \in modChs \cap member
          /\ NoLeave(ch) /\ ~Pending("leave", ch)
          /\ \A i \in DOMAIN toClt : ~Joined(toClt[i], ch)
      BY <2>1, <2>2 DEF Succeeding
    <3>2. ~(e.op \in Leaves /\ e.ch = ch)
      BY <3>1, <2>3, <2>6 DEF NoLeave
    <3>3. ~Joined(e, ch) /\ ch \in member'
      BY <3>1, <3>2, <2>7
    <3> QED
      BY <3>1, <3>3, <2>2, <2>4, <2>8, <1>2
  <2> QED
    BY <2>11, <2>12, <2>13 DEF Known
<1> QED
  BY <1>2, <1>4 DEF KnownInv

-----------------------------------------------------------------------------
\* What taking the first signal does to those that are left.
LEMMA CltShrinks ==
  ASSUME TypeOK, Receive, NEW ch
  PROVE  /\ UNCHANGED <<cur, attached, hop, loop, toSrv, modChs, member, late, view, clt>>
         /\ toClt # <<>> /\ handler[cur].pc = "idle"
         /\ handler'[cur].pc = "got" /\ handler'[cur].sig = toClt[1]
         /\ \A k \in Conns \ {cur} : handler'[k] = handler[k]
         /\ 1 \in DOMAIN toClt
         /\ CltEnd \in Nat /\ CltEnd' = CltEnd - 1
         /\ \A i \in DOMAIN toClt' : /\ i \in Nat \ {0} /\ i + 1 \in DOMAIN toClt
                                     /\ toClt'[i] = toClt[i + 1]
         /\ \A i \in DOMAIN toClt : /\ i \in Nat \ {0} /\ i < CltEnd
                                    /\ i = 1 \/ (i - 1 \in DOMAIN toClt' /\ toClt'[i - 1] = toClt[i])
         /\ \A n : LeaveSaid(ch, n)' => LeaveSaid(ch, n + 1) /\ n \in Nat \ {0}
<1>1. /\ UNCHANGED <<cur, attached, hop, loop, toSrv, modChs, member, late, view, clt>>
      /\ toClt # <<>> /\ toClt' = Tail(toClt) /\ handler[cur].pc = "idle"
      /\ handler' = [handler EXCEPT ![cur] = [pc |-> "got", sig |-> Head(toClt)]]
  BY DEF Receive, hopVars, cltVars, history
<1>2. /\ Len(toClt) \in Nat \ {0} /\ toClt[1] = Head(toClt)
      /\ DOMAIN toClt = 1 .. Len(toClt) /\ DOMAIN toClt' = 1 .. Len(toClt) - 1
      /\ \A i \in DOMAIN toClt' : toClt'[i] = toClt[i + 1]
      /\ toClt' \in Seq(Signal)
  BY <1>1, Places, TailElements
<1>3. Len(toClt') = Len(toClt) - 1
  BY <1>1, Places, HeadTailProperties
<1>4. CltEnd \in Nat /\ CltEnd' = CltEnd - 1
  BY <1>2, <1>3 DEF CltEnd
<1>5. handler'[cur].pc = "got" /\ handler'[cur].sig = toClt[1]
      /\ \A k \in Conns \ {cur} : handler'[k] = handler[k]
  BY <1>1, <1>2, Places
<1>6. \A i \in DOMAIN toClt' : /\ i \in Nat \ {0} /\ i + 1 \in DOMAIN toClt
                               /\ toClt'[i] = toClt[i + 1]
  BY <1>2
<1>7. \A i \in DOMAIN toClt : /\ i \in Nat \ {0} /\ i < CltEnd
                              /\ i = 1 \/ (i - 1 \in DOMAIN toClt' /\ toClt'[i - 1] = toClt[i])
  BY <1>2 DEF CltEnd
<1>8. \A n : LeaveSaid(ch, n)' => LeaveSaid(ch, n + 1) /\ n \in Nat \ {0}
  BY <1>6 DEF LeaveSaid
<1> QED
  BY <1>1, <1>2, <1>4, <1>5, <1>6, <1>7, <1>8

\* The signal the handler takes comes before those that are left.
LEMMA ReceiveSuccess ==
  ASSUME KInv, Receive
  PROVE  SuccessInv'
<1> USE DEF KInv, IInv
<1> SUFFICES ASSUME NEW ch \in Channels
             PROVE  /\ \A i \in DOMAIN toClt' : Joined(toClt'[i], ch) =>
                         \/ \E j \in DOMAIN toClt' : j > i /\ LeaveSaid(ch, j)'
                         \/ ch \in member' /\ \A j \in DOMAIN toClt' : j > i => ~Joined(toClt'[j], ch)
                    /\ At("got", {"joinOK"}, ch)' =>
                         \/ \E j \in DOMAIN toClt' : LeaveSaid(ch, j)'
                         \/ ch \in member' /\ \A j \in DOMAIN toClt' : ~Joined(toClt'[j], ch)
  BY DEF SuccessInv
<1>1. attached
  BY DEF Receive
<1>2. /\ UNCHANGED <<cur, member>>
      /\ handler'[cur].sig = toClt[1]
      /\ 1 \in DOMAIN toClt
      /\ \A i \in DOMAIN toClt' : /\ i \in Nat \ {0} /\ i + 1 \in DOMAIN toClt
                                  /\ toClt'[i] = toClt[i + 1]
      /\ \A i \in DOMAIN toClt : /\ i \in Nat \ {0}
                                 /\ i = 1 \/ (i - 1 \in DOMAIN toClt' /\ toClt'[i - 1] = toClt[i])
  BY CltShrinks
<1>3. \A j \in DOMAIN toClt : j # 1 /\ LeaveSaid(ch, j) => j - 1 \in DOMAIN toClt' /\ LeaveSaid(ch, j - 1)'
  BY <1>2 DEF LeaveSaid
<1>4. ASSUME NEW i \in DOMAIN toClt, Joined(toClt[i], ch)
      PROVE  \/ \E j \in DOMAIN toClt' : j > i - 1 /\ LeaveSaid(ch, j)'
             \/ ch \in member' /\ \A j \in DOMAIN toClt' : j > i - 1 => ~Joined(toClt'[j], ch)
  <2>1. CASE \E j \in DOMAIN toClt : j > i /\ LeaveSaid(ch, j)
    <3>1. PICK j \in DOMAIN toClt : j > i /\ LeaveSaid(ch, j)
      BY <2>1
    <3>2. j # 1 /\ j - 1 > i - 1
      BY <3>1, <1>2
    <3> QED
      BY <3>1, <3>2, <1>3
  <2>2. CASE ch \in member /\ \A j \in DOMAIN toClt : j > i => ~Joined(toClt[j], ch)
    <3>1. ASSUME NEW j \in DOMAIN toClt', j > i - 1
          PROVE  ~Joined(toClt'[j], ch)
      <4>1. j + 1 \in DOMAIN toClt /\ j + 1 > i /\ toClt'[j] = toClt[j + 1]
        BY <3>1, <1>2
      <4> QED
        BY <4>1, <2>2
    <3> QED
      BY <3>1, <2>2, <1>2
  <2> QED
    BY <2>1, <2>2, <1>1, <1>4 DEF SuccessInv
<1>5. ASSUME NEW i \in DOMAIN toClt', Joined(toClt'[i], ch)
      PROVE  \/ \E j \in DOMAIN toClt' : j > i /\ LeaveSaid(ch, j)'
             \/ ch \in member' /\ \A j \in DOMAIN toClt' : j > i => ~Joined(toClt'[j], ch)
  <2>1. i + 1 \in DOMAIN toClt /\ (i + 1) - 1 = i /\ Joined(toClt[i + 1], ch)
    BY <1>2, <1>5
  <2>2. \/ \E j \in DOMAIN toClt' : j > (i + 1) - 1 /\ LeaveSaid(ch, j)'
        \/ ch \in member' /\ \A j \in DOMAIN toClt' : j > (i + 1) - 1 => ~Joined(toClt'[j], ch)
    BY <2>1, <1>4
  <2> QED
    BY <2>1, <2>2
<1>6. ASSUME At("got", {"joinOK"}, ch)'
      PROVE  \/ \E j \in DOMAIN toClt' : LeaveSaid(ch, j)'
             \/ ch \in member' /\ \A j \in DOMAIN toClt' : ~Joined(toClt'[j], ch)
  <2>1. Joined(toClt[1], ch)
    BY <1>2, <1>6 DEF At, Joined
  <2>2. \A j \in DOMAIN toClt' : j > 1 - 1
    BY <1>2
  <2> QED
    BY <2>1, <2>2, <1>2, <1>4
<1> QED
  BY <1>5, <1>6

\* The first signals about a channel stay the first ones.
LEMMA ReceiveMoves ==
  ASSUME TypeOK, Receive, NEW ch
  PROVE  /\ \A n \in Nat \ {0} : NoSuccess(ch, n + 1) => NoSuccess(ch, n)'
         /\ NoSuccess(ch, CltEnd) => NoSuccess(ch, CltEnd)'
         /\ \A m, n \in Nat \ {0} : AtMostOne(ch, m, n + 1) => AtMostOne(ch, m, n)'
         /\ \A m \in Nat \ {0} : AtMostOne(ch, m, CltEnd) => AtMostOne(ch, m, CltEnd)'
         /\ SrvEnd \in Nat \ {0} /\ SrvEnd' = SrvEnd
         /\ SrvFree(ch, SrvEnd)' = SrvFree(ch, SrvEnd)
         /\ CltFree(ch, CltEnd) => CltFree(ch, CltEnd)' /\ ~Got(ch)'
<1>1. /\ UNCHANGED <<cur, toSrv, modChs>>
      /\ handler'[cur].pc = "got" /\ handler'[cur].sig = toClt[1]
      /\ 1 \in DOMAIN toClt
      /\ CltEnd \in Nat /\ CltEnd' = CltEnd - 1
      /\ \A i \in DOMAIN toClt' : /\ i \in Nat \ {0} /\ i + 1 \in DOMAIN toClt
                                  /\ toClt'[i] = toClt[i + 1]
      /\ \A i \in DOMAIN toClt : i \in Nat \ {0} /\ i < CltEnd
  BY CltShrinks
<1>2. \A n \in Nat \ {0} : NoSuccess(ch, n + 1) => NoSuccess(ch, n)'
  BY <1>1 DEF NoSuccess, At, Joined
<1>3. NoSuccess(ch, CltEnd) => NoSuccess(ch, CltEnd)'
  BY <1>1 DEF NoSuccess, At, Joined
<1>4. /\ SrvEnd \in Nat \ {0} /\ SrvEnd' = SrvEnd /\ SrvFree(ch, SrvEnd)' = SrvFree(ch, SrvEnd)
      /\ \A m : SrvFree(ch, m)' = SrvFree(ch, m)
  BY <1>1, Places DEF SrvEnd, SrvFree
<1>5. ASSUME NEW m \in Nat \ {0}, NEW n \in Nat \ {0}, AtMostOne(ch, m, n + 1)
      PROVE  AtMostOne(ch, m, n)'
  <2>1. \A i, j \in DOMAIN toClt' : i < n /\ j < n /\ toClt'[i].ch = ch /\ toClt'[j].ch = ch => i = j
    <3> SUFFICES ASSUME NEW i \in DOMAIN toClt', NEW j \in DOMAIN toClt', i < n, j < n,
                        toClt'[i].ch = ch, toClt'[j].ch = ch
                 PROVE  i = j
      OBVIOUS
    <3>1. i + 1 = j + 1
      BY <1>1, <1>5 DEF AtMostOne
    <3> QED
      BY <3>1, <1>1
  <2>2. CltFree(ch, n + 1) => CltFree(ch, n)' /\ ~Got(ch)'
    BY <1>1 DEF CltFree, Got
  <2>3. toClt[1].ch = ch => SrvFree(ch, m) /\ CltFree(ch, n)' /\ ch \in modChs
    <3> SUFFICES ASSUME toClt[1].ch = ch PROVE SrvFree(ch, m) /\ CltFree(ch, n)' /\ ch \in modChs
      OBVIOUS
    <3>1. ~CltFree(ch, n + 1)
      BY <1>1 DEF CltFree
    <3>2. \A i \in DOMAIN toClt : i < n + 1 /\ toClt[i].ch = ch => i = 1
      BY <1>1, <1>5 DEF AtMostOne
    <3>3. CltFree(ch, n)'
      BY <3>2, <1>1 DEF CltFree
    <3> QED
      BY <3>1, <3>3, <1>5 DEF AtMostOne
  <2>4. Got(ch)' => toClt[1].ch = ch
    BY <1>1 DEF Got
  <2>5. toClt[1].ch # ch => (CltFree(ch, n + 1) => CltFree(ch, n)')
    BY <2>2
  <2> QED
    BY <2>1, <2>2, <2>3, <2>4, <1>1, <1>4, <1>5 DEF AtMostOne
<1>6. \A m \in Nat \ {0} : AtMostOne(ch, m, CltEnd) => AtMostOne(ch, m, CltEnd)'
  <2>1. \A m, n \in Nat \ {0} : n + 1 = CltEnd /\ AtMostOne(ch, m, CltEnd) => AtMostOne(ch, m, n)'
    BY <1>5
  <2>2. CltEnd' \in Nat \ {0} /\ CltEnd' + 1 = CltEnd
    BY <1>1
  <2> QED
    BY <2>1, <2>2 DEF AtMostOne, CltFree
<1>7. CltFree(ch, CltEnd) => CltFree(ch, CltEnd)' /\ ~Got(ch)'
  BY <1>1 DEF CltFree, Got
<1> QED
  BY <1>2, <1>3, <1>4, <1>5, <1>6, <1>7

\* The handler takes a signal: what is said of the first signals still is.
LEMMA ReceiveKnown ==
  ASSUME KInv, Receive
  PROVE  KnownInv'
<1> USE DEF KInv, IInv
<1>1. UNCHANGED <<cur, attached, hop, loop, toSrv, modChs, member, late, view, clt>> /\ attached
  BY CltShrinks DEF Receive
<1>2. ASSUME NEW ch \in Channels, ~Spoiled(ch)'
      PROVE  Known(ch)'
  <2>1. /\ handler[cur].pc = "idle"
        /\ handler'[cur].pc = "got" /\ handler'[cur].sig = toClt[1]
        /\ \A k \in Conns \ {cur} : handler'[k] = handler[k]
        /\ 1 \in DOMAIN toClt
        /\ \A i \in DOMAIN toClt' : /\ i \in Nat \ {0} /\ i + 1 \in DOMAIN toClt
                                    /\ toClt'[i] = toClt[i + 1]
        /\ \A n : LeaveSaid(ch, n)' => LeaveSaid(ch, n + 1) /\ n \in Nat \ {0}
    BY CltShrinks
  <2>2. ~Spoiled(ch)
    BY <1>1, <1>2, <2>1 DEF Spoiled, Left
  <2>3. Ready(ch) /\ Leaving(ch) /\ Succeeding(ch)
    BY <1>1, <2>2 DEF KnownInv, Known
  <2>4. /\ \A n \in Nat \ {0} : NoSuccess(ch, n + 1) => NoSuccess(ch, n)'
        /\ NoSuccess(ch, CltEnd) => NoSuccess(ch, CltEnd)'
        /\ \A m, n \in Nat \ {0} : AtMostOne(ch, m, n + 1) => AtMostOne(ch, m, n)'
        /\ \A m \in Nat \ {0} : AtMostOne(ch, m, CltEnd) => AtMostOne(ch, m, CltEnd)'
        /\ SrvEnd \in Nat \ {0} /\ SrvEnd' = SrvEnd
        /\ SrvFree(ch, SrvEnd)' = SrvFree(ch, SrvEnd)
        /\ CltFree(ch, CltEnd) => CltFree(ch, CltEnd)' /\ ~Got(ch)'
    BY ReceiveMoves
  <2>5. AtMostOne(ch, SrvEnd, CltEnd) => AtMostOne(ch, SrvEnd, CltEnd)'
    BY <2>4, <1>1 DEF AtMostOne, SrvFree
  <2>6. ~Failing(ch) /\ ~Failing(ch)' /\ ~Passing(ch)'
    BY <2>1, <1>1 DEF Failing, Passing, At
  <2>7. \A op : Pending(op, ch)' = Pending(op, ch)
    BY <1>1 DEF Pending
  <2>8. Calm(ch) => Calm(ch)'
    BY <1>1, <2>4, <2>5, <2>6, <2>7 DEF Calm, MayRejoin
  <2>9. At("got", Leaves, ch)' => LeaveSaid(ch, 1)
    BY <2>1, <1>1 DEF At, LeaveSaid
  <2>10. \A m : LeaveAsked(ch, m)' = LeaveAsked(ch, m)
    BY <1>1 DEF LeaveAsked
  <2>11. NoLeave(ch) => NoLeave(ch)'
    BY <1>1, <2>1, <2>9, <2>10 DEF NoLeave
  <2>12. ASSUME NEW m \in DOMAIN toSrv', LeaveAsked(ch, m)'
         PROVE  /\ ~Passing(ch)' /\ ~At("got", Leaves, ch)'
                /\ \A i \in DOMAIN toSrv' : LeaveAsked(ch, i)' => i = m
                /\ \A n \in DOMAIN toClt' : ~LeaveSaid(ch, n)'
                /\ \/ (ch \in member' \/ SrvFree(ch, m)') /\ NoSuccess(ch, CltEnd)'
                   \/ AtMostOne(ch, m, CltEnd)'
    <3>1. m \in DOMAIN toSrv /\ LeaveAsked(ch, m) /\ m \in Nat \ {0}
      BY <2>10, <2>12, <1>1, Places
    <3>2. /\ \A i \in DOMAIN toSrv : LeaveAsked(ch, i) => i = m
          /\ \A n \in DOMAIN toClt : ~LeaveSaid(ch, n)
          /\ \/ (ch \in member \/ SrvFree(ch, m)) /\ NoSuccess(ch, CltEnd)
             \/ AtMostOne(ch, m, CltEnd)
      BY <3>1, <2>3 DEF Leaving
    <3>3. SrvFree(ch, m)' = SrvFree(ch, m)
      BY <1>1 DEF SrvFree
    <3> QED
      BY <3>1, <3>2, <3>3, <2>1, <2>4, <2>6, <2>9, <2>10, <1>1
  <2>13. ASSUME NEW n \in DOMAIN toClt', LeaveSaid(ch, n)'
         PROVE  /\ ~Passing(ch)' /\ ~At("got", Leaves, ch)'
                /\ \A i \in DOMAIN toClt' : LeaveSaid(ch, i)' => i = n
                /\ NoSuccess(ch, n)' \/ AtMostOne(ch, 1, n)'
    <3>1. n \in Nat \ {0} /\ n + 1 \in DOMAIN toClt /\ LeaveSaid(ch, n + 1)
      BY <2>1, <2>13
    <3>2. /\ \A i \in DOMAIN toClt : LeaveSaid(ch, i) => i = n + 1
          /\ NoSuccess(ch, n + 1) \/ AtMostOne(ch, 1, n + 1)
      BY <3>1, <2>3 DEF Leaving
    <3>3. ~LeaveSaid(ch, 1)
      BY <3>1, <3>2, <2>1
    <3>4. ASSUME NEW i \in DOMAIN toClt', LeaveSaid(ch, i)' PROVE i = n
      <4>1. i + 1 = n + 1 /\ i \in Nat
        BY <3>2, <3>4, <2>1
      <4> QED
        BY <4>1, <3>1
    <3> QED
      BY <3>1, <3>2, <3>3, <3>4, <2>4, <2>6, <2>9
  <2>14. Leaving(ch)'
    BY <2>3, <2>7, <2>8, <2>11, <2>12, <2>13 DEF Leaving
  <2>15. Ready(ch)' /\ Succeeding(ch)'
    BY <1>1, <2>3, <2>6, <2>7, <2>8, <2>11 DEF Ready, Succeeding
  <2> QED
    BY <2>14, <2>15 DEF Known
<1> QED
  BY <1>1, <1>2 DEF KnownInv

\* A handler step of a connection that was left, or about another channel.
LEMMA HandlerElse ==
  ASSUME KInv, NEW k \in Conns, NEW ch \in Channels, ~Spoiled(ch)',
         UNCHANGED <<cur, attached, hop, loop, toSrv, toClt, member, clt>>,
         view'[ch] = view[ch], ch \in modChs' <=> ch \in modChs,
         \A j \in Conns \ {k} : handler'[j] = handler[j],
         k # cur \/ (handler[k].sig.ch # ch /\ (handler'[k].pc = "idle" \/ handler'[k].sig.ch # ch)),
         ~Spoiled(ch)
  PROVE  Known(ch)'
<1> USE DEF KInv, IInv
<1>1. Known(ch)
  BY DEF KnownInv
<1>2. /\ Passing(ch)' = Passing(ch) /\ Failing(ch)' = Failing(ch) /\ Got(ch)' = Got(ch)
      /\ At("got", Leaves, ch)' = At("got", Leaves, ch)
      /\ At("got", {"joinOK"}, ch)' = At("got", {"joinOK"}, ch)
  <2>1. CASE k # cur
    BY <2>1, Places DEF Passing, Failing, Got, At
  <2>2. CASE k = cur
    BY <2>2 DEF Passing, Failing, Got, At
  <2> QED
    BY <2>1, <2>2
<1>3. /\ \A op : Pending(op, ch)' = Pending(op, ch)
      /\ \A m : LeaveAsked(ch, m)' = LeaveAsked(ch, m) /\ SrvFree(ch, m)' = SrvFree(ch, m)
      /\ \A n : LeaveSaid(ch, n)' = LeaveSaid(ch, n) /\ CltFree(ch, n)' = CltFree(ch, n)
      /\ SrvEnd' = SrvEnd /\ CltEnd' = CltEnd
      /\ SrvFree(ch, SrvEnd)' = SrvFree(ch, SrvEnd) /\ CltFree(ch, CltEnd)' = CltFree(ch, CltEnd)
  BY DEF Pending, LeaveAsked, SrvFree, LeaveSaid, CltFree, SrvEnd, CltEnd
<1>4. /\ \A n : NoSuccess(ch, n) => NoSuccess(ch, n)'
      /\ NoSuccess(ch, CltEnd) => NoSuccess(ch, CltEnd)'
  BY <1>2, <1>3 DEF NoSuccess
<1>5. /\ \A m, n : AtMostOne(ch, m, n) => AtMostOne(ch, m, n)'
      /\ \A m : AtMostOne(ch, m, CltEnd) => AtMostOne(ch, m, CltEnd)'
      /\ AtMostOne(ch, SrvEnd, CltEnd) => AtMostOne(ch, SrvEnd, CltEnd)'
  BY <1>2, <1>3 DEF AtMostOne
<1>6. (NoLeave(ch) => NoLeave(ch)') /\ (Calm(ch) => Calm(ch)')
  BY <1>2, <1>3, <1>4, <1>5 DEF NoLeave, Calm, MayRejoin
<1>7. Ready(ch)'
  BY <1>1, <1>2, <1>3, <1>6 DEF Known, Ready
<1>8. Succeeding(ch)' \/ ~attached
  BY <1>1, <1>2, <1>3, <1>6 DEF Known, Succeeding
<1>9. Leaving(ch)' \/ ~attached
  BY <1>1, <1>2, <1>3, <1>4, <1>5, <1>6 DEF Known, Leaving
<1> QED
  BY <1>7, <1>8, <1>9 DEF Known

\* The handler of the current connection goes on about this channel, and nobody
\* has left it: what is said of the signals that are under way is still true.
LEMMA HandlerGoes ==
  ASSUME UNCHANGED <<cur, attached, hop, loop, toSrv, toClt, member, clt>>, NEW ch,
         handler'[cur].pc # "got",
         Got(ch) \/ (ch \in modChs' <=> ch \in modChs)
  PROVE  /\ \A op : Pending(op, ch)' = Pending(op, ch)
         /\ \A m : LeaveAsked(ch, m)' = LeaveAsked(ch, m) /\ SrvFree(ch, m)' = SrvFree(ch, m)
         /\ \A n : LeaveSaid(ch, n)' = LeaveSaid(ch, n)
         /\ ~Got(ch)' /\ ~At("got", Leaves, ch)'
         /\ NoLeave(ch) => NoLeave(ch)'
         /\ \A n : NoSuccess(ch, n) => NoSuccess(ch, n)'
         /\ NoSuccess(ch, CltEnd) => NoSuccess(ch, CltEnd)'
         /\ \A m, n : AtMostOne(ch, m, n) => AtMostOne(ch, m, n)'
         /\ \A m : AtMostOne(ch, m, CltEnd) => AtMostOne(ch, m, CltEnd)'
         /\ ~Passing(ch)' => (Calm(ch) => Calm(ch)')
<1>1. /\ \A op : Pending(op, ch)' = Pending(op, ch)
      /\ \A m : LeaveAsked(ch, m)' = LeaveAsked(ch, m) /\ SrvFree(ch, m)' = SrvFree(ch, m)
      /\ \A n : LeaveSaid(ch, n)' = LeaveSaid(ch, n) /\ CltFree(ch, n)' = CltFree(ch, n)
      /\ SrvEnd' = SrvEnd /\ CltEnd' = CltEnd
      /\ SrvFree(ch, SrvEnd)' = SrvFree(ch, SrvEnd) /\ CltFree(ch, CltEnd)' = CltFree(ch, CltEnd)
  BY DEF Pending, LeaveAsked, SrvFree, LeaveSaid, CltFree, SrvEnd, CltEnd
<1>2. ~Got(ch)' /\ ~At("got", Leaves, ch)' /\ ~At("got", {"joinOK"}, ch)'
  BY DEF Got, At
<1>3. NoLeave(ch) => NoLeave(ch)'
  BY <1>1, <1>2 DEF NoLeave
<1>4. /\ \A n : NoSuccess(ch, n) => NoSuccess(ch, n)'
      /\ NoSuccess(ch, CltEnd) => NoSuccess(ch, CltEnd)'
  BY <1>1, <1>2 DEF NoSuccess
<1>5. /\ \A m, n : AtMostOne(ch, m, n) => AtMostOne(ch, m, n)'
      /\ \A m : AtMostOne(ch, m, CltEnd) => AtMostOne(ch, m, CltEnd)'
      /\ AtMostOne(ch, SrvEnd, CltEnd) => AtMostOne(ch, SrvEnd, CltEnd)'
  BY <1>1, <1>2 DEF AtMostOne
<1>6. ~Passing(ch)' => (Calm(ch) => Calm(ch)')
  BY <1>1, <1>2, <1>4, <1>5 DEF Calm, MayRejoin
<1> QED
  BY <1>1, <1>2, <1>3, <1>4, <1>5, <1>6

\* The handler records a signal.  A success that it sends on comes before any
\* request to leave, so that the server has joined the client.
LEMMA RecordKnown ==
  ASSUME KInv, NEW k \in Conns, Record(k)
  PROVE  SuccessInv' /\ KnownInv'
<1> DEFINE sig == handler[k].sig
<1> USE DEF KInv, IInv
<1>1. /\ UNCHANGED <<cur, attached, hop, loop, toSrv, toClt, member, clt, view>>
      /\ handler[k].pc = "got"
      /\ late' = IF Left(k) THEN late \cup {sig.ch} ELSE late
      /\ modChs' = Recorded(sig)
      /\ sig \in Signal
      /\ \A j \in Conns \ {k} : handler'[j] = handler[j]
      /\ IF sig.op = "joinOK" /\ sig.ch \in modChs
         THEN handler'[k] = NoSignal
         ELSE handler'[k].pc = "send" /\ handler'[k].sig = sig
  BY DEF Record, Late, hopVars, cltVars, srvVars, history, TypeOK
<1>2. handler'[k].pc # "got" /\ (handler'[k].pc # "idle" => handler'[k].sig = sig)
  BY <1>1 DEF NoSignal
<1>3. SuccessInv'
  <2>1. handler'[cur].pc = "got" => handler'[cur] = handler[cur]
    BY <1>1, <1>2, Places
  <2> QED
    BY <2>1, <1>1 DEF SuccessInv, At, LeaveSaid
<1>4. /\ \A c : c # sig.ch => (c \in modChs' <=> c \in modChs)
      /\ sig.op = "joinOK" => sig.ch \in modChs'
  BY <1>1 DEF Recorded, Signal
<1>5. ASSUME NEW ch \in Channels, ~Spoiled(ch)'
      PROVE  Known(ch)'
  <2>1. ~Spoiled(ch)
    <3> SUFFICES ASSUME NEW j \in Conns, Left(j), handler[j].pc # "idle", handler[j].sig.ch = ch
                 PROVE  Spoiled(ch)'
      BY <1>1, <1>5 DEF Spoiled
    <3>1. CASE j = k
      BY <3>1, <1>1 DEF Spoiled
    <3>2. CASE j # k
      BY <3>2, <1>1 DEF Spoiled, Left
    <3> QED
      BY <3>1, <3>2
  <2>2. CASE k # cur \/ sig.ch # ch
    <3>1. ch \in modChs' <=> ch \in modChs
      <4>1. CASE sig.ch = ch
        <5>1. Left(k)
          BY <2>2, <4>1, <1>1, Places DEF Left, HopInv, Conns
        <5> QED
          BY <5>1, <4>1, <1>1, <1>5 DEF Spoiled
      <4> QED
        BY <4>1, <1>4
    <3> QED
      BY <3>1, <2>1, <2>2, <1>1, <1>2, <1>5, HandlerElse
  <2>3. CASE k = cur /\ sig.ch = ch
    <3>0. attached
      BY <2>3, <1>1, <1>5 DEF Spoiled, Left
    <3>1. Ready(ch) /\ Leaving(ch) /\ Succeeding(ch) /\ Got(ch)
      BY <2>1, <2>3, <3>0, <1>1 DEF KnownInv, Known, Got
    <3>2. ~Passing(ch)
      BY <2>3, <1>1 DEF Passing, At
    <3>3. /\ \A op : Pending(op, ch)' = Pending(op, ch)
          /\ \A m : LeaveAsked(ch, m)' = LeaveAsked(ch, m) /\ SrvFree(ch, m)' = SrvFree(ch, m)
          /\ \A n : LeaveSaid(ch, n)' = LeaveSaid(ch, n)
          /\ ~Got(ch)' /\ ~At("got", Leaves, ch)'
          /\ NoLeave(ch) => NoLeave(ch)'
          /\ \A n : NoSuccess(ch, n) => NoSuccess(ch, n)'
          /\ NoSuccess(ch, CltEnd) => NoSuccess(ch, CltEnd)'
          /\ \A m, n : AtMostOne(ch, m, n) => AtMostOne(ch, m, n)'
          /\ \A m : AtMostOne(ch, m, CltEnd) => AtMostOne(ch, m, CltEnd)'
          /\ ~Passing(ch)' => (Calm(ch) => Calm(ch)')
      <4>1. handler'[cur].pc # "got"
        BY <1>2, <2>3
      <4> HIDE DEF sig
      <4> QED
        BY <4>1, <3>1, <1>1, HandlerGoes
    <3>4. ASSUME ~Passing(ch)' PROVE Leaving(ch)' /\ Succeeding(ch)'
      BY <3>1, <3>3, <3>4, <1>1 DEF Leaving, Succeeding
    <3>5. CASE sig.op = "joinOK" /\ ch \notin modChs
      <4>1. At("got", {"joinOK"}, ch)
        BY <2>3, <3>5, <1>1 DEF At
      <4>2. /\ \A n : ~NoSuccess(ch, n)
            /\ \A m, n : ~AtMostOne(ch, m, n)
            /\ ~NoSuccess(ch, CltEnd)
            /\ \A m : ~AtMostOne(ch, m, CltEnd)
            /\ ~AtMostOne(ch, SrvEnd, CltEnd)
        BY <4>1, <3>1, <3>5 DEF NoSuccess, AtMostOne
      <4>3. ~Calm(ch)
        BY <4>2 DEF Calm
      <4>4. /\ \A m \in DOMAIN toSrv : ~LeaveAsked(ch, m)
            /\ \A n \in DOMAIN toClt : ~LeaveSaid(ch, n)
            /\ ~Pending("leave", ch) /\ view[ch] # "ready"
        BY <4>2, <4>3, <3>0, <3>1 DEF Leaving, Ready
      <4>5. NoLeave(ch)'
        BY <4>4, <3>3, <1>1 DEF NoLeave
      <4>6. ch \in member /\ \A j \in DOMAIN toClt : ~Joined(toClt[j], ch)
        BY <4>1, <4>4, <3>0 DEF SuccessInv
      <4>7. ch \in modChs'
        BY <1>4, <2>3, <3>5
      <4>8. Succeeding(ch)'
        BY <4>4, <4>5, <4>6, <4>7, <3>3, <1>1 DEF Succeeding
      <4>9. Leaving(ch)'
        BY <4>4, <3>3, <1>1 DEF Leaving
      <4> QED
        BY <4>4, <4>8, <4>9, <1>1 DEF Known, Ready
    <3>6. CASE sig.op = "joinOK" /\ ch \in modChs
      <4>1. ~Passing(ch)' /\ ch \in modChs'
        BY <1>1, <1>4, <2>3, <3>6 DEF Passing, At, NoSignal
      <4>2. Ready(ch)'
        BY <4>1, <3>0, <3>1, <3>3, <1>1 DEF Ready
      <4> QED
        BY <4>1, <4>2, <3>4 DEF Known
    <3>7. CASE sig.op = "joinFail"
      <4>1. ~Passing(ch)' /\ Failing(ch)'
        BY <1>1, <2>3, <3>7 DEF Passing, Failing, At
      <4>2. Ready(ch)'
        BY <4>1, <3>0, <3>1, <3>3, <1>1 DEF Ready
      <4> QED
        BY <4>1, <4>2, <3>4 DEF Known
    <3>8. CASE sig.op \in Leaves
      <4>1. ~Passing(ch)' /\ At("got", Leaves, ch)
        BY <1>1, <2>3, <3>8 DEF Passing, At, Leaves
      <4>2. view[ch] # "ready"
        BY <4>1, <3>0, <3>1 DEF Ready, NoLeave
      <4> QED
        BY <4>1, <4>2, <3>4, <1>1 DEF Known, Ready
    <3> QED
      BY <3>5, <3>6, <3>7, <3>8, <1>1 DEF Signal, Leaves
  <2> QED
    BY <2>2, <2>3
<1> QED
  BY <1>1, <1>3, <1>5 DEF KnownInv

\* The handler sends a signal on: the client believes to be in a channel from the
\* moment on that it learns of the success, and that is recorded.
LEMMA PassKnown ==
  ASSUME KInv, NEW k \in Conns, Pass(k)
  PROVE  SuccessInv' /\ KnownInv'
<1> DEFINE sig == handler[k].sig
<1> USE DEF KInv, IInv
<1>1. /\ UNCHANGED <<cur, attached, hop, loop, toSrv, toClt, member, clt, modChs>>
      /\ handler[k].pc = "send"
      /\ late' = IF Left(k) THEN late \cup {sig.ch} ELSE late
      /\ sig \in Signal
      /\ \A j \in Conns \ {k} : handler'[j] = handler[j]
      /\ handler'[k] = NoSignal
      /\ \A c \in Channels : c # sig.ch => view'[c] = view[c]
      /\ view'[sig.ch] = Believed(sig)
  BY DEF Pass, Late, hopVars, srvVars, history, TypeOK, Signal
<1>2. handler'[k].pc = "idle"
  BY <1>1 DEF NoSignal
<1>3. SuccessInv'
  <2>1. handler'[cur].pc = "got" => handler'[cur] = handler[cur]
    BY <1>1, <1>2, Places
  <2> QED
    BY <2>1, <1>1 DEF SuccessInv, At, LeaveSaid
<1>4. ASSUME NEW ch \in Channels, ~Spoiled(ch)'
      PROVE  Known(ch)'
  <2>1. ~Spoiled(ch)
    <3> SUFFICES ASSUME NEW j \in Conns, Left(j), handler[j].pc # "idle", handler[j].sig.ch = ch
                 PROVE  Spoiled(ch)'
      BY <1>1, <1>4 DEF Spoiled
    <3>1. CASE j = k
      BY <3>1, <1>1 DEF Spoiled
    <3>2. CASE j # k
      BY <3>2, <1>1 DEF Spoiled, Left
    <3> QED
      BY <3>1, <3>2
  <2>2. CASE k # cur \/ sig.ch # ch
    <3>1. sig.ch # ch
      <4>1. ASSUME k # cur PROVE Left(k)
        BY <4>1, <1>1, Places DEF Left, HopInv, Conns
      <4> QED
        BY <4>1, <2>2, <1>1, <1>4 DEF Spoiled
    <3> QED
      BY <3>1, <2>1, <2>2, <1>1, <1>2, <1>4, HandlerElse
  <2>3. CASE k = cur /\ sig.ch = ch
    <3>0. attached
      BY <2>3, <1>1, <1>4 DEF Spoiled, Left
    <3>1. Ready(ch) /\ Leaving(ch) /\ Succeeding(ch)
      BY <2>1, <3>0 DEF KnownInv, Known
    <3>2. ~Passing(ch)' /\ handler'[cur].pc # "got"
      BY <2>3, <1>2, <1>1 DEF Passing, At
    <3>3. /\ \A op : Pending(op, ch)' = Pending(op, ch)
          /\ \A m : LeaveAsked(ch, m)' = LeaveAsked(ch, m) /\ SrvFree(ch, m)' = SrvFree(ch, m)
          /\ \A n : LeaveSaid(ch, n)' = LeaveSaid(ch, n)
          /\ ~Got(ch)' /\ ~At("got", Leaves, ch)'
          /\ NoLeave(ch) => NoLeave(ch)'
          /\ \A n : NoSuccess(ch, n) => NoSuccess(ch, n)'
          /\ NoSuccess(ch, CltEnd) => NoSuccess(ch, CltEnd)'
          /\ \A m, n : AtMostOne(ch, m, n) => AtMostOne(ch, m, n)'
          /\ \A m : AtMostOne(ch, m, CltEnd) => AtMostOne(ch, m, CltEnd)'
          /\ ~Passing(ch)' => (Calm(ch) => Calm(ch)')
      BY <3>2, <1>1, HandlerGoes
    <3>4. Succeeding(ch)'
      BY <3>2 DEF Succeeding
    <3>5. CASE sig.op = "joinOK"
      <4>1. /\ ch \in modChs \cap member
            /\ NoLeave(ch) /\ ~Pending("leave", ch)
            /\ \A i \in DOMAIN toClt : ~Joined(toClt[i], ch)
        BY <3>1, <3>5, <2>3, <1>1 DEF Succeeding, Passing, At
      <4>2. NoSuccess(ch, CltEnd)'
        BY <4>1, <3>2, <1>1 DEF NoSuccess, At
      <4>3. Calm(ch)'
        BY <4>1, <4>2, <3>2, <1>1 DEF Calm
      <4>4. Ready(ch)'
        BY <4>1, <4>3, <3>3, <1>1 DEF Ready
      <4>5. Leaving(ch)'
        BY <4>1, <4>3, <3>3, <1>1 DEF Leaving, NoLeave
      <4> QED
        BY <3>4, <4>4, <4>5 DEF Known
    <3>6. CASE sig.op # "joinOK"
      <4>1. Leaving(ch)'
        BY <3>1, <3>2, <3>3, <1>1 DEF Leaving
      <4>2. CASE sig.op = "joinFail"
        <5>1. view'[ch] # "ready"
          BY <4>2, <2>3, <1>1 DEF Believed
        <5> QED
          BY <4>1, <5>1, <3>4 DEF Known, Ready
      <4>3. CASE sig.op \in Leaves
        <5>1. view'[ch] = view[ch]
          BY <4>3, <2>3, <1>1 DEF Believed, Leaves
        <5>2. ~Failing(ch)
          BY <4>3, <2>3 DEF Failing, At, Leaves
        <5>3. Ready(ch)'
          BY <5>1, <5>2, <3>0, <3>1, <3>2, <3>3, <1>1 DEF Ready
        <5> QED
          BY <4>1, <5>3, <3>4 DEF Known
      <4> QED
        BY <4>2, <4>3, <3>6, <1>1 DEF Signal, Leaves
    <3> QED
      BY <3>5, <3>6
  <2> QED
    BY <2>2, <2>3
<1> QED
  BY <1>1, <1>3, <1>4 DEF KnownInv

-----------------------------------------------------------------------------
\* No reachable state is outside KInv.
THEOREM InductiveKnown == Spec => []KInv
<1>1. Init => KInv
  BY InitInv, InitKnown DEF KInv
<1>2. KInv /\ [Next]_vars => SuccessInv' /\ KnownInv'
  <2> SUFFICES ASSUME KInv, [Next]_vars PROVE SuccessInv' /\ KnownInv'
    OBVIOUS
  <2>1. CASE \E ch \in Channels : Request("join", ch) \/ Request("leave", ch) \/ Rejoin(ch)
    BY <2>1, RequestKnown, RejoinKnown
  <2>2. CASE Forward \/ EndRequest
    BY <2>2, ForwardKnown, EndRequestKnown
  <2>3. CASE Answer \/ Ignore \/ Welcome
    BY <2>3, AnswerSuccess, AnswerKnown, IgnoreKnown, WelcomeKnown
  <2>4. CASE Receive \/ \E k \in Conns : Record(k) \/ Pass(k)
    BY <2>4, ReceiveSuccess, ReceiveKnown, RecordKnown, PassKnown
  <2>5. CASE Leave \/ Connect \/ EndLoop
    BY <2>5, LeaveKnown, ConnectKnown, EndLoopKnown
  <2>6. CASE UNCHANGED vars
    BY <2>6, StutterKnown
  <2> QED
    BY <2>1, <2>2, <2>3, <2>4, <2>5, <2>6 DEF Next
<1>3. KInv /\ IInv' /\ SuccessInv' /\ KnownInv' => KInv'
  BY DEF KInv
<1> QED
  BY <1>1, <1>2, <1>3, Inductive, PTL DEF Spec

\* When everything was answered and handled, the client believes to be in no
\* channel that modChs does not list, so that the next hop joins it again
\* (plugin_modchan.go, process.go of ToCltModChanSig, the loop in HopRaw).
THEOREM KnowsChannels == Spec => []ClientIsKnown
<1>1. KInv => ClientIsKnown
  <2> SUFFICES ASSUME KInv, Resting, NEW ch \in Channels, view[ch] = "ready", ch \notin late
               PROVE  ch \in modChs
    BY DEF ClientIsKnown
  <2>1. \A k \in Conns : handler[k].pc = "idle"
    BY DEF Resting
  <2>2. ~Spoiled(ch)
    BY <2>1 DEF Spoiled
  <2>3. ~Failing(ch)
    BY <2>1, Places DEF Failing, At, KInv, IInv
  <2> QED
    BY <2>2, <2>3 DEF KInv, KnownInv, Known, Ready
<1> QED
  BY <1>1, InductiveKnown, PTL
=============================================================================
