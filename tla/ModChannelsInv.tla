--------------------------- MODULE ModChannelsInv ---------------------------
(***************************************************************************)
(* Why the invariants of ModChannels hold: the inductive invariants that   *)
(* ModChannelsProofs proves.                                               *)
(***************************************************************************)
EXTENDS ModChannels

-----------------------------------------------------------------------------
(* Why RejoinedAfterHop holds *)

Joins(req, ch) == req.op = "join" /\ req.ch = ch
Joined(sig, ch) == sig.op = "joinOK" /\ sig.ch = ch
Removes(sig, ch) == sig.op \in {"joinFail", "leaveOK"} /\ sig.ch = ch
Removal(ch) == \E i \in DOMAIN toClt : Removes(toClt[i], ch)
Handles(ch) == handler[cur].pc = "got" /\ Removes(handler[cur].sig, ch)

HopInv ==
  /\ (hop = "cleared") <=> ~attached
  /\ hop = "cleared" => cur < MaxConns
  /\ ~attached => toSrv = <<>> /\ toClt = <<>>
  /\ \A k \in Conns : k > cur => handler[k].pc = "idle"

\* Behind a success whose channel the server took back is the signal of that.
OrderInv ==
  attached => \A ch \in Channels \ member :
    /\ \A i \in DOMAIN toClt : Joined(toClt[i], ch)
         => \E j \in DOMAIN toClt : j > i /\ Removes(toClt[j], ch)
    /\ handler[cur].pc = "got" /\ Joined(handler[cur].sig, ch) => Removal(ch)

\* A recorded channel that the server has not joined is about to be joined, or
\* to be removed from the record.
PendingInv ==
  attached => \A ch \in modChs \ (unsure \cup member) :
    \/ hop = "rejoin" /\ ch \in loop.todo \ loop.done
    \/ \E i \in DOMAIN toSrv : Joins(toSrv[i], ch)
    \/ Removal(ch)
    \/ Handles(ch)

\* Inductive: no step leads out of it.
IInv == TypeOK /\ HopInv /\ OrderInv /\ PendingInv

-----------------------------------------------------------------------------
(* Why ClientIsKnown holds.  All of it is about a channel of which no       *)
(* signal is left to be handled by the handler of a connection that was     *)
(* left, and none has been.                                                 *)

Spoiled(ch) ==
  \/ ch \in late
  \/ \E k \in Conns : Left(k) /\ handler[k].pc # "idle" /\ handler[k].sig.ch = ch

Leaves == {"leaveOK", "leaveFail"}
At(l, ops, ch) ==
  handler[cur].pc = l /\ handler[cur].sig.op \in ops /\ handler[cur].sig.ch = ch
Passing(ch) == At("send", {"joinOK"}, ch)
Failing(ch) == At("send", {"joinFail"}, ch)
Got(ch) == handler[cur].pc = "got" /\ handler[cur].sig.ch = ch
Pending(op, ch) ==
  clt.pc = "read" /\ clt.srv = cur /\ clt.req.op = op /\ clt.req.ch = ch

\* The first signals, and the first requests, are not about ch.
CltFree(ch, n) == \A i \in DOMAIN toClt : i < n => toClt[i].ch # ch
SrvFree(ch, m) == \A i \in DOMAIN toSrv : i < m => toSrv[i].ch # ch
NoSuccess(ch, n) ==
  /\ ~At("got", {"joinOK"}, ch)
  /\ \A i \in DOMAIN toClt : i < n => ~Joined(toClt[i], ch)

\* At most one of the first signals and requests is about ch, and if there is
\* one the channel is recorded.
AtMostOne(ch, m, n) ==
  /\ \A i, j \in DOMAIN toSrv : i < m /\ j < m /\ toSrv[i].ch = ch /\ toSrv[j].ch = ch => i = j
  /\ \A i, j \in DOMAIN toClt : i < n /\ j < n /\ toClt[i].ch = ch /\ toClt[j].ch = ch => i = j
  /\ SrvFree(ch, m) \/ CltFree(ch, n)
  /\ Got(ch) => SrvFree(ch, m) /\ CltFree(ch, n)
  /\ ch \in modChs \/ (SrvFree(ch, m) /\ CltFree(ch, n) /\ ~Got(ch))

SrvEnd == Len(toSrv) + 1
CltEnd == Len(toClt) + 1
MayRejoin(ch) == hop = "rejoin" /\ ch \notin loop.done

\* No signal about ch that is under way makes the client believe to be in it.
Calm(ch) ==
  /\ ~Passing(ch)
  /\ \/ ch \in member /\ NoSuccess(ch, CltEnd)
     \/ /\ AtMostOne(ch, SrvEnd, CltEnd)
        /\ ~Pending("join", ch)
        /\ MayRejoin(ch) => SrvFree(ch, SrvEnd) /\ CltFree(ch, CltEnd) /\ ~Got(ch)

\* Where the client's request to leave ch is.
LeaveAsked(ch, m) == m \in DOMAIN toSrv /\ toSrv[m].op = "leave" /\ toSrv[m].ch = ch
LeaveSaid(ch, n) == n \in DOMAIN toClt /\ toClt[n].op \in Leaves /\ toClt[n].ch = ch
NoLeave(ch) ==
  /\ \A m \in DOMAIN toSrv : ~LeaveAsked(ch, m)
  /\ \A n \in DOMAIN toClt : ~LeaveSaid(ch, n)
  /\ ~At("got", Leaves, ch)

\* Behind a success the client has left the channel again, or it is in it.
SuccessInv ==
  attached => \A ch \in Channels :
    /\ \A i \in DOMAIN toClt : Joined(toClt[i], ch) =>
         \/ \E j \in DOMAIN toClt : j > i /\ LeaveSaid(ch, j)
         \/ ch \in member /\ \A j \in DOMAIN toClt : j > i => ~Joined(toClt[j], ch)
    /\ At("got", {"joinOK"}, ch) =>
         \/ \E j \in DOMAIN toClt : LeaveSaid(ch, j)
         \/ ch \in member /\ \A j \in DOMAIN toClt : ~Joined(toClt[j], ch)

Ready(ch) ==
  view[ch] = "ready" =>
    /\ ch \in modChs \/ Failing(ch)
    /\ attached => NoLeave(ch) /\ ~Pending("leave", ch) /\ Calm(ch)

Leaving(ch) ==
  /\ Pending("leave", ch) => NoLeave(ch) /\ Calm(ch)
  /\ \A m \in DOMAIN toSrv : LeaveAsked(ch, m) =>
       /\ ~Passing(ch) /\ ~At("got", Leaves, ch)
       /\ \A i \in DOMAIN toSrv : LeaveAsked(ch, i) => i = m
       /\ \A n \in DOMAIN toClt : ~LeaveSaid(ch, n)
       /\ \/ (ch \in member \/ SrvFree(ch, m)) /\ NoSuccess(ch, CltEnd)
          \/ AtMostOne(ch, m, CltEnd)
  /\ \A n \in DOMAIN toClt : LeaveSaid(ch, n) =>
       /\ ~Passing(ch) /\ ~At("got", Leaves, ch)
       /\ \A i \in DOMAIN toClt : LeaveSaid(ch, i) => i = n
       /\ NoSuccess(ch, n) \/ AtMostOne(ch, 1, n)

Succeeding(ch) ==
  Passing(ch) =>
    /\ ch \in modChs \cap member
    /\ NoLeave(ch) /\ ~Pending("leave", ch)
    /\ \A i \in DOMAIN toClt : ~Joined(toClt[i], ch)

Known(ch) == Ready(ch) /\ (attached => Leaving(ch) /\ Succeeding(ch))

KnownInv ==
  /\ clt.srv # None => clt.srv <= cur
  /\ \A ch \in Channels : ~Spoiled(ch) => Known(ch)

\* Inductive as well.
KInv == IInv /\ SuccessInv /\ KnownInv

=============================================================================
