---------------------------- MODULE ContentMux ----------------------------
(***************************************************************************)
(* The content of the media pools, collected for one client (content.go):  *)
(* muxContent contacts a server of every pool, a goroutine per connection  *)
(* downloads its content, and the node numbers of all servers are mapped   *)
(* into one space.  Downloads for different clients share nothing but the  *)
(* media cache on disk, so one call of muxContent is enough.               *)
(***************************************************************************)
EXTENDS Naturals, Sequences

CONSTANTS
  Servers, Pools, \* the configuration when muxContent reads it
  PoolOf,         \* Server.MediaPool
  NodeDefs,       \* local numbers of the node definitions a server sends
  MaxContent,     \* the greatest mt.Content, 2^16 - 1 in the code
  Unknown, Ignore,\* mt.Unknown and mt.Ignore; mt.Air is between them
  None

Content == 0..MaxContent
Reserved == Unknown..Ignore

ASSUME ContentAssumption ==
  /\ PoolOf \in [Servers -> Pools]
  /\ \A p \in Pools : \E s \in Servers : PoolOf[s] = p
  /\ MaxContent \in Nat /\ Unknown \in Nat /\ Ignore \in Nat
  /\ 0 < Unknown /\ Unknown <= Ignore /\ Ignore < MaxContent
  /\ NodeDefs \in [Servers -> Seq(Content)]
  /\ None \notin Servers \cup Pools

VARIABLES
  pc,       \* control of muxContent
  todo,     \* pools the loop has not come to
  pool,     \* the pool it is at
  members,  \* servers of that pool it has not tried
  err,      \* the error result is not nil
  deny,     \* denyPools and failedPools
  conns,    \* the connections, in the order they were made
  open,     \* those that are not closed
  greeting, \* those whose ToSrvInit is still being repeated
  cstate,   \* contentConn.cstate
  method,   \* contentConn.auth.method
  turn,     \* the packet the server sends next, "none" if it waits
  got,      \* the parts of the content that arrived
  success,  \* connections with contentConn.success
  done,     \* those whose doneCh is closed
  at,       \* position of a loop over conns
  def,      \* position of the loop over the definitions of one of them
  param0,   \* the next free number
  wrapped,  \* history: the numbers of mt.Content were used up
  p0Map,    \* local to global numbers, by server
  p0SrvMap  \* global numbers to server and local number

poolVars == <<todo, pool, members, err>>
connVars == <<open, greeting, cstate, method, turn, got, success, done>>
nodeVars == <<def, param0, wrapped, p0Map, p0SrvMap>>
vars == <<pc, poolVars, deny, conns, connVars, at, nodeVars>>

Parts == {"items", "nodes", "media"}
Replace(m, k, v) == [x \in DOMAIN m \cup {k} |-> IF x = k THEN v ELSE m[x]]

Init ==
  /\ pc = "pools"
  /\ todo = Pools
  /\ pool = None
  /\ members = {}
  /\ err = FALSE
  /\ deny = {}
  /\ conns = <<>>
  /\ open = {}
  /\ greeting = {}
  /\ cstate = [s \in Servers |-> "created"]
  /\ method = [s \in Servers |-> "none"]
  /\ turn = [s \in Servers |-> "none"]
  /\ got = [s \in Servers |-> {}]
  /\ success = {}
  /\ done = {}
  /\ at = 1
  /\ def = 1
  /\ param0 = 0
  /\ wrapped = FALSE
  /\ p0Map = <<>>
  /\ p0SrvMap = [n \in Reserved |-> [name |-> None, param0 |-> n]]

-----------------------------------------------------------------------------
(***************************************************************************)
(* muxContent: the loop over the pools.  Go iterates over both maps in any *)
(* order.                                                                  *)
(***************************************************************************)
PickPool(p) ==
  /\ pc = "pools"
  /\ pool = None
  /\ p \in todo
  /\ pool' = p
  /\ todo' = todo \ {p}
  /\ members' = {s \in Servers : PoolOf[s] = p}
  /\ UNCHANGED <<pc, err, deny, conns, connVars, at, nodeVars>>

\* The address cannot be resolved or dialled; the error result is set.
TryFail(s) ==
  /\ pool # None
  /\ s \in members
  /\ members' = members \ {s}
  /\ err' = TRUE
  /\ UNCHANGED <<pc, todo, pool, deny, conns, connVars, at, nodeVars>>

\* connectContent: the goroutine of the connection starts.
Connect(s) ==
  /\ conns' = Append(conns, s)
  /\ open' = open \cup {s}
  /\ greeting' = greeting \cup {s}
  /\ turn' = [turn EXCEPT ![s] = "hello"]

\* Mutant: the error of a member that failed before is kept.
TryKeepsErr(s) ==
  /\ pool # None
  /\ s \in members
  /\ Connect(s)
  /\ pool' = None
  /\ members' = {}
  /\ UNCHANGED <<pc, todo, err, deny, cstate, method, got, success, done, at, nodeVars>>

\* The first member that is reached represents the pool.
TryOk(s) ==
  /\ pool # None
  /\ s \in members
  /\ Connect(s)
  /\ pool' = None
  /\ members' = {}
  /\ err' = FALSE
  /\ UNCHANGED <<pc, todo, deny, cstate, method, got, success, done, at, nodeVars>>

PoolDenied ==
  /\ pool # None
  /\ members = {}
  /\ deny' = deny \cup {pool}
  /\ pool' = None
  /\ UNCHANGED <<pc, todo, members, err, conns, connVars, at, nodeVars>>

PoolsDone ==
  /\ pc = "pools"
  /\ pool = None
  /\ todo = {}
  /\ pc' = "errors"
  /\ UNCHANGED <<poolVars, deny, conns, connVars, at, nodeVars>>

-----------------------------------------------------------------------------
(***************************************************************************)
(* handleContent, the goroutine of the connection to s.  Close wakes its   *)
(* Recv, which then fails; the server sends what it is asked for.          *)
(***************************************************************************)
Recv(s, packet) == s \in open /\ turn[s] = packet
Send(s, packet) == turn' = [turn EXCEPT ![s] = packet]
Got(s, part) == got' = [got EXCEPT ![s] = @ \cup {part}]
Close(s) == open' = open \ {s} /\ turn' = [turn EXCEPT ![s] = "none"]
OtherVars == <<pc, poolVars, deny, conns, at, nodeVars>>

\* ToSrvInit is repeated until the state has changed; the loop looks at it
\* every half a second, so a timeout may still hit a server that answered.
GreetEnd(s) ==
  /\ s \in greeting
  /\ cstate[s] # "created"
  /\ greeting' = greeting \ {s}
  /\ UNCHANGED <<OtherVars, open, cstate, method, turn, got, success, done>>

GreetTimeout(s) ==
  /\ s \in greeting \cap open
  /\ Close(s)
  /\ UNCHANGED <<OtherVars, greeting, cstate, method, got, success, done>>

\* A serialisation version other than the proxy's is not answered.
RecvHello(s, m, answered) ==
  /\ Recv(s, "hello")
  /\ method[s] = "none"
  /\ cstate' = [cstate EXCEPT ![s] = "active"]
  /\ method' = [method EXCEPT ![s] = m]
  /\ Send(s, IF ~answered THEN "none" ELSE IF m = "SRP" THEN "saltB" ELSE "accept")
  /\ UNCHANGED <<OtherVars, open, greeting, got, success, done>>

\* The server also answers a ToSrvInit that was repeated.
RecvHelloAgain(s) ==
  /\ s \in open
  /\ method[s] # "none"
  /\ s \in greeting
  /\ Close(s)
  /\ UNCHANGED <<OtherVars, greeting, cstate, method, got, success, done>>

\* A salt that fails the checks is not answered.
RecvSaltB(s, answered) ==
  /\ Recv(s, "saltB")
  /\ method[s] = "SRP"
  /\ Send(s, IF answered THEN "accept" ELSE "none")
  /\ UNCHANGED <<OtherVars, open, greeting, cstate, method, got, success, done>>

RecvAcceptAuth(s) ==
  /\ Recv(s, "accept")
  /\ method' = [method EXCEPT ![s] = "none"]
  /\ Send(s, "items")
  /\ UNCHANGED <<OtherVars, open, greeting, cstate, got, success, done>>

RecvItemDefs(s) ==
  /\ Recv(s, "items")
  /\ Got(s, "items")
  /\ Send(s, "nodes")
  /\ UNCHANGED <<OtherVars, open, greeting, cstate, method, success, done>>

RecvNodeDefs(s) ==
  /\ Recv(s, "nodes")
  /\ Got(s, "nodes")
  /\ Send(s, "announce")
  /\ UNCHANGED <<OtherVars, open, greeting, cstate, method, success, done>>

\* The files that are not in the cache are requested.
RecvAnnounceMedia(s) ==
  /\ Recv(s, "announce")
  /\ Send(s, "media")
  /\ UNCHANGED <<OtherVars, open, greeting, cstate, method, got, success, done>>

\* Files come in bunches; the last one ends the download.
RecvMedia(s, last) ==
  /\ Recv(s, "media")
  /\ IF last
     THEN Close(s) /\ Got(s, "media") /\ success' = success \cup {s}
     ELSE UNCHANGED <<open, turn, got, success>>
  /\ UNCHANGED <<OtherVars, greeting, cstate, method, done>>

\* The server closes the connection, perhaps after a kick, or its transport
\* times out.  A server that only stops sending is never closed after its hello.
PeerClose(s) ==
  /\ s \in open
  /\ Close(s)
  /\ UNCHANGED <<OtherVars, greeting, cstate, method, got, success, done>>

\* Mutant: doneCh is closed after a complete download only.
ClosedUnnoticed(s) ==
  /\ s \in success
  /\ s \notin open
  /\ s \notin done
  /\ cstate' = [cstate EXCEPT ![s] = "init"]
  /\ done' = done \cup {s}
  /\ UNCHANGED <<OtherVars, open, greeting, method, turn, got, success>>

\* Recv fails: the loop ends, which also ends the greeting.
RecvClosed(s) ==
  /\ \E i \in DOMAIN conns : conns[i] = s
  /\ s \notin open
  /\ s \notin done
  /\ cstate' = [cstate EXCEPT ![s] = "init"]
  /\ done' = done \cup {s}
  /\ UNCHANGED <<OtherVars, open, greeting, method, turn, got, success>>

-----------------------------------------------------------------------------
(***************************************************************************)
(* muxErrors and muxNodeDefs, which wait for the goroutines in the order   *)
(* of the connections.                                                     *)
(***************************************************************************)

\* Mutant: an unfinished connection is looked at, as one that failed.
ErrorsDoNotWait ==
  /\ pc = "errors"
  /\ at \in DOMAIN conns
  /\ deny' = IF conns[at] \in success THEN deny ELSE deny \cup {PoolOf[conns[at]]}
  /\ at' = at + 1
  /\ UNCHANGED <<pc, poolVars, conns, connVars, nodeVars>>

WaitErrors ==
  /\ pc = "errors"
  /\ at \in DOMAIN conns
  /\ conns[at] \in done
  /\ deny' = IF conns[at] \in success THEN deny ELSE deny \cup {PoolOf[conns[at]]}
  /\ at' = at + 1
  /\ UNCHANGED <<pc, poolVars, conns, connVars, nodeVars>>

ErrorsDone ==
  /\ pc = "errors"
  /\ at \notin DOMAIN conns
  /\ pc' = "nodes"
  /\ at' = 1
  /\ UNCHANGED <<poolVars, deny, conns, connVars, nodeVars>>

\* The definitions a connection brought, also those of a failed one.
DefsOf(s) == IF "nodes" \in got[s] THEN NodeDefs[s] ELSE <<>>
Defaults == [n \in Reserved |-> n]

\* Mutant: the map of a server is made anew for every definition.
MapAnew(s) == Defaults

MapOf(s) == IF s \in DOMAIN p0Map THEN p0Map[s] ELSE Defaults

\* Mutant: the reserved numbers are not skipped.
SuccAnyNumber(n) == IF n = MaxContent THEN 0 ELSE n + 1

\* Mutant: the width of mt.Content is forgotten.
SuccUnbounded(n) == IF n + 1 \in Reserved THEN Ignore + 1 ELSE n + 1

\* param0++ in the width of mt.Content, past the reserved numbers.
Succ(n) ==
  LET m == IF n = MaxContent THEN 0 ELSE n + 1 IN
  IF m \in Reserved THEN Ignore + 1 ELSE m

MuxNode ==
  /\ pc = "nodes"
  /\ at \in DOMAIN conns
  /\ LET s == conns[at] IN
     /\ s \in done
     /\ def \in DOMAIN DefsOf(s)
     /\ LET l == DefsOf(s)[def] IN
        /\ p0Map' = Replace(p0Map, s, Replace(MapOf(s), l, param0))
        /\ p0SrvMap' = Replace(p0SrvMap, param0, [name |-> s, param0 |-> l])
  /\ param0' = Succ(param0)
  /\ wrapped' = (wrapped \/ param0 = MaxContent)
  /\ def' = def + 1
  /\ UNCHANGED <<pc, poolVars, deny, conns, connVars, at>>

NextConn ==
  /\ pc = "nodes"
  /\ at \in DOMAIN conns
  /\ conns[at] \in done
  /\ def \notin DOMAIN DefsOf(conns[at])
  /\ at' = at + 1
  /\ def' = 1
  /\ UNCHANGED <<pc, poolVars, deny, conns, connVars, param0, wrapped, p0Map, p0SrvMap>>

\* Every connection is closed when muxContent returns.
Return ==
  /\ pc = "nodes"
  /\ at \notin DOMAIN conns
  /\ pc' = "returned"
  /\ open' = {}
  /\ UNCHANGED <<poolVars, deny, conns, greeting, cstate, method, turn, got,
                 success, done, at, nodeVars>>

-----------------------------------------------------------------------------
\* globalParam0: the number the client is sent for the number l of server s.
GlobalParam0(s, l) ==
  IF s \notin DOMAIN p0Map THEN l
  ELSE IF l \in DOMAIN p0Map[s] THEN p0Map[s][l] ELSE 0

Handle(s) ==
  \/ GreetEnd(s) \/ GreetTimeout(s) \/ RecvHelloAgain(s)
  \/ \E answered \in BOOLEAN :
       \/ \E m \in {"SRP", "FirstSRP"} : RecvHello(s, m, answered)
       \/ RecvSaltB(s, answered)
  \/ RecvAcceptAuth(s) \/ RecvItemDefs(s) \/ RecvNodeDefs(s) \/ RecvAnnounceMedia(s)
  \/ \E last \in BOOLEAN : RecvMedia(s, last)
  \/ PeerClose(s) \/ RecvClosed(s)

Mux ==
  \/ \E p \in Pools : PickPool(p)
  \/ \E s \in Servers : TryFail(s) \/ TryOk(s)
  \/ PoolDenied \/ PoolsDone \/ WaitErrors \/ ErrorsDone \/ MuxNode \/ NextConn \/ Return

Next == Mux \/ \E s \in Servers : Handle(s)

Spec == Init /\ [][Next]_vars

(***************************************************************************)
(* The goroutines go on when they can, and a server that has not said      *)
(* hello is closed by the ten-second timer (content.go:119-141).  Nothing  *)
(* makes a server send or close after that.                                *)
(***************************************************************************)
Fairness ==
  /\ WF_vars(Mux)
  /\ \A s \in Servers : /\ WF_vars(RecvClosed(s))
                        /\ WF_vars(cstate[s] = "created" /\ GreetTimeout(s))

FairSpec == Spec /\ Fairness

-----------------------------------------------------------------------------
\* Type invariant of muxContent and its goroutines.
TypeOK ==
  /\ pc \in {"pools", "errors", "nodes", "returned"}
  /\ todo \subseteq Pools
  /\ pool \in Pools \cup {None}
  /\ members \subseteq Servers
  /\ err \in BOOLEAN
  /\ deny \subseteq Pools
  /\ conns \in Seq(Servers)
  /\ open \subseteq Servers
  /\ greeting \subseteq Servers
  /\ cstate \in [Servers -> {"created", "init", "active"}]
  /\ method \in [Servers -> {"none", "SRP", "FirstSRP"}]
  /\ turn \in [Servers -> {"none", "hello", "saltB", "accept", "items", "nodes",
                           "announce", "media"}]
  /\ got \in [Servers -> SUBSET Parts]
  /\ success \subseteq Servers
  /\ done \subseteq Servers
  /\ at \in Nat \ {0}
  /\ def \in Nat \ {0}
  /\ param0 \in Content
  /\ wrapped \in BOOLEAN
  /\ DOMAIN p0Map \subseteq Servers
  /\ \A s \in DOMAIN p0Map :
       DOMAIN p0Map[s] \subseteq Content /\ \A l \in DOMAIN p0Map[s] : p0Map[s][l] \in Content
  /\ DOMAIN p0SrvMap \subseteq Content
  /\ \A g \in DOMAIN p0SrvMap :
       p0SrvMap[g] \in [name : Servers \cup {None}, param0 : Content]

(***************************************************************************)
(* The two maps are inverse to each other (content.go:450-496): the number *)
(* a client is sent stands for one node of one server, and the reserved    *)
(* numbers for themselves, until the numbers of mt.Content are used up.    *)
(***************************************************************************)
RoundTrip ==
  ~wrapped => \A s \in DOMAIN p0Map : \A l \in DOMAIN p0Map[s] :
    LET g == p0Map[s][l] IN
    /\ g \in DOMAIN p0SrvMap
    /\ p0SrvMap[g].param0 = l
    /\ p0SrvMap[g].name = IF g \in Reserved THEN None ELSE s

(***************************************************************************)
(* When muxContent returns, every pool is denied or is represented by a    *)
(* server all of whose content has arrived, and a pool that is denied is   *)
(* not represented (content.go:534-578).                                   *)
(***************************************************************************)
PoolsSettled ==
  pc = "returned" => \A p \in Pools :
    p \in deny <=> ~\E i \in DOMAIN conns : PoolOf[conns[i]] = p /\ got[conns[i]] = Parts

(***************************************************************************)
(* The results of a connection are read after its goroutine ended: without *)
(* a lock, what muxContent reads is final (content.go:361-372).            *)
(***************************************************************************)
ReadsFinal ==
  pc \in {"nodes", "returned"} => \A i \in DOMAIN conns : conns[i] \in done

(***************************************************************************)
(* The client is turned away only if some pool could not be contacted: the *)
(* error of a member that failed is forgotten when another one of its pool *)
(* is reached (content.go:541-565).                                        *)
(***************************************************************************)
ErrNeedsDenial == pc # "pools" /\ err => deny # {}

(***************************************************************************)
(* Every number of every server whose content the client received is sent  *)
(* to it as a number of that server (content.go:581-588).                  *)
(***************************************************************************)
NodesTranslated ==
  pc = "returned" /\ ~wrapped => \A i \in DOMAIN conns :
    LET s == conns[i] IN
    s \in success => \A k \in DOMAIN NodeDefs[s] :
      LET l == NodeDefs[s][k] IN
      l \notin Reserved =>
        p0SrvMap[GlobalParam0(s, l)] = [name |-> s, param0 |-> l]

(***************************************************************************)
(* Why the above hold: the loop over the pools ends before the others, and *)
(* the errors were awaited in the order of the connections; the numbers    *)
(* are given in ascending order past the reserved ones, which stand for    *)
(* themselves (content.go:423-500, 534-578).                               *)
(***************************************************************************)
MuxInv ==
  /\ IF pc = "pools" THEN at = 1 ELSE pool = None
  /\ err => deny # {} \/ pool # None
  /\ pc = "errors" => \A i \in DOMAIN conns : i < at => conns[i] \in done
  /\ param0 \notin Reserved
  /\ \A n \in Reserved : /\ n \in DOMAIN p0SrvMap
                         /\ p0SrvMap[n] = [name |-> None, param0 |-> n]
  /\ ~wrapped => \A g \in DOMAIN p0SrvMap : g \in Reserved \/ g < param0

\* Inductive: no step leads out of it.
IInv == TypeOK /\ MuxInv /\ RoundTrip /\ ReadsFinal

(***************************************************************************)
(* Why PoolsSettled holds, beside IInv.  Every pool is still to come, is   *)
(* denied or has one connection; a denied one has none, or one that failed *)
(* for good (content.go:361-373, 534-565).                                 *)
(***************************************************************************)
PoolInv ==
  /\ pc # "pools" => todo = {}
  /\ pool \notin todo
  /\ members \subseteq {s \in Servers : PoolOf[s] = pool}
  /\ \A p \in Pools : \/ p \in todo \cup deny \/ p = pool
                      \/ \E i \in DOMAIN conns : PoolOf[conns[i]] = p
  /\ deny \cap (todo \cup {pool}) = {}
  /\ \A i \in DOMAIN conns : PoolOf[conns[i]] \notin todo \cup {pool}
  /\ \A i, j \in DOMAIN conns : PoolOf[conns[i]] = PoolOf[conns[j]] => i = j
  /\ \A i \in DOMAIN conns : PoolOf[conns[i]] \in deny => conns[i] \in done \ success
  /\ \A i \in DOMAIN conns :
       pc \in {"nodes", "returned"} \/ (pc = "errors" /\ i < at)
         => conns[i] \in success \/ PoolOf[conns[i]] \in deny

\* The parts that have arrived when the server sends this packet next.
Before(packet) ==
  CASE packet \in {"hello", "saltB", "accept", "items"} -> {}
    [] packet = "nodes" -> {"items"}
    [] packet \in {"announce", "media"} -> {"items", "nodes"}

(***************************************************************************)
(* A download: the parts arrive in order, contentConn.success says that    *)
(* all did, and nothing changes once doneCh is closed (content.go:111-300).*)
(***************************************************************************)
DownloadInv ==
  \A s \in Servers :
    /\ s \in open \cup done \/ got[s] # {} => \E i \in DOMAIN conns : conns[i] = s
    /\ turn[s] # "none" => got[s] = Before(turn[s])
    /\ s \in success <=> got[s] = Parts
    /\ s \in success \cup done => s \notin open

(***************************************************************************)
(* Why NodesTranslated holds: the definitions that the loops of            *)
(* muxNodeDefs have passed are mapped, and none to a reserved number       *)
(* (content.go:423-500).                                                   *)
(***************************************************************************)
NodesInv ==
  /\ pc \in {"pools", "errors"} => def = 1
  /\ pc = "returned" => at \notin DOMAIN conns
  /\ \A s \in DOMAIN p0Map : \A l \in DOMAIN p0Map[s] :
       l \notin Reserved => p0Map[s][l] \notin Reserved
  /\ pc \in {"nodes", "returned"} =>
       \A i \in DOMAIN conns : \A k \in DOMAIN DefsOf(conns[i]) :
         i < at \/ (i = at /\ k < def)
           => /\ conns[i] \in DOMAIN p0Map
              /\ DefsOf(conns[i])[k] \in DOMAIN p0Map[conns[i]]

\* Inductive together with IInv.
SettleInv == PoolInv /\ DownloadInv /\ NodesInv

(***************************************************************************)
(* muxContent returns, however its downloads fail and interleave with the  *)
(* loop (content.go:111-161, 361-373), unless a server that has said hello *)
(* neither completes its download nor closes: nothing but the server ends  *)
(* such a connection, which is waited for for ever (content.go:365).       *)
(***************************************************************************)
Stalls(s) == s \in open /\ cstate[s] = "active"
MuxReturns == <>(pc = "returned") \/ <>[](\E s \in Servers : Stalls(s))

(***************************************************************************)
(* muxContent implements PoolContent: the goroutines of the connections    *)
(* decide the fate of the pools one at a time and for good, although       *)
(* muxContent denies in two places and reads the successes without a lock  *)
(* (content.go:361-373, 534-593).                                          *)
(***************************************************************************)
FateOf(p) ==
  IF p \in deny THEN "denied"
  ELSE IF \E i \in DOMAIN conns : PoolOf[conns[i]] = p /\ conns[i] \in success
  THEN "served" ELSE "pending"
Promise == INSTANCE PoolContent WITH
  fate <- [p \in Pools |-> FateOf(p)],
  result <- IF pc # "returned" THEN "none" ELSE IF err THEN "error" ELSE "ok"
DecidesPoolsOnce == Promise!Spec
=============================================================================
