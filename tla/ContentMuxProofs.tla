------------------------- MODULE ContentMuxProofs -------------------------
(***************************************************************************)
(* The safety properties of ContentMux hold for any number of pools,       *)
(* servers and definitions, and any width of the numbers.  IInv is         *)
(* inductive; the step that matters is MuxNode, which gives a number.      *)
(***************************************************************************)
EXTENDS ContentMux, TLAPS

\* The next number is in range, is not reserved, and is greater than the
\* last one unless that was the greatest of all.
LEMMA NextNumber ==
  ASSUME NEW n \in Content, n \notin Reserved
  PROVE  /\ Succ(n) \in Content
         /\ Succ(n) \notin Reserved
         /\ n # MaxContent => n < Succ(n)
BY ContentAssumption DEF Content, Reserved, Succ

-----------------------------------------------------------------------------
\* muxContent starts with the reserved numbers only.
LEMMA InitInv == Init => IInv
<1> SUFFICES ASSUME Init PROVE IInv
  OBVIOUS
<1> USE ContentAssumption DEF Init
<1>1. DOMAIN p0Map = {}
  OBVIOUS
<1>2. conns = <<>> /\ DOMAIN conns = {} /\ conns \in Seq(Servers)
  OBVIOUS
<1>3. Reserved \subseteq Content /\ param0 \in Content /\ param0 \notin Reserved
  BY DEF Reserved, Content
<1>4. TypeOK
  <2>1. /\ DOMAIN p0SrvMap \subseteq Content
        /\ \A g \in DOMAIN p0SrvMap :
             p0SrvMap[g] \in [name : Servers \cup {None}, param0 : Content]
    BY <1>3
  <2>2. /\ DOMAIN p0Map \subseteq Servers
        /\ \A s \in DOMAIN p0Map :
             DOMAIN p0Map[s] \subseteq Content /\ \A l \in DOMAIN p0Map[s] : p0Map[s][l] \in Content
    BY <1>1
  <2>3. got \in [Servers -> SUBSET Parts]
    OBVIOUS
  <2>4. /\ cstate \in [Servers -> {"created", "init", "active"}]
        /\ method \in [Servers -> {"none", "SRP", "FirstSRP"}]
        /\ turn \in [Servers -> {"none", "hello", "saltB", "accept", "items", "nodes",
                                 "announce", "media"}]
    OBVIOUS
  <2>5. /\ pc = "pools" /\ todo = Pools /\ pool = None /\ members = {} /\ err = FALSE
        /\ deny = {} /\ open = {} /\ greeting = {} /\ success = {} /\ done = {}
        /\ at = 1 /\ def = 1 /\ wrapped = FALSE
    OBVIOUS
  <2> HIDE DEF Init
  <2>6. /\ pc \in {"pools", "errors", "nodes", "returned"}
        /\ todo \subseteq Pools /\ pool \in Pools \cup {None} /\ members \subseteq Servers
        /\ err \in BOOLEAN /\ deny \subseteq Pools
    BY <2>5
  <2>7. /\ open \subseteq Servers /\ greeting \subseteq Servers
        /\ success \subseteq Servers /\ done \subseteq Servers
        /\ at \in Nat \ {0} /\ def \in Nat \ {0}
    BY <2>5
  <2>8. wrapped \in BOOLEAN
    BY <2>5
  <2> QED
    BY <1>2, <1>3, <2>1, <2>2, <2>3, <2>4, <2>6, <2>7, <2>8 DEF TypeOK
<1>5. MuxInv
  BY <1>2, <1>3 DEF MuxInv
<1>6. RoundTrip /\ ReadsFinal
  BY <1>1, <1>2 DEF RoundTrip, ReadsFinal
<1> QED
  BY <1>4, <1>5, <1>6 DEF IInv

-----------------------------------------------------------------------------
\* A goroutine of a connection changes no number and ends no other one.
LEMMA HandleStep ==
  ASSUME IInv, NEW s \in Servers, Handle(s)
  PROVE  IInv'
<1> USE DEF IInv, Recv, Send, Got, Close, OtherVars, poolVars, nodeVars
<1>1. OtherVars' = OtherVars /\ done \subseteq done' /\ done' \subseteq Servers
  BY DEF Handle, TypeOK, GreetEnd, GreetTimeout, RecvHelloAgain, RecvHello, RecvSaltB,
     RecvAcceptAuth, RecvItemDefs, RecvNodeDefs, RecvAnnounceMedia, RecvMedia,
     PeerClose, RecvClosed
<1>2. /\ open' \subseteq Servers /\ greeting' \subseteq Servers /\ success' \subseteq Servers
      /\ cstate' \in [Servers -> {"created", "init", "active"}]
      /\ method' \in [Servers -> {"none", "SRP", "FirstSRP"}]
      /\ turn' \in [Servers -> {"none", "hello", "saltB", "accept", "items", "nodes",
                                "announce", "media"}]
      /\ got' \in [Servers -> SUBSET Parts]
  BY DEF Handle, TypeOK, Parts, GreetEnd, GreetTimeout, RecvHelloAgain, RecvHello, RecvSaltB,
     RecvAcceptAuth, RecvItemDefs, RecvNodeDefs, RecvAnnounceMedia, RecvMedia,
     PeerClose, RecvClosed
<1>3. TypeOK'
  BY <1>1, <1>2 DEF TypeOK
<1>4. MuxInv' /\ RoundTrip' /\ ReadsFinal'
  BY <1>1 DEF MuxInv, RoundTrip, ReadsFinal
<1> QED
  BY <1>3, <1>4

-----------------------------------------------------------------------------
\* Contacting the pools and waiting for the goroutines.
LEMMA PoolStep ==
  ASSUME IInv,
         \/ \E p \in Pools : PickPool(p)
         \/ \E s \in Servers : TryFail(s) \/ TryOk(s)
         \/ PoolDenied \/ PoolsDone \/ WaitErrors \/ ErrorsDone \/ NextConn \/ Return
  PROVE  IInv'
<1> USE ContentAssumption
    DEF IInv, MuxInv, TypeOK, ReadsFinal, RoundTrip, poolVars, connVars, nodeVars
<1>1. ASSUME NEW p \in Pools, PickPool(p) PROVE IInv'
  BY <1>1 DEF PickPool
<1>2. ASSUME NEW s \in Servers, TryFail(s) PROVE IInv'
  BY <1>2 DEF TryFail
<1>3. ASSUME NEW s \in Servers, TryOk(s) PROVE IInv'
  <2>1. pc = "pools" /\ conns' \in Seq(Servers)
    BY <1>3 DEF TryOk, Connect
  <2>2. turn' \in [Servers -> {"none", "hello", "saltB", "accept", "items", "nodes",
                              "announce", "media"}]
    BY <1>3 DEF TryOk, Connect
  <2>3. /\ pc' = pc /\ todo' = todo /\ pool' = None /\ members' = {} /\ err' = FALSE
        /\ deny' = deny /\ at' = at /\ open' \subseteq Servers /\ greeting' \subseteq Servers
        /\ UNCHANGED <<cstate, method, got, success, done, nodeVars>>
    BY <1>3 DEF TryOk, Connect
  <2>4. TypeOK'
    BY <2>1, <2>2, <2>3
  <2>5. MuxInv'
    BY <2>1, <2>3
  <2>6. RoundTrip' /\ ReadsFinal'
    BY <2>1, <2>3
  <2> QED
    BY <2>4, <2>5, <2>6
<1>4. ASSUME PoolDenied PROVE IInv'
  BY <1>4 DEF PoolDenied
<1>5. ASSUME PoolsDone PROVE IInv'
  <2>1. at' = 1 /\ \A i \in DOMAIN conns : ~(i < 1)
    BY <1>5 DEF PoolsDone
  <2> QED
    BY <1>5, <2>1 DEF PoolsDone
<1>6. ASSUME WaitErrors PROVE IInv'
  <2>1. \A i \in DOMAIN conns : i < at + 1 => i < at \/ i = at
    BY <1>6
  <2>2. deny' \subseteq Pools
    BY <1>6 DEF WaitErrors
  <2> QED
    BY <1>6, <2>1, <2>2 DEF WaitErrors
<1>7. ASSUME ErrorsDone PROVE IInv'
  <2>1. \A i \in DOMAIN conns : i < at
    BY <1>7 DEF ErrorsDone
  <2> QED
    BY <1>7, <2>1 DEF ErrorsDone
<1>8. ASSUME NextConn PROVE IInv'
  BY <1>8 DEF NextConn
<1>9. ASSUME Return PROVE IInv'
  BY <1>9 DEF Return
<1> QED
  BY <1>1, <1>2, <1>3, <1>4, <1>5, <1>6, <1>7, <1>8, <1>9

-----------------------------------------------------------------------------
\* A number that is given is a new one, so both maps stay inverse.
LEMMA NodeStep ==
  ASSUME IInv, MuxNode
  PROVE  IInv'
<1> DEFINE s == conns[at]
           l == DefsOf(s)[def]
           new == [name |-> s, param0 |-> l]
           map == Replace(MapOf(s), l, param0)
<1> USE ContentAssumption DEF IInv
<1>1. /\ pc = "nodes" /\ at \in DOMAIN conns /\ def \in DOMAIN DefsOf(s)
      /\ p0Map' = Replace(p0Map, s, map)
      /\ p0SrvMap' = Replace(p0SrvMap, param0, new)
      /\ param0' = Succ(param0)
      /\ wrapped' = (wrapped \/ param0 = MaxContent)
      /\ def' = def + 1
      /\ UNCHANGED <<pc, todo, pool, members, err, deny, conns, connVars, at>>
  BY DEF MuxNode, poolVars
<1>2. s \in Servers /\ l \in Content /\ s # None
  BY <1>1 DEF TypeOK, DefsOf
<1>3. /\ param0 \in Content /\ param0 \notin Reserved
      /\ param0' \in Content /\ param0' \notin Reserved
      /\ param0 # MaxContent => param0 < param0'
  BY <1>1, NextNumber DEF TypeOK, MuxInv
<1>4. /\ DOMAIN p0Map' = DOMAIN p0Map \cup {s} /\ p0Map'[s] = map
      /\ \A t \in DOMAIN p0Map : t # s => p0Map'[t] = p0Map[t]
  BY <1>1 DEF Replace
<1>5. /\ DOMAIN p0SrvMap' = DOMAIN p0SrvMap \cup {param0} /\ p0SrvMap'[param0] = new
      /\ \A g \in DOMAIN p0SrvMap : g # param0 => p0SrvMap'[g] = p0SrvMap[g]
  BY <1>1 DEF Replace
<1>6. /\ DOMAIN map = DOMAIN MapOf(s) \cup {l} /\ map[l] = param0
      /\ \A x \in DOMAIN MapOf(s) : x # l => map[x] = MapOf(s)[x]
  BY DEF Replace
<1>7. Reserved \subseteq Content
  BY DEF Reserved, Content
<1>8. TypeOK'
  <2>1. \A x \in DOMAIN map : x \in Content /\ map[x] \in Content
    <3>1. \A x \in DOMAIN MapOf(s) : x \in Content /\ MapOf(s)[x] \in Content
      BY <1>7 DEF MapOf, Defaults, TypeOK
    <3> QED
      BY <3>1, <1>2, <1>3, <1>6
  <2>2. /\ DOMAIN p0Map' \subseteq Servers
        /\ \A t \in DOMAIN p0Map' :
             DOMAIN p0Map'[t] \subseteq Content /\ \A x \in DOMAIN p0Map'[t] : p0Map'[t][x] \in Content
    BY <2>1, <1>2, <1>4 DEF TypeOK
  <2>3. /\ DOMAIN p0SrvMap' \subseteq Content
        /\ \A g \in DOMAIN p0SrvMap' :
             p0SrvMap'[g] \in [name : Servers \cup {None}, param0 : Content]
    BY <1>2, <1>3, <1>5 DEF TypeOK
  <2>4. def' \in Nat \ {0} /\ wrapped' \in BOOLEAN
    BY <1>1 DEF TypeOK
  <2> QED
    BY <1>1, <1>3, <2>2, <2>3, <2>4 DEF TypeOK, connVars
<1>9. MuxInv'
  <2>1. ~wrapped' => ~wrapped /\ param0 # MaxContent
    BY <1>1
  <2>2. ~wrapped' => \A g \in DOMAIN p0SrvMap' : g \in Reserved \/ g < param0'
    BY <2>1, <1>3, <1>5 DEF MuxInv, Content, TypeOK
  <2> QED
    BY <1>1, <1>3, <1>5, <2>2 DEF MuxInv, connVars
<1>10. RoundTrip'
  <2> SUFFICES ASSUME ~wrapped', NEW t \in DOMAIN p0Map', NEW x \in DOMAIN p0Map'[t]
               PROVE  LET g == p0Map'[t][x] IN
                      /\ g \in DOMAIN p0SrvMap'
                      /\ p0SrvMap'[g].param0 = x
                      /\ p0SrvMap'[g].name = IF g \in Reserved THEN None ELSE t
    BY DEF RoundTrip
  <2>1. ~wrapped /\ param0 \notin DOMAIN p0SrvMap
    <3>1. ~wrapped
      BY <1>1
    <3> QED
      BY <3>1, <1>3 DEF MuxInv, Content
  <2>2. CASE t # s
    BY <2>1, <2>2, <1>4, <1>5 DEF RoundTrip
  <2>3. CASE t = s /\ x = l
    BY <2>3, <1>3, <1>4, <1>5, <1>6
  <2>4. CASE t = s /\ x # l
    <3>1. x \in DOMAIN MapOf(s) /\ p0Map'[t][x] = MapOf(s)[x]
      BY <2>4, <1>4, <1>6
    <3>2. CASE s \in DOMAIN p0Map
      <4>1. x \in DOMAIN p0Map[s] /\ p0Map'[t][x] = p0Map[s][x]
        BY <3>1, <3>2 DEF MapOf
      <4>2. /\ p0Map[s][x] \in DOMAIN p0SrvMap
            /\ p0SrvMap[p0Map[s][x]].param0 = x
            /\ p0SrvMap[p0Map[s][x]].name = IF p0Map[s][x] \in Reserved THEN None ELSE s
        BY <4>1, <3>2, <2>1 DEF RoundTrip
      <4> HIDE DEF s
      <4> QED
        BY <4>1, <4>2, <2>1, <2>4, <1>5
    <3>3. CASE s \notin DOMAIN p0Map
      <4>1. x \in Reserved /\ p0Map'[t][x] = x
        BY <3>1, <3>3 DEF MapOf, Defaults
      <4>2. x \in DOMAIN p0SrvMap /\ p0SrvMap[x] = [name |-> None, param0 |-> x]
        BY <4>1 DEF MuxInv
      <4>3. x \in DOMAIN p0SrvMap' /\ p0SrvMap'[x] = p0SrvMap[x]
        BY <4>1, <4>2, <1>3, <1>5
      <4> QED
        BY <4>1, <4>2, <4>3
    <3> QED
      BY <3>2, <3>3
  <2> QED
    BY <2>2, <2>3, <2>4
<1>11. ReadsFinal'
  BY <1>1 DEF ReadsFinal, connVars
<1> QED
  BY <1>8, <1>9, <1>10, <1>11

-----------------------------------------------------------------------------
\* The inductive invariant of muxContent (content.go:361-578).
THEOREM Inductive == Spec => []IInv
<1>1. Init => IInv
  BY InitInv
<1>2. IInv /\ [Next]_vars => IInv'
  <2> SUFFICES ASSUME IInv, [Next]_vars PROVE IInv'
    OBVIOUS
  <2>1. CASE Next
    BY <2>1, HandleStep, PoolStep, NodeStep DEF Next, Mux
  <2>2. CASE UNCHANGED vars
    BY <2>2 DEF IInv, TypeOK, MuxInv, RoundTrip, ReadsFinal, vars, poolVars, connVars, nodeVars
  <2> QED
    BY <2>1, <2>2
<1> QED
  BY <1>1, <1>2, PTL DEF Spec

\* Type correctness of muxContent and its goroutines.
THEOREM TypeCorrect == Spec => []TypeOK
<1>1. IInv => TypeOK
  BY DEF IInv
<1> QED
  BY <1>1, Inductive, PTL

\* The maps between local and global numbers are inverse to each other, for
\* any number of servers and definitions (content.go:450-496).
THEOREM NumbersUnique == Spec => []RoundTrip
<1>1. IInv => RoundTrip
  BY DEF IInv
<1> QED
  BY <1>1, Inductive, PTL

\* muxContent reads the results of goroutines that have ended only
\* (content.go:361-372).
THEOREM ResultsFinal == Spec => []ReadsFinal
<1>1. IInv => ReadsFinal
  BY DEF IInv
<1> QED
  BY <1>1, Inductive, PTL

\* An error is returned only if some pool was denied (content.go:541-565).
THEOREM ErrorsExplained == Spec => []ErrNeedsDenial
<1>1. IInv => ErrNeedsDenial
  BY DEF IInv, MuxInv, ErrNeedsDenial
<1> QED
  BY <1>1, Inductive, PTL

-----------------------------------------------------------------------------
\* What has arrived before each packet of a server.
LEMMA DownloadOrder ==
  /\ \A packet \in {"hello", "saltB", "accept", "items"} : Before(packet) = {}
  /\ Before("nodes") = {"items"}
  /\ Before("announce") = {"items", "nodes"} /\ Before("media") = {"items", "nodes"}
  /\ \A packet \in {"hello", "saltB", "accept", "items", "nodes", "announce", "media"} :
       Before(packet) # Parts
BY DEF Before, Parts

\* A goroutine of a connection keeps the order of its own download, and
\* changes nothing of a connection that has ended.
LEMMA HandleSettles ==
  ASSUME IInv, SettleInv, NEW s \in Servers, Handle(s)
  PROVE  PoolInv' /\ DownloadInv'
<1> USE DEF SettleInv, IInv
<1>1. UNCHANGED <<pc, todo, pool, members, deny, conns, at>>
  BY DEF Handle, OtherVars, poolVars, GreetEnd, GreetTimeout, RecvHelloAgain, RecvHello,
     RecvSaltB, RecvAcceptAuth, RecvItemDefs, RecvNodeDefs, RecvAnnounceMedia, RecvMedia,
     PeerClose, RecvClosed
<1>2. /\ open' \subseteq open /\ done \subseteq done' /\ success \subseteq success'
      /\ success' \subseteq success \cup open
      /\ done' \subseteq done \cup {s} /\ success' \cup done' \subseteq Servers
  BY DEF Handle, Recv, Close, TypeOK, GreetEnd, GreetTimeout, RecvHelloAgain, RecvHello,
     RecvSaltB, RecvAcceptAuth, RecvItemDefs, RecvNodeDefs, RecvAnnounceMedia, RecvMedia,
     PeerClose, RecvClosed
<1>3. PoolInv'
  <2>1. \A t \in Servers : t \in done => t \notin success' \/ t \in success
    BY <1>2 DEF DownloadInv
  <2>2. \A i \in DOMAIN conns : conns[i] \in Servers
    BY DEF TypeOK
  <2> QED
    BY <1>1, <1>2, <2>1, <2>2 DEF PoolInv
<1>4. DownloadInv'
  <2> DEFINE
      Kept == /\ s \in open' \cup done' \/ got'[s] # {} => \E i \in DOMAIN conns : conns[i] = s
              /\ turn'[s] # "none" => got'[s] = Before(turn'[s])
              /\ s \in success' <=> got'[s] = Parts
              /\ s \in success' \cup done' => s \notin open'
  <2>1. \A t \in Servers : t # s =>
          /\ got'[t] = got[t] /\ turn'[t] = turn[t]
          /\ t \in open' <=> t \in open
          /\ t \in success' <=> t \in success
          /\ t \in done' <=> t \in done
    BY DEF Handle, Recv, Send, Got, Close, TypeOK, GreetEnd, GreetTimeout, RecvHelloAgain,
       RecvHello, RecvSaltB, RecvAcceptAuth, RecvItemDefs, RecvNodeDefs, RecvAnnounceMedia,
       RecvMedia, PeerClose, RecvClosed
  <2>2. Kept
    <3>0. /\ s \in open \cup done \/ got[s] # {} => \E i \in DOMAIN conns : conns[i] = s
          /\ turn[s] # "none" => got[s] = Before(turn[s])
          /\ s \in success <=> got[s] = Parts
          /\ s \in success \cup done => s \notin open
          /\ turn[s] \in {"none", "hello", "saltB", "accept", "items", "nodes", "announce", "media"}
          /\ turn \in [Servers -> {"none", "hello", "saltB", "accept", "items", "nodes",
                                    "announce", "media"}]
          /\ got \in [Servers -> SUBSET Parts]
      BY DEF DownloadInv, TypeOK
    <3> USE <1>1, <3>0, DownloadOrder DEF Recv, Send, Got, Close
    <3>1. CASE GreetEnd(s) \/ GreetTimeout(s) \/ RecvHelloAgain(s) \/ PeerClose(s) \/ RecvClosed(s)
      BY <3>1 DEF GreetEnd, GreetTimeout, RecvHelloAgain, PeerClose, RecvClosed
    <3>2. ASSUME NEW m \in {"SRP", "FirstSRP"}, NEW answered \in BOOLEAN,
                 RecvHello(s, m, answered) \/ RecvSaltB(s, answered)
          PROVE  Kept
      BY <3>2 DEF RecvHello, RecvSaltB
    <3>3. CASE RecvAcceptAuth(s)
      BY <3>3 DEF RecvAcceptAuth
    <3>4. CASE RecvItemDefs(s)
      BY <3>4 DEF RecvItemDefs, Parts
    <3>5. CASE RecvNodeDefs(s)
      BY <3>5 DEF RecvNodeDefs, Parts
    <3>6. CASE RecvAnnounceMedia(s)
      BY <3>6 DEF RecvAnnounceMedia
    <3>7. ASSUME NEW last \in BOOLEAN, RecvMedia(s, last)
          PROVE  Kept
      BY <3>7 DEF RecvMedia, Parts
    <3> QED
      BY <3>1, <3>2, <3>3, <3>4, <3>5, <3>6, <3>7 DEF Handle
  <2> QED
    BY <1>1, <2>1, <2>2 DEF DownloadInv
<1> QED
  BY <1>3, <1>4

\* A pool is left with one connection or denied, and denied later only if
\* the goroutine of that connection has ended without success.
LEMMA MuxSettles ==
  ASSUME IInv, SettleInv, Mux
  PROVE  PoolInv' /\ DownloadInv'
<1> USE DEF SettleInv, IInv, poolVars, connVars, nodeVars
<1>1. ASSUME NEW p \in Pools, PickPool(p) PROVE PoolInv' /\ DownloadInv'
  <2>1. /\ pc = "pools" /\ pool = None /\ p \in todo /\ pool' = p /\ todo' = todo \ {p}
        /\ members' = {s \in Servers : PoolOf[s] = p}
        /\ UNCHANGED <<pc, deny, conns, connVars, at>>
    BY <1>1 DEF PickPool
  <2>2. None \notin Pools
    BY ContentAssumption
  <2>3. PoolInv'
    BY <2>1, <2>2 DEF PoolInv
  <2>4. DownloadInv'
    BY <2>1 DEF DownloadInv
  <2> QED
    BY <2>3, <2>4
<1>2. ASSUME NEW s \in Servers, TryFail(s) PROVE PoolInv' /\ DownloadInv'
  BY <1>2 DEF TryFail, PoolInv, DownloadInv
<1>3. ASSUME NEW s \in Servers, TryOk(s) PROVE PoolInv' /\ DownloadInv'
  <2>1. /\ pc = "pools" /\ pool # None /\ s \in members /\ PoolOf[s] = pool /\ pool \in Pools
        /\ conns' = Append(conns, s) /\ open' = open \cup {s}
        /\ turn' = [turn EXCEPT ![s] = "hello"] /\ pool' = None /\ members' = {}
        /\ UNCHANGED <<pc, todo, deny, got, success, done, at>>
    BY <1>3 DEF TryOk, Connect, MuxInv, PoolInv, TypeOK
  <2>2. /\ DOMAIN conns' = DOMAIN conns \cup {Len(conns) + 1}
        /\ Len(conns) + 1 \notin DOMAIN conns /\ conns'[Len(conns) + 1] = s
        /\ \A i \in DOMAIN conns : conns'[i] = conns[i] /\ conns[i] \in Servers
    BY <2>1 DEF TypeOK
  <2>3. \A i \in DOMAIN conns : conns[i] # s
    BY <2>1 DEF PoolInv
  <2>4. got[s] = {} /\ s \notin success /\ s \notin done
    BY <2>3 DEF DownloadInv, Parts
  <2>5. None \notin todo \cup deny /\ \A t \in Servers : PoolOf[t] \in Pools /\ PoolOf[t] # None
    BY ContentAssumption DEF TypeOK
  <2>6. PoolInv'
    <3>1. /\ \A p \in Pools : \/ p \in todo \cup deny \/ p = None
                            \/ \E i \in DOMAIN conns' : PoolOf[conns'[i]] = p
          /\ \A i \in DOMAIN conns' : PoolOf[conns'[i]] \notin todo \cup {None}
      BY <2>1, <2>2, <2>5 DEF PoolInv
    <3>2. \A i, j \in DOMAIN conns' : PoolOf[conns'[i]] = PoolOf[conns'[j]] => i = j
      BY <2>1, <2>2 DEF PoolInv
    <3>3. \A i \in DOMAIN conns' : PoolOf[conns'[i]] \in deny => conns'[i] \in done \ success
      BY <2>1, <2>2 DEF PoolInv
    <3> QED
      BY <2>1, <2>5, <3>1, <3>2, <3>3 DEF PoolInv
  <2>7. DownloadInv'
    <3>1. \A t \in Servers : turn'[t] = IF t = s THEN "hello" ELSE turn[t]
      BY <2>1 DEF TypeOK
    <3>2. Before("hello") = {}
      BY DEF Before
    <3>3. (\E i \in DOMAIN conns' : conns'[i] = s)
          /\ \A t \in Servers : (\E i \in DOMAIN conns : conns[i] = t)
                              => \E i \in DOMAIN conns' : conns'[i] = t
      BY <2>2
    <3> SUFFICES ASSUME NEW t \in Servers
                 PROVE  /\ t \in open' \cup done' \/ got'[t] # {}
                             => \E i \in DOMAIN conns' : conns'[i] = t
                        /\ turn'[t] # "none" => got'[t] = Before(turn'[t])
                        /\ t \in success' <=> got'[t] = Parts
                        /\ t \in success' \cup done' => t \notin open'
      BY DEF DownloadInv
    <3>4. /\ t \in open \cup done \/ got[t] # {} => \E i \in DOMAIN conns : conns[i] = t
          /\ turn[t] # "none" => got[t] = Before(turn[t])
          /\ t \in success <=> got[t] = Parts
          /\ t \in success \cup done => t \notin open
      BY DEF DownloadInv
    <3>5. CASE t = s
      BY <2>1, <2>4, <3>1, <3>2, <3>3, <3>4, <3>5
    <3>6. CASE t # s
      BY <2>1, <3>1, <3>3, <3>4, <3>6
    <3> QED
      BY <3>5, <3>6
  <2> QED
    BY <2>6, <2>7
<1>4. ASSUME PoolDenied PROVE PoolInv' /\ DownloadInv'
  BY <1>4, ContentAssumption DEF PoolDenied, PoolInv, DownloadInv, MuxInv, TypeOK
<1>5. ASSUME PoolsDone PROVE PoolInv' /\ DownloadInv'
  <2>1. at = 1 /\ \A i \in DOMAIN conns : ~(i < 1)
    BY <1>5 DEF PoolsDone, MuxInv, TypeOK
  <2> QED
    BY <1>5, <2>1 DEF PoolsDone, PoolInv, DownloadInv
<1>6. ASSUME WaitErrors PROVE PoolInv' /\ DownloadInv'
  <2>1. /\ pc = "errors" /\ pool = None /\ todo = {} /\ at \in DOMAIN conns
        /\ conns[at] \in done /\ conns[at] \in Servers /\ at' = at + 1
        /\ deny' = IF conns[at] \in success THEN deny ELSE deny \cup {PoolOf[conns[at]]}
        /\ UNCHANGED <<pc, todo, pool, members, conns, connVars>>
    BY <1>6 DEF WaitErrors, MuxInv, PoolInv, TypeOK
  <2>2. \A i \in DOMAIN conns : i < at + 1 => i < at \/ i = at
    BY DEF TypeOK
  <2>3. PoolOf[conns[at]] # None
    BY <2>1, ContentAssumption
  <2>4. \A i \in DOMAIN conns : PoolOf[conns[i]] \in deny' => conns[i] \in done \ success
    BY <2>1 DEF PoolInv
  <2>5. \A i \in DOMAIN conns : i < at' => conns[i] \in success \/ PoolOf[conns[i]] \in deny'
    BY <2>1, <2>2 DEF PoolInv
  <2>6. PoolInv'
    BY <2>1, <2>3, <2>4, <2>5 DEF PoolInv, connVars
  <2> QED
    BY <2>1, <2>6 DEF DownloadInv
<1>7. ASSUME ErrorsDone PROVE PoolInv' /\ DownloadInv'
  <2>1. \A i \in DOMAIN conns : i < at
    BY <1>7 DEF ErrorsDone, TypeOK
  <2> QED
    BY <1>7, <2>1 DEF ErrorsDone, PoolInv, DownloadInv
<1>8. ASSUME MuxNode \/ NextConn PROVE PoolInv' /\ DownloadInv'
  BY <1>8 DEF MuxNode, NextConn, PoolInv, DownloadInv
<1>9. ASSUME Return PROVE PoolInv' /\ DownloadInv'
  BY <1>9 DEF Return, PoolInv, DownloadInv
<1> QED
  BY <1>1, <1>2, <1>3, <1>4, <1>5, <1>6, <1>7, <1>8, <1>9 DEF Mux

-----------------------------------------------------------------------------
\* The definitions of a server are a sequence.
LEMMA DefsType ==
  ASSUME IInv, NEW i \in DOMAIN conns
  PROVE  /\ Len(DefsOf(conns[i])) \in Nat
         /\ DOMAIN DefsOf(conns[i]) = 1..Len(DefsOf(conns[i]))
<1>1. conns[i] \in Servers
  BY DEF IInv, TypeOK
<1>2. NodeDefs[conns[i]] \in Seq(Content)
  BY <1>1, ContentAssumption
<1>3. DefsOf(conns[i]) \in Seq(Content)
  BY <1>2 DEF DefsOf
<1> QED
  BY <1>3

\* The definitions a server brought do not change when its goroutine ended.
LEMMA DefsFinal ==
  ASSUME IInv, SettleInv, Next
  PROVE  \A s \in done : DefsOf(s)' = DefsOf(s)
<1> SUFFICES ASSUME NEW s \in done PROVE got'[s] = got[s]
  BY DEF DefsOf
<1>1. s \in Servers /\ s \notin open
  BY DEF IInv, TypeOK, SettleInv, DownloadInv
<1>2. ASSUME NEW t \in Servers, Handle(t) PROVE got'[s] = got[s]
  BY <1>1, <1>2 DEF IInv, TypeOK, Handle, Recv, Got, GreetEnd, GreetTimeout, RecvHelloAgain,
     RecvHello, RecvSaltB, RecvAcceptAuth, RecvItemDefs, RecvNodeDefs, RecvAnnounceMedia,
     RecvMedia, PeerClose, RecvClosed
<1>3. CASE Mux
  BY <1>3 DEF Mux, PickPool, TryFail, TryOk, PoolDenied, PoolsDone, WaitErrors, ErrorsDone,
     MuxNode, NextConn, Return, connVars
<1> QED
  BY <1>2, <1>3 DEF Next

\* The loops of muxNodeDefs map every definition they pass.
LEMMA NodesKept ==
  ASSUME IInv, SettleInv, Next
  PROVE  NodesInv'
<1> USE DEF poolVars, connVars, nodeVars
<1>1. ASSUME NEW s \in Servers, Handle(s) PROVE NodesInv'
  <2>1. UNCHANGED <<pc, conns, at, def, p0Map>>
    BY <1>1 DEF Handle, OtherVars, GreetEnd, GreetTimeout, RecvHelloAgain, RecvHello,
       RecvSaltB, RecvAcceptAuth, RecvItemDefs, RecvNodeDefs, RecvAnnounceMedia, RecvMedia,
       PeerClose, RecvClosed
  <2>2. pc \in {"nodes", "returned"} =>
          \A i \in DOMAIN conns : DefsOf(conns[i])' = DefsOf(conns[i])
    BY <2>1, DefsFinal DEF IInv, ReadsFinal
  <2> QED
    BY <2>1, <2>2 DEF SettleInv, NodesInv
<1>2. ASSUME NEW p \in Pools, PickPool(p) PROVE NodesInv'
  BY <1>2 DEF PickPool, SettleInv, NodesInv, IInv, MuxInv
<1>3. ASSUME NEW s \in Servers, TryFail(s) \/ TryOk(s) PROVE NodesInv'
  BY <1>3 DEF TryFail, TryOk, SettleInv, NodesInv, IInv, MuxInv
<1>4. CASE PoolDenied \/ PoolsDone \/ WaitErrors
  BY <1>4 DEF PoolDenied, PoolsDone, WaitErrors, SettleInv, NodesInv, IInv, MuxInv
<1>5. CASE ErrorsDone
  <2>1. /\ at' = 1 /\ def' = 1 /\ def = 1 /\ pc' = "nodes" /\ UNCHANGED <<conns, p0Map>>
    BY <1>5 DEF ErrorsDone, SettleInv, NodesInv
  <2>2. \A i \in DOMAIN conns : ~(i < 1)
    BY DEF IInv, TypeOK
  <2>3. \A i \in DOMAIN conns : \A k \in DOMAIN DefsOf(conns[i]) : ~(k < 1)
    BY DefsType
  <2>4. \A t : DefsOf(t)' = DefsOf(t)
    BY <1>5 DEF ErrorsDone, DefsOf
  <2> QED
    BY <2>1, <2>2, <2>3, <2>4 DEF SettleInv, NodesInv
<1>6. CASE MuxNode
  <2> DEFINE s == conns[at]
             l == DefsOf(s)[def]
             map == Replace(MapOf(s), l, param0)
  <2>1. /\ pc = "nodes" /\ at \in DOMAIN conns /\ p0Map' = Replace(p0Map, s, map)
        /\ def' = def + 1 /\ UNCHANGED <<pc, conns, got, at>>
    BY <1>6 DEF MuxNode
  <2>2. /\ DOMAIN p0Map' = DOMAIN p0Map \cup {s} /\ p0Map'[s] = map
        /\ \A t \in DOMAIN p0Map : t # s => p0Map'[t] = p0Map[t]
    BY <2>1 DEF Replace
  <2>3. /\ DOMAIN map = DOMAIN MapOf(s) \cup {l} /\ map[l] = param0
        /\ \A x \in DOMAIN MapOf(s) : x # l => map[x] = MapOf(s)[x]
    BY DEF Replace
  <2>4. s \in DOMAIN p0Map => MapOf(s) = p0Map[s]
    BY DEF MapOf
  <2>5. \A x \in DOMAIN MapOf(s) : x \notin Reserved => MapOf(s)[x] \notin Reserved
    BY DEF MapOf, Defaults, SettleInv, NodesInv
  <2>6. param0 \notin Reserved
    BY DEF IInv, MuxInv
  <2>7. \A t \in DOMAIN p0Map' : \A x \in DOMAIN p0Map'[t] :
          x \notin Reserved => p0Map'[t][x] \notin Reserved
    BY <2>2, <2>3, <2>5, <2>6 DEF SettleInv, NodesInv
  <2>8. \A i \in DOMAIN conns : \A k \in DOMAIN DefsOf(conns[i]) :
          i < at \/ (i = at /\ k < def + 1)
            => /\ conns[i] \in DOMAIN p0Map'
               /\ DefsOf(conns[i])[k] \in DOMAIN p0Map'[conns[i]]
    <3> SUFFICES ASSUME NEW i \in DOMAIN conns, NEW k \in DOMAIN DefsOf(conns[i]),
                        i < at \/ (i = at /\ k < def + 1)
                 PROVE  /\ conns[i] \in DOMAIN p0Map'
                        /\ DefsOf(conns[i])[k] \in DOMAIN p0Map'[conns[i]]
      OBVIOUS
    <3>1. CASE i = at /\ k = def
      BY <3>1, <2>2, <2>3
    <3>2. CASE ~(i = at /\ k = def)
      <4>1. k \in Nat /\ def \in Nat
        BY DefsType DEF IInv, TypeOK
      <4>2. i < at \/ (i = at /\ k < def)
        BY <3>2, <4>1
      <4>3. conns[i] \in DOMAIN p0Map /\ DefsOf(conns[i])[k] \in DOMAIN p0Map[conns[i]]
        BY <4>2, <2>1 DEF SettleInv, NodesInv
      <4> QED
        BY <4>3, <2>2, <2>3, <2>4
    <3> QED
      BY <3>1, <3>2
  <2>9. \A t : DefsOf(t)' = DefsOf(t)
    BY <2>1 DEF DefsOf
  <2> HIDE DEF s, l, map
  <2> QED
    BY <2>1, <2>7, <2>8, <2>9 DEF NodesInv
<1>7. CASE NextConn
  <2>1. /\ pc = "nodes" /\ at \in DOMAIN conns /\ def \notin DOMAIN DefsOf(conns[at])
        /\ at' = at + 1 /\ def' = 1 /\ UNCHANGED <<pc, conns, got, p0Map>>
    BY <1>7 DEF NextConn
  <2>2. \A k \in DOMAIN DefsOf(conns[at]) : k < def
    BY <2>1, DefsType DEF IInv, TypeOK
  <2>3. ASSUME NEW i \in DOMAIN conns, NEW k \in DOMAIN DefsOf(conns[i]),
               i < at + 1 \/ (i = at + 1 /\ k < 1)
        PROVE  i < at \/ (i = at /\ k < def)
    BY <2>2, <2>3, DefsType DEF IInv, TypeOK
  <2>4. \A t : DefsOf(t)' = DefsOf(t)
    BY <2>1 DEF DefsOf
  <2> QED
    BY <2>1, <2>3, <2>4 DEF SettleInv, NodesInv
<1>8. CASE Return
  <2>1. \A t : DefsOf(t)' = DefsOf(t)
    BY <1>8 DEF Return, DefsOf
  <2> QED
    BY <1>8, <2>1 DEF Return, SettleInv, NodesInv
<1> QED
  BY <1>1, <1>2, <1>3, <1>4, <1>5, <1>6, <1>7, <1>8 DEF Next, Mux

\* The second invariant of muxContent: SettleInv, which needs IInv
\* (content.go:111-300, 361-578).
THEOREM Settles == Spec => []SettleInv
<1>1. Init => SettleInv
  BY ContentAssumption DEF Init, SettleInv, PoolInv, DownloadInv, NodesInv, Parts
<1>2. IInv /\ SettleInv /\ [Next]_vars => SettleInv'
  <2> SUFFICES ASSUME IInv, SettleInv, [Next]_vars PROVE SettleInv'
    OBVIOUS
  <2>1. CASE Next
    BY <2>1, HandleSettles, MuxSettles, NodesKept DEF Next, SettleInv
  <2>2. CASE UNCHANGED vars
    BY <2>2 DEF SettleInv, PoolInv, DownloadInv, NodesInv, DefsOf, vars, poolVars, connVars,
       nodeVars
  <2> QED
    BY <2>1, <2>2
<1> QED
  BY <1>1, <1>2, Inductive, PTL DEF Spec

\* The fate of every pool is settled when muxContent returns: it is denied,
\* or all of its content has arrived (content.go:534-578).
THEOREM PoolsAccounted == Spec => []PoolsSettled
<1>1. IInv /\ SettleInv => PoolsSettled
  <2> SUFFICES ASSUME IInv, SettleInv, pc = "returned", NEW p \in Pools
               PROVE  p \in deny <=> ~\E i \in DOMAIN conns :
                                       PoolOf[conns[i]] = p /\ got[conns[i]] = Parts
    BY DEF PoolsSettled
  <2>1. todo = {} /\ p # pool
    BY ContentAssumption DEF IInv, MuxInv, SettleInv, PoolInv
  <2>2. \A i \in DOMAIN conns : conns[i] \in Servers
                              /\ (conns[i] \in success <=> got[conns[i]] = Parts)
    BY DEF IInv, TypeOK, SettleInv, DownloadInv
  <2>3. p \in deny \/ \E i \in DOMAIN conns : PoolOf[conns[i]] = p
    BY <2>1 DEF SettleInv, PoolInv
  <2>4. \A i \in DOMAIN conns : PoolOf[conns[i]] \in deny <=> conns[i] \notin success
    BY DEF SettleInv, PoolInv
  <2> QED
    BY <2>2, <2>3, <2>4
<1> QED
  BY <1>1, Inductive, Settles, PTL

\* Every number of every server whose content the client received is sent to
\* it as a number of that server (content.go:423-500, 581-588).
THEOREM NodesKnown == Spec => []NodesTranslated
<1>1. IInv /\ SettleInv => NodesTranslated
  <2> SUFFICES ASSUME IInv, SettleInv, pc = "returned", ~wrapped, NEW i \in DOMAIN conns,
                      conns[i] \in success, NEW k \in DOMAIN NodeDefs[conns[i]],
                      NodeDefs[conns[i]][k] \notin Reserved
               PROVE  p0SrvMap[GlobalParam0(conns[i], NodeDefs[conns[i]][k])]
                        = [name |-> conns[i], param0 |-> NodeDefs[conns[i]][k]]
    BY DEF NodesTranslated
  <2> DEFINE s == conns[i]
             l == NodeDefs[s][k]
             g == p0Map[s][l]
  <2>1. DefsOf(s) = NodeDefs[s]
    BY DEF SettleInv, DownloadInv, IInv, TypeOK, Parts, DefsOf
  <2>2. i < at
    BY DEF SettleInv, NodesInv, IInv, TypeOK
  <2>3. s \in DOMAIN p0Map /\ l \in DOMAIN p0Map[s] /\ g \notin Reserved
    BY <2>1, <2>2 DEF SettleInv, NodesInv
  <2>4. GlobalParam0(s, l) = g
    BY <2>3 DEF GlobalParam0
  <2>5. g \in DOMAIN p0SrvMap /\ p0SrvMap[g].param0 = l /\ p0SrvMap[g].name = s
    BY <2>3 DEF IInv, RoundTrip
  <2>6. p0SrvMap[g] \in [name : Servers \cup {None}, param0 : Content]
    BY <2>5 DEF IInv, TypeOK
  <2> QED
    BY <2>4, <2>5, <2>6
<1> QED
  BY <1>1, Inductive, Settles, PTL
-----------------------------------------------------------------------------
(***************************************************************************)
(* The refinement: every step of ContentMux decides the fate of one pool,  *)
(* returns, or leaves PoolContent alone.                                   *)
(***************************************************************************)
Fates == [p \in Pools |-> FateOf(p)]
Result == IF pc # "returned" THEN "none" ELSE IF err THEN "error" ELSE "ok"
PromiseStep == [Promise!Next]_<<Fates, Result>>

\* One pool is decided and everything else is left alone.
LEMMA DecideOne ==
  ASSUME NEW p \in Pools, FateOf(p) = "pending", FateOf(p)' \in {"served", "denied"},
         \A q \in Pools \ {p} : FateOf(q)' = FateOf(q),
         Result = "none", Result' = "none"
  PROVE  PromiseStep
<1>1. Fates' = [Fates EXCEPT ![p] = FateOf(p)']
  BY DEF Fates
<1>2. Fates[p] = "pending"
  BY DEF Fates
<1>3. Promise!Decide(p)
  BY <1>1, <1>2 DEF Promise!Decide, Fates, Result
<1> QED
  BY <1>3 DEF PromiseStep, Promise!Next

\* No pool is decided and muxContent does not return.
LEMMA DecideNone ==
  ASSUME \A q \in Pools : FateOf(q)' = FateOf(q), Result' = Result
  PROVE  PromiseStep
  BY DEF PromiseStep, Fates

\* A download that ends well serves its pool; nothing else in handleContent
\* concerns the pools.
LEMMA HandlePromise ==
  ASSUME IInv, SettleInv, NEW s \in Servers, Handle(s)
  PROVE  PromiseStep
<1>1. UNCHANGED <<pc, err, deny, conns>>
  BY DEF Handle, GreetEnd, GreetTimeout, RecvHelloAgain, RecvHello, RecvSaltB, RecvAcceptAuth,
     RecvItemDefs, RecvNodeDefs, RecvAnnounceMedia, RecvMedia, PeerClose, RecvClosed,
     OtherVars, poolVars
<1>2. UNCHANGED success \/ (success' = success \cup {s} /\ s \in open)
  BY DEF Handle, GreetEnd, GreetTimeout, RecvHelloAgain, RecvHello, RecvSaltB, RecvAcceptAuth,
     RecvItemDefs, RecvNodeDefs, RecvAnnounceMedia, RecvMedia, PeerClose, RecvClosed, Recv
<1>3. CASE UNCHANGED success
  <2>1. (\A q \in Pools : FateOf(q)' = FateOf(q)) /\ Result' = Result
    BY <1>1, <1>3 DEF FateOf, Result
  <2> QED
    BY <2>1, DecideNone
<1>4. CASE success' = success \cup {s} /\ s \in open
  <2>1. PICK i \in DOMAIN conns : conns[i] = s
    BY <1>4 DEF SettleInv, DownloadInv
  <2>2. s \notin success /\ s \notin done
    BY <1>4 DEF SettleInv, DownloadInv
  <2>3. PoolOf[s] \in Pools
    BY ContentAssumption
  <2>4. PoolOf[s] \notin deny
    BY <2>1, <2>2 DEF SettleInv, PoolInv
  <2>5. \A j \in DOMAIN conns : PoolOf[conns[j]] = PoolOf[s] => conns[j] = s
    BY <2>1 DEF SettleInv, PoolInv
  <2>6. FateOf(PoolOf[s]) = "pending"
    BY <2>2, <2>4, <2>5 DEF FateOf
  <2>7. FateOf(PoolOf[s])' = "served"
    BY <1>1, <1>4, <2>1, <2>4 DEF FateOf
  <2>8. \A q \in Pools \ {PoolOf[s]} : FateOf(q)' = FateOf(q)
    BY <1>1, <1>4 DEF FateOf
  <2>9. Result = "none" /\ Result' = "none"
    BY <1>1, <2>1, <2>2 DEF Result, IInv, ReadsFinal
  <2> QED
    BY <2>3, <2>6, <2>7, <2>8, <2>9, DecideOne
<1> QED
  BY <1>2, <1>3, <1>4

\* muxContent itself.
LEMMA MuxPromise ==
  ASSUME IInv, SettleInv, Mux
  PROVE  PromiseStep
<1> USE DEF poolVars, connVars, nodeVars
<1>1. ASSUME (\E p \in Pools : PickPool(p)) \/ PoolsDone \/ ErrorsDone \/ MuxNode \/ NextConn
      PROVE  PromiseStep
  <2>1. /\ UNCHANGED <<err, deny, conns, success>>
        /\ pc' = pc \/ (pc' # "returned" /\ pc # "returned")
    BY <1>1 DEF PickPool, PoolsDone, ErrorsDone, MuxNode, NextConn
  <2>2. (\A q \in Pools : FateOf(q)' = FateOf(q)) /\ Result' = Result
    BY <2>1 DEF FateOf, Result
  <2> QED
    BY <2>2, DecideNone
<1>2. ASSUME NEW s \in Servers, TryFail(s) PROVE PromiseStep
  <2>1. UNCHANGED <<pc, deny, conns, success>> /\ pc # "returned"
    BY <1>2 DEF TryFail, IInv, MuxInv
  <2>2. (\A q \in Pools : FateOf(q)' = FateOf(q)) /\ Result' = Result
    BY <2>1 DEF FateOf, Result
  <2> QED
    BY <2>2, DecideNone
<1>3. ASSUME NEW s \in Servers, TryOk(s) PROVE PromiseStep
  <2>1. /\ UNCHANGED <<pc, deny, success>> /\ pc # "returned"
        /\ conns' = Append(conns, s) /\ PoolOf[s] = pool
    BY <1>3 DEF TryOk, Connect, IInv, MuxInv, SettleInv, PoolInv
  <2>2. s \notin success
    <3>1. s \in success => got[s] # {}
      BY DEF SettleInv, DownloadInv, Parts
    <3>2. \A i \in DOMAIN conns : conns[i] # s
      BY <2>1 DEF SettleInv, PoolInv
    <3> QED
      BY <3>1, <3>2 DEF SettleInv, DownloadInv
  <2>3. /\ conns \in Seq(Servers)
        /\ DOMAIN conns' = DOMAIN conns \cup {Len(conns) + 1}
        /\ \A i \in DOMAIN conns : conns'[i] = conns[i]
        /\ conns'[Len(conns) + 1] = s
    BY <2>1 DEF IInv, TypeOK
  <2>4. (\A q \in Pools : FateOf(q)' = FateOf(q)) /\ Result' = Result
    BY <2>1, <2>2, <2>3 DEF FateOf, Result
  <2> QED
    BY <2>4, DecideNone
<1>4. ASSUME PoolDenied PROVE PromiseStep
  <2> PICK p \in Pools : p = pool
    BY <1>4 DEF PoolDenied, IInv, TypeOK
  <2>1. /\ deny' = deny \cup {p} /\ pc # "returned"
        /\ UNCHANGED <<pc, conns, success>>
    BY <1>4 DEF PoolDenied, IInv, MuxInv
  <2>2. p \notin deny /\ \A i \in DOMAIN conns : PoolOf[conns[i]] # p
    BY DEF SettleInv, PoolInv
  <2>3. FateOf(p) = "pending" /\ FateOf(p)' = "denied"
        /\ \A q \in Pools \ {p} : FateOf(q)' = FateOf(q)
    BY <2>1, <2>2 DEF FateOf
  <2>4. Result = "none" /\ Result' = "none"
    BY <2>1 DEF Result
  <2> QED
    BY <2>1, <2>3, <2>4, DecideOne
<1>5. ASSUME WaitErrors PROVE PromiseStep
  <2> PICK s \in Servers : at \in DOMAIN conns /\ s = conns[at]
    BY <1>5 DEF WaitErrors, IInv, TypeOK
  <2>1. /\ pc = "errors" /\ UNCHANGED <<pc, conns, success>>
        /\ deny' = IF s \in success THEN deny ELSE deny \cup {PoolOf[s]}
    BY <1>5 DEF WaitErrors
  <2>2. PoolOf[s] \in Pools
    BY ContentAssumption
  <2>3. Result = "none" /\ Result' = "none"
    BY <2>1 DEF Result
  <2>4. CASE s \in success \/ PoolOf[s] \in deny
    <3>1. \A q \in Pools : FateOf(q)' = FateOf(q)
      BY <2>1, <2>4 DEF FateOf
    <3> QED
      BY <2>3, <3>1, DecideNone
  <2>5. CASE s \notin success /\ PoolOf[s] \notin deny
    <3>1. \A j \in DOMAIN conns : PoolOf[conns[j]] = PoolOf[s] => conns[j] = s
      BY <2>1 DEF SettleInv, PoolInv
    <3>2. FateOf(PoolOf[s]) = "pending" /\ FateOf(PoolOf[s])' = "denied"
          /\ \A q \in Pools \ {PoolOf[s]} : FateOf(q)' = FateOf(q)
      BY <2>1, <2>5, <3>1 DEF FateOf
    <3> QED
      BY <2>2, <2>3, <3>2, DecideOne
  <2> QED
    BY <2>4, <2>5
<1>6. ASSUME Return PROVE PromiseStep
  <2>1. /\ pc = "nodes" /\ pc' = "returned" /\ UNCHANGED <<err, deny, conns, success>>
    BY <1>6 DEF Return
  <2>2. \A p \in Pools : FateOf(p) \in {"served", "denied"}
    <3> SUFFICES ASSUME NEW p \in Pools, p \notin deny
                 PROVE  \E i \in DOMAIN conns : PoolOf[conns[i]] = p /\ conns[i] \in success
      BY DEF FateOf
    <3>1. p # pool /\ todo = {}
      BY <2>1, ContentAssumption DEF IInv, MuxInv, SettleInv, PoolInv
    <3> QED
      BY <2>1, <3>1 DEF SettleInv, PoolInv
  <2>3. Fates' = Fates /\ (\A p \in Pools : Fates[p] # "pending")
    BY <2>1, <2>2 DEF Fates, FateOf
  <2>4. err => \E p \in Pools : Fates[p] = "denied"
    BY <2>1 DEF IInv, TypeOK, ErrNeedsDenial, MuxInv, Fates, FateOf
  <2>5. Result = "none" /\ (Result' = "ok" \/ (Result' = "error" /\ err))
    BY <2>1 DEF Result
  <2> QED
    BY <2>3, <2>4, <2>5 DEF PromiseStep, Promise!Next, Promise!Return, Fates, Result
<1> QED
  BY <1>1, <1>2, <1>3, <1>4, <1>5, <1>6 DEF Mux

(***************************************************************************)
(* content.go:361-373, 534-593: the fate of every pool is decided once and *)
(* for good before muxContent returns, and an error is reported only if a  *)
(* pool was denied.                                                        *)
(***************************************************************************)
THEOREM DecidesOnce == Spec => DecidesPoolsOnce
<1>1. Init => Promise!Init
  BY DEF Init, Promise!Init, FateOf
<1>2. IInv /\ SettleInv /\ [Next]_vars => [Promise!Next]_(Promise!vars)
  <2> SUFFICES ASSUME IInv, SettleInv, [Next]_vars PROVE PromiseStep
    BY DEF PromiseStep, Promise!vars, Fates, Result
  <2>1. CASE UNCHANGED vars
    <3>1. (\A q \in Pools : FateOf(q)' = FateOf(q)) /\ Result' = Result
      BY <2>1 DEF vars, poolVars, connVars, FateOf, Result
    <3> QED
      BY <3>1, DecideNone
  <2> QED
    BY <2>1, HandlePromise, MuxPromise DEF Next
<1> QED
  BY <1>1, <1>2, Inductive, Settles, PTL DEF Spec, DecidesPoolsOnce, Promise!Spec
=============================================================================
