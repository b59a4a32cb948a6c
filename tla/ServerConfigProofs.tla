------------------------- MODULE ServerConfigProofs -------------------------
(***************************************************************************)
(* The safety properties of ServerConfig hold for any servers, files and   *)
(* number of clients.  IInv is inductive; the properties of a reload       *)
(* follow from it and from what LoadMerge makes of the two maps.           *)
(***************************************************************************)
EXTENDS ServerConfig, TLAPS

\* A file decodes to static servers with the zero stamp.
LEMMA DecodedType ==
  ASSUME NEW f \in Files
  PROVE  /\ IsServerMap(Decoded(f))
         /\ \A n \in DOMAIN Decoded(f) :
              ~Decoded(f)[n].dynamic /\ Decoded(f)[n].poolAdded = zeroTime
         /\ f.force \in {TRUE, FALSE, None}
<1>1. f \in FileType
  BY ConstantsAssumption
<1>2. PICK N \in SUBSET Names : f.pools \in [N -> Pools \cup {None}]
  BY <1>1 DEF FileType
<1>3. f.force \in {TRUE, FALSE, None}
  BY <1>1 DEF FileType
<1> QED
  BY <1>2, <1>3 DEF Decoded, IsServerMap, Server, zeroTime

\* Naming the pools keeps the servers and leaves no pool without a name.
LEMMA NormalType ==
  ASSUME NEW m, IsServerMap(m)
  PROVE  /\ IsServerMap(Normal(m))
         /\ DOMAIN Normal(m) = DOMAIN m
         /\ \A n \in DOMAIN m :
              /\ Normal(m)[n].pool # None
              /\ Normal(m)[n].dynamic = m[n].dynamic
              /\ Normal(m)[n].poolAdded = m[n].poolAdded
              /\ m[n].pool # None => Normal(m)[n] = m[n]
<1>1. DOMAIN Normal(m) = DOMAIN m
  BY DEF Normal
<1>2. ASSUME NEW n \in DOMAIN m
      PROVE  /\ Normal(m)[n] \in Server
             /\ Normal(m)[n].pool # None
             /\ Normal(m)[n].dynamic = m[n].dynamic
             /\ Normal(m)[n].poolAdded = m[n].poolAdded
             /\ m[n].pool # None => Normal(m)[n] = m[n]
  BY <1>2, ConstantsAssumption DEF Normal, IsServerMap, Server
<1>3. Normal(m) = [n \in DOMAIN Normal(m) |-> Normal(m)[n]]
  BY DEF Normal
<1> QED
  BY <1>1, <1>2, <1>3 DEF IsServerMap

\* The merged map has the servers of the file and the old dynamic ones.
LEMMA MergedType ==
  ASSUME NEW m, NEW o, IsServerMap(m), IsServerMap(o)
  PROVE  /\ IsServerMap(Merged(m, o))
         /\ \A n \in DOMAIN m : n \in DOMAIN Merged(m, o) /\ Merged(m, o)[n] = m[n]
         /\ \A n \in DOMAIN o : o[n].dynamic => n \in DOMAIN Merged(m, o)
         /\ \A n \in DOMAIN Merged(m, o) : n \notin DOMAIN m =>
              n \in DOMAIN o /\ o[n].dynamic /\ Merged(m, o)[n] = o[n]
  BY DEF IsServerMap, Merged

\* A stamp is not later than the reload if no stamp was before it: the range
\* from which LoadMerge takes it leaves none out.
LEMMA StampsBounded ==
  ASSUME NEW m, NEW o, IsServerMap(m), IsServerMap(o), NEW t \in Nat,
         \A n \in DOMAIN m : m[n].poolAdded <= t,
         \A n \in DOMAIN o : o[n].poolAdded <= t,
         NEW n \in DOMAIN m, NEW s \in StampsOf(n, m, o, t)
  PROVE  s \in Nat /\ s <= t
  BY DEF StampsOf, IsServerMap, Server

\* What the servers are after LoadMerge.
LEMMA MergeResult ==
  ASSUME IInv, LoadMerge
  PROVE  /\ IsServerMap(servers')
         /\ \A n \in DOMAIN servers' :
              servers'[n].pool # None /\ servers'[n].poolAdded <= now'
         /\ \A n \in DOMAIN servers : n \in DOMAIN servers'
         /\ \A n \in DOMAIN old.servers : old.servers[n].dynamic =>
              n \in DOMAIN servers' /\ servers'[n] = old.servers[n]
         /\ LET m == Normal(Merged(servers, old.servers))
            IN  /\ DOMAIN servers' = DOMAIN m
                /\ \A n \in DOMAIN m : /\ servers'[n].pool = m[n].pool
                                       /\ servers'[n].dynamic <=> m[n].dynamic
<1> DEFINE o == old.servers
           g == Merged(servers, o)
           m == Normal(g)
<1>1. IsServerMap(servers) /\ IsServerMap(o) /\ now \in Nat
  BY DEF IInv, TypeOK
<1>2. /\ \A n \in DOMAIN o : o[n].pool # None /\ o[n].poolAdded <= now
      /\ \A n \in DOMAIN servers : ~servers[n].dynamic /\ servers[n].poolAdded = zeroTime
      /\ ~Duplicate
  BY DEF IInv, ReloadInv, LoadMerge, MuFree
<1>3. /\ IsServerMap(g)
      /\ \A n \in DOMAIN servers : n \in DOMAIN g /\ g[n] = servers[n]
      /\ \A n \in DOMAIN o : o[n].dynamic => n \in DOMAIN g
      /\ \A n \in DOMAIN g : n \notin DOMAIN servers =>
           n \in DOMAIN o /\ o[n].dynamic /\ g[n] = o[n]
  BY <1>1, MergedType
<1>4. /\ IsServerMap(m)
      /\ DOMAIN m = DOMAIN g
      /\ \A n \in DOMAIN g :
              /\ m[n].pool # None
              /\ m[n].dynamic = g[n].dynamic
              /\ m[n].poolAdded = g[n].poolAdded
              /\ g[n].pool # None => m[n] = g[n]
  BY <1>3, NormalType
<1> HIDE DEF g, m
<1>5. PICK stamp \in [DOMAIN m -> 0 .. now + 1] :
        /\ \A n \in DOMAIN m : stamp[n] \in StampsOf(n, m, o, now + 1)
        /\ servers' = [n \in DOMAIN m |-> [m[n] EXCEPT !.poolAdded = stamp[n]]]
  BY DEF LoadMerge, m, g
<1>6. \A n \in DOMAIN m : m[n] \in Server /\ stamp[n] \in 0 .. now + 1
  BY <1>4, <1>5 DEF IsServerMap
<1>7. DOMAIN servers' = DOMAIN m /\ servers' = [n \in DOMAIN servers' |-> servers'[n]]
  BY <1>5
<1>8. \A n \in DOMAIN m : /\ servers'[n] \in Server
                          /\ servers'[n].pool = m[n].pool
                          /\ servers'[n].dynamic <=> m[n].dynamic
                          /\ servers'[n].poolAdded = stamp[n]
  BY <1>5, <1>6, <1>1 DEF Server
<1>9. IsServerMap(servers')
  BY <1>4, <1>7, <1>8 DEF IsServerMap
<1>10. \A n \in DOMAIN servers' :
         servers'[n].pool # None /\ servers'[n].poolAdded <= now'
  <2>1. now' = now + 1
    BY DEF LoadMerge
  <2>2. \A n \in DOMAIN m : stamp[n] <= now + 1
    BY <1>1, <1>6
  <2> QED
    BY <1>4, <1>7, <1>8, <2>1, <2>2
<1>11. ASSUME NEW n \in DOMAIN o, o[n].dynamic
       PROVE  n \in DOMAIN servers' /\ servers'[n] = o[n]
  <2>1. n \notin DOMAIN servers
    BY <1>2, <1>11 DEF Duplicate
  <2>2. n \in DOMAIN m /\ m[n] = o[n]
    BY <1>2, <1>3, <1>4, <1>11, <2>1
  <2>3. stamp[n] = m[n].poolAdded
    BY <1>5, <1>11, <2>2 DEF StampsOf, Added
  <2>4. [m[n] EXCEPT !.poolAdded = stamp[n]] = m[n]
    BY <1>6, <2>2, <2>3 DEF Server
  <2> QED
    BY <1>5, <2>2, <2>4
<1>12. DOMAIN servers' = DOMAIN Normal(Merged(servers, old.servers))
       /\ \A n \in DOMAIN servers' :
            /\ servers'[n].pool = Normal(Merged(servers, old.servers))[n].pool
            /\ servers'[n].dynamic <=> Normal(Merged(servers, old.servers))[n].dynamic
  BY <1>7, <1>8 DEF m, g
<1> QED
  BY <1>3, <1>4, <1>7, <1>9, <1>10, <1>11, <1>12

\* LoadConfig keeps the invariant.
LEMMA LoadInv ==
  ASSUME IInv, LoadStep
  PROVE  IInv'
<1> USE ConstantsAssumption DEF IInv, TypeOK, PoolsNamed, ReloadInv, LoadedInv, MuFree, cltVars,
        Duplicate
<1>1. ASSUME LoadReset PROVE IInv'
  BY <1>1 DEF LoadReset, IsServerMap
<1>2. ASSUME LoadFail PROVE IInv'
  BY <1>2 DEF LoadFail, Restore
<1>3. ASSUME LoadRefuse PROVE IInv'
  BY <1>3 DEF LoadRefuse, Restore
<1>4. ASSUME LoadCheck PROVE IInv'
  BY <1>4 DEF LoadCheck, Busy
<1>5. ASSUME LoadMerge PROVE IInv'
  <2>1. /\ IsServerMap(servers')
        /\ \A n \in DOMAIN servers' :
              servers'[n].pool # None /\ servers'[n].poolAdded <= now'
    BY <1>5, MergeResult
  <2>2. doomed' \subseteq Clients
    BY <1>5 DEF LoadMerge
  <2>3. /\ now' \in Nat /\ now' > startTime /\ phase' = "idle"
        /\ UNCHANGED <<force, old, file, state, created, deny, known, cur, want, stayed>>
    BY <1>5 DEF LoadMerge, startTime
  <2> QED
    BY <2>1, <2>2, <2>3
<1>6. ASSUME NEW f \in Files, LoadDecode(f) PROVE IInv'
  <2>1. /\ IsServerMap(Decoded(f))
        /\ \A n \in DOMAIN Decoded(f) :
              ~Decoded(f)[n].dynamic /\ Decoded(f)[n].poolAdded = zeroTime
        /\ f.force \in {TRUE, FALSE, None}
    BY DecodedType
  <2>2. force' \in BOOLEAN
    BY <1>6, <2>1 DEF LoadDecode, Option
  <2> HIDE DEF Decoded
  <2> QED
    BY <1>6, <2>1, <2>2 DEF LoadDecode
<1> QED
  BY <1>1, <1>2, <1>3, <1>4, <1>5, <1>6 DEF LoadStep

\* AddServer and RmServer keep the invariant.
LEMMA PluginInv ==
  ASSUME IInv,
         \/ \E n \in Names, p \in Pools : AddServer(n, p)
         \/ \E n \in Names : RmServer(n)
  PROVE  IInv'
<1> USE ConstantsAssumption DEF IInv, TypeOK, PoolsNamed, ReloadInv, LoadedInv, MuFree, cltVars,
        Duplicate, startTime
<1>1. ASSUME NEW n \in Names, NEW p \in Pools, AddServer(n, p) PROVE IInv'
  <2>1. [pool |-> p, dynamic |-> TRUE, poolAdded |-> startTime] \in Server
    BY DEF Server
  <2>2. /\ DOMAIN servers' = DOMAIN servers \cup {n}
        /\ \A k \in DOMAIN servers : servers'[k] = servers[k]
        /\ servers'[n] = [pool |-> p, dynamic |-> TRUE, poolAdded |-> startTime]
        /\ servers' = [k \in DOMAIN servers' |-> servers'[k]]
    BY <1>1 DEF AddServer
  <2>3. UNCHANGED <<force, phase, old, file, now, cltVars>> /\ phase = "idle"
    BY <1>1 DEF AddServer
  <2>4. IsServerMap(servers')
    BY <2>1, <2>2 DEF IsServerMap
  <2>5. \A k \in DOMAIN servers' :
          servers'[k].pool # None /\ servers'[k].poolAdded <= now
    <3>1. servers'[n].pool = p /\ servers'[n].poolAdded = startTime
      BY <2>2
    <3> QED
      BY <2>2, <2>3, <3>1
  <2> QED
    BY <2>3, <2>4, <2>5
<1>2. ASSUME NEW n \in Names, RmServer(n) PROVE IInv'
  BY <1>2 DEF RmServer, IsServerMap
<1> QED
  BY <1>1, <1>2

\* The steps of clients keep the invariant.
LEMMA CltInv ==
  ASSUME IInv, NEW c \in Clients, CltStep(c)
  PROVE  IInv'
<1> USE ConstantsAssumption DEF IInv, TypeOK, PoolsNamed, ReloadInv, LoadedInv, MuFree, confVars,
        Duplicate
<1>1. ASSUME CltAccept(c) PROVE IInv'
  BY <1>1 DEF CltAccept, IsServerMap, Server, zeroTime, startTime
<1>2. ASSUME CltMux(c) PROVE IInv'
  <2>1. PoolsOf(servers) \subseteq Pools \cup {None}
    BY DEF PoolsOf, IsServerMap, Server
  <2> QED
    BY <1>2, <2>1 DEF CltMux
<1>3. ASSUME CltDetach(c) PROVE IInv'
  BY <1>3 DEF CltDetach
<1>4. ASSUME CltRead(c) PROVE IInv'
  BY <1>4 DEF CltRead
<1>5. ASSUME CltAttach(c) PROVE IInv'
  BY <1>5 DEF CltAttach
<1>6. ASSUME FallbackLookup(c) PROVE IInv'
  <2> DEFINE target == IF cur[c] \in DOMAIN servers THEN Fallback[cur[c]] ELSE None
  <2>1. target \in Names \cup {None}
    BY DEF IsServerMap
  <2>2. /\ want' = [want EXCEPT ![c] = target]
        /\ state' = [state EXCEPT ![c] = IF target = None THEN "closing" ELSE "falling"]
        /\ UNCHANGED <<confVars, now, created, deny, known, cur, doomed, stayed>>
    BY <1>6 DEF FallbackLookup
  <2> HIDE DEF target
  <2> QED
    BY <2>1, <2>2
<1>7. ASSUME FallbackGate(c) PROVE IInv'
  BY <1>7 DEF FallbackGate
<1>8. ASSUME CltLeave(c) PROVE IInv'
  BY <1>8 DEF CltLeave
<1>9. ASSUME NEW n \in Names, JoinGate(c, n) PROVE IInv'
  BY <1>9 DEF JoinGate
<1>10. ASSUME NEW n \in Names, HopGate(c, n) PROVE IInv'
  BY <1>10 DEF HopGate
<1> QED
  BY <1>1, <1>2, <1>3, <1>4, <1>5, <1>6, <1>7, <1>8, <1>9, <1>10 DEF CltStep

\* The initial configuration has the invariant.
LEMMA InitInv == Init => IInv
<1> SUFFICES ASSUME Init PROVE IInv
  OBVIOUS
<1>1. PICK f \in Files :
        /\ servers = [n \in DOMAIN f.pools |->
                       [Normal(Decoded(f))[n] EXCEPT !.poolAdded = startTime + 1]]
        /\ force = Option(f, FALSE)
        /\ file = f
        /\ old = [servers |-> servers, force |-> force]
  BY DEF Init
<1>2. /\ IsServerMap(Decoded(f))
      /\ DOMAIN Decoded(f) = DOMAIN f.pools
      /\ f.force \in {TRUE, FALSE, None}
  BY DecodedType DEF Decoded
<1>3. /\ IsServerMap(Normal(Decoded(f)))
      /\ DOMAIN Normal(Decoded(f)) = DOMAIN f.pools
      /\ \A n \in DOMAIN f.pools : Normal(Decoded(f))[n].pool # None
  BY <1>2, NormalType
<1>4. ASSUME NEW n \in DOMAIN f.pools
      PROVE  /\ servers[n] \in Server
             /\ servers[n].pool # None
             /\ servers[n].poolAdded = startTime + 1
  <2>1. Normal(Decoded(f))[n] \in Server /\ Normal(Decoded(f))[n].pool # None
    BY <1>3 DEF IsServerMap
  <2>2. servers[n] = [Normal(Decoded(f))[n] EXCEPT !.poolAdded = startTime + 1]
    BY <1>1
  <2> HIDE DEF Normal, Decoded
  <2> QED
    BY <2>1, <2>2 DEF Server, startTime
<1>5. DOMAIN servers = DOMAIN f.pools /\ servers = [n \in DOMAIN servers |-> servers[n]]
  BY <1>1
<1>6. IsServerMap(servers)
  BY <1>3, <1>4, <1>5 DEF IsServerMap
<1>7. force \in BOOLEAN
  BY <1>1, <1>2 DEF Option
<1>8. now = startTime + 1 /\ now \in Nat
  BY DEF Init, startTime
<1>9. TypeOK
  <2>1. /\ DOMAIN old = {"servers", "force"}
        /\ old.servers = servers
        /\ old.force = force
    BY <1>1
  <2>2. /\ now > startTime
        /\ file \in Files
    BY <1>1, <1>8 DEF startTime
  <2>3. old.force \in BOOLEAN
    BY <2>1, <1>7, Zenon
  <2> QED
    BY <2>1, <2>2, <2>3, <1>6, <1>7, <1>8 DEF TypeOK, Init
<1>10. PoolsNamed
  BY <1>4, <1>5, <1>8 DEF PoolsNamed
<1>11. ReloadInv /\ LoadedInv
  BY DEF ReloadInv, LoadedInv, Init, MuFree
<1> QED
  BY <1>9, <1>10, <1>11 DEF IInv

\* No step leads out of the invariant.
LEMMA NextInv == IInv /\ [Next]_vars => IInv'
<1> SUFFICES ASSUME IInv, [Next]_vars PROVE IInv'
  OBVIOUS
<1>1. CASE LoadStep
  BY <1>1, LoadInv
<1>2. CASE \/ \E n \in Names, p \in Pools : AddServer(n, p)
           \/ \E n \in Names : RmServer(n)
  BY <1>2, PluginInv
<1>3. CASE \E c \in Clients : CltStep(c)
  BY <1>3, CltInv
<1>4. CASE UNCHANGED vars
  BY <1>4 DEF vars, confVars, cltVars, IInv, TypeOK, PoolsNamed, ReloadInv, LoadedInv, MuFree, Duplicate
<1> QED
  BY <1>1, <1>2, <1>3, <1>4 DEF Next

\* The invariant holds in every reachable state.
THEOREM Inductive == Spec => []IInv
  BY InitInv, NextInv, PTL DEF Spec

\* The variables keep their types, for all files and any number of clients.
THEOREM TypeCorrect == Spec => []TypeOK
<1>1. IInv => TypeOK
  BY DEF IInv
<1> QED
  BY <1>1, Inductive, PTL

\* Whenever configMu is free every server is in a named pool (config.go:348).
THEOREM EveryServerPooled == Spec => []PoolsNamed
<1>1. IInv => PoolsNamed
  BY DEF IInv
<1> QED
  BY <1>1, Inductive, PTL

\* The steps that end a reload.
LEMMA ReloadEnds ==
  ASSUME Next, Reload
  PROVE  \/ LoadMerge
         \/ (LoadFail \/ LoadRefuse) /\ servers' = old.servers
<1>1. CASE LoadStep
  BY <1>1 DEF LoadStep, Reload, LoadReset, LoadDecode, LoadCheck, LoadFail, LoadRefuse,
              Restore
<1>2. CASE \/ \E n \in Names, p \in Pools : AddServer(n, p)
           \/ \E n \in Names : RmServer(n)
  BY <1>2 DEF Reload, AddServer, RmServer
<1>3. CASE \E c \in Clients : CltStep(c)
  BY <1>3 DEF Reload, confVars, CltStep, CltAccept, CltMux, CltDetach, CltRead, CltAttach,
              FallbackLookup, FallbackGate, CltLeave, JoinGate, HopGate
<1> QED
  BY <1>1, <1>2, <1>3 DEF Next

\* No reload loses or changes a dynamic server (config.go:325-333).
THEOREM DynamicKept == Spec => DynamicSurvivesReload
<1>1. IInv /\ [Next]_vars =>
        [Reload => \A n \in DOMAIN old.servers : old.servers[n].dynamic =>
                     n \in DOMAIN servers' /\ servers'[n] = old.servers[n]]_vars
  <2> SUFFICES ASSUME IInv, Next, Reload, NEW n \in DOMAIN old.servers,
                      old.servers[n].dynamic
               PROVE  n \in DOMAIN servers' /\ servers'[n] = old.servers[n]
    OBVIOUS
  <2>1. CASE LoadMerge
    BY <2>1, MergeResult
  <2>2. CASE servers' = old.servers
    BY <2>2
  <2> QED
    BY <2>1, <2>2, ReloadEnds
<1> QED
  BY <1>1, Inductive, PTL DEF Spec, DynamicSurvivesReload

\* No reload takes away the server of a player who stays (config.go:339-344).
THEOREM PlayedKept == Spec => ReloadKeepsPlayedServers
<1>1. IInv /\ [Next]_vars =>
        [Reload => \A c \in stayed : cur[c] \in DOMAIN old.servers =>
                     cur[c] \in DOMAIN servers']_vars
  <2> SUFFICES ASSUME IInv, Next, Reload, NEW c \in stayed,
                      cur[c] \in DOMAIN old.servers
               PROVE  cur[c] \in DOMAIN servers'
    OBVIOUS
  <2>1. CASE LoadMerge
    <3>1. CASE old.servers[cur[c]].dynamic
      BY <2>1, <3>1, MergeResult
    <3>2. CASE ~old.servers[cur[c]].dynamic
      <4>1. cur[c] \in DOMAIN servers
        BY <2>1, <3>2 DEF IInv, ReloadInv, LoadMerge
      <4> QED
        BY <2>1, <4>1, MergeResult
    <3> QED
      BY <3>1, <3>2
  <2>2. CASE servers' = old.servers
    BY <2>2
  <2> QED
    BY <2>1, <2>2, ReloadEnds
<1> QED
  BY <1>1, Inductive, PTL DEF Spec, ReloadKeepsPlayedServers

\* A reload that adds no media pool kicks nobody (config.go:355-374).
THEOREM KicksForNewPool == Spec => KickOnlyForNewPool
<1>1. IInv /\ [Next]_vars =>
        [~(doomed' \subseteq doomed) =>
           ~(PoolsOf(servers') \subseteq PoolsOf(old.servers))]_vars
  <2> SUFFICES ASSUME IInv, Next, ~(doomed' \subseteq doomed)
               PROVE  ~(PoolsOf(servers') \subseteq PoolsOf(old.servers))
    OBVIOUS
  <2> DEFINE m == Normal(Merged(servers, old.servers))
  <2>1. LoadMerge
    BY DEF Next, LoadStep, LoadReset, LoadFail, LoadRefuse, LoadCheck, LoadDecode,
           AddServer, RmServer, cltVars, confVars, CltStep, CltAccept, CltMux, CltDetach,
           CltRead, CltAttach, FallbackLookup, FallbackGate, CltLeave, JoinGate, HopGate
  <2>2. NewPool(m, old.servers)
    BY <2>1 DEF LoadMerge
  <2>3. PICK n \in DOMAIN m : m[n].pool \notin PoolsOf(old.servers)
    BY <2>2 DEF NewPool, Added
  <2>4. n \in DOMAIN servers' /\ servers'[n].pool = m[n].pool
    BY <2>1, <2>3, MergeResult
  <2> QED
    BY <2>3, <2>4 DEF PoolsOf
<1> QED
  BY <1>1, Inductive, PTL DEF Spec, KickOnlyForNewPool

\* Only a reload changes a static server (config.go:117-161).
THEOREM StaticKept == Spec => StaticOnlyByReload
<1>1. [Next]_vars =>
        [MuFree /\ phase' = "idle" =>
           \A n \in DOMAIN servers : ~servers[n].dynamic =>
             n \in DOMAIN servers' /\ servers'[n] = servers[n]]_vars
  <2> SUFFICES ASSUME Next, MuFree, phase' = "idle", NEW n \in DOMAIN servers,
                      ~servers[n].dynamic
               PROVE  n \in DOMAIN servers' /\ servers'[n] = servers[n]
    OBVIOUS
  <2>1. CASE LoadStep
    BY <2>1 DEF LoadStep, MuFree, LoadReset, LoadFail, LoadRefuse, LoadCheck, LoadMerge,
                LoadDecode
  <2>2. CASE \E k \in Names, p \in Pools : AddServer(k, p)
    BY <2>2 DEF AddServer
  <2>3. CASE \E k \in Names : RmServer(k)
    BY <2>3 DEF RmServer
  <2>4. CASE \E c \in Clients : CltStep(c)
    BY <2>4 DEF confVars, CltStep, CltAccept, CltMux, CltDetach, CltRead, CltAttach,
                FallbackLookup, FallbackGate, CltLeave, JoinGate, HopGate
  <2> QED
    BY <2>1, <2>2, <2>3, <2>4 DEF Next
<1> QED
  BY <1>1, PTL DEF Spec, StaticOnlyByReload

-----------------------------------------------------------------------------
(* The refinement of ConfigStore. *)

\* A step that changes nothing for the holders of configMu.
Unseen == UNCHANGED <<PoolsSeen(StaticSeen), PoolsSeen(DynamicSeen), OptionSeen>>

LEMMA SameSeen ==
  ASSUME Seen' = Seen, OptionSeen' = OptionSeen
  PROVE  Unseen
  BY DEF Unseen, PoolsSeen, StaticSeen, DynamicSeen

\* The steps of LoadConfig but its last.
LEMMA LoadUnseen ==
  ASSUME IInv, \/ LoadReset \/ LoadFail \/ LoadRefuse \/ LoadCheck
               \/ \E f \in Files : LoadDecode(f)
  PROVE  Unseen
<1>1. Seen' = Seen
  BY DEF Seen, MuFree, LoadReset, LoadFail, LoadRefuse, LoadCheck, LoadDecode, Restore
<1>2. CASE LoadReset
  <2>1. old'.force = force
    BY <1>2, Zenon DEF LoadReset
  <2>2. MuFree /\ ~MuFree'
    BY <1>2 DEF LoadReset, MuFree
  <2>3. OptionSeen' = OptionSeen
    BY <2>1, <2>2, Zenon DEF OptionSeen
  <2> QED
    BY <1>1, <2>3, SameSeen
<1>3. CASE LoadCheck \/ \E f \in Files : LoadDecode(f)
  <2>1. ~MuFree /\ ~MuFree' /\ old' = old
    BY <1>3 DEF LoadCheck, LoadDecode, MuFree
  <2>2. OptionSeen' = OptionSeen
    BY <2>1, Zenon DEF OptionSeen
  <2> QED
    BY <1>1, <2>2, SameSeen
<1>4. CASE LoadFail \/ LoadRefuse
  <2>1. ~MuFree /\ MuFree' /\ force' = old.force
    BY <1>4, Zenon DEF LoadFail, LoadRefuse, Restore, MuFree
  <2>2. OptionSeen' = OptionSeen
    BY <2>1, Zenon DEF OptionSeen
  <2> QED
    BY <1>1, <2>2, SameSeen
<1> QED
  BY <1>2, <1>3, <1>4

\* The last step of LoadConfig installs the file.
LEMMA MergeSeen ==
  ASSUME IInv, LoadMerge
  PROVE  file \in Files /\ Store!Load(file)
<1> DEFINE o == old.servers
           g == Merged(servers, o)
           m == Normal(g)
<1>1. /\ IsServerMap(servers) /\ IsServerMap(o) /\ ~Duplicate
      /\ servers = Decoded(file) /\ file \in Files
      /\ \A n \in DOMAIN o : o[n].pool # None
  BY DEF IInv, TypeOK, ReloadInv, LoadedInv, LoadMerge, MuFree
<1>2. /\ ~MuFree /\ MuFree' /\ Seen = o /\ Seen' = servers'
  BY DEF LoadMerge, MuFree, Seen
<1>3. /\ \A n \in DOMAIN o : o[n].dynamic => n \in DOMAIN servers' /\ servers'[n] = o[n]
      /\ DOMAIN servers' = DOMAIN m
      /\ \A n \in DOMAIN m : /\ servers'[n].pool = m[n].pool
                             /\ servers'[n].dynamic <=> m[n].dynamic
  BY MergeResult
<1>4. /\ IsServerMap(g)
      /\ \A n \in DOMAIN servers : n \in DOMAIN g /\ g[n] = servers[n]
      /\ \A n \in DOMAIN g : n \notin DOMAIN servers => n \in DOMAIN o /\ o[n].dynamic
  BY <1>1, MergedType
<1>5. /\ DOMAIN m = DOMAIN g
      /\ \A n \in DOMAIN g : m[n].dynamic = g[n].dynamic
  BY <1>4, NormalType
<1>6. /\ DOMAIN servers = DOMAIN file.pools
      /\ \A n \in DOMAIN servers : servers[n].pool = file.pools[n] /\ ~servers[n].dynamic
  BY <1>1 DEF Decoded
<1>7. \A n \in DOMAIN servers : n \notin DOMAIN o \/ ~o[n].dynamic
  BY <1>1 DEF Duplicate
<1>8. \A n \in DOMAIN g : m[n].pool = IF g[n].pool = None THEN n ELSE g[n].pool
  <2> HIDE DEF g
  <2> QED
    BY <1>4 DEF Normal, Server, IsServerMap
<1> HIDE DEF g, m, o
<1>9. StaticSeen' = DOMAIN file.pools
  BY <1>2, <1>3, <1>4, <1>5, <1>6 DEF StaticSeen
<1>10. DynamicSeen' = DynamicSeen
  BY <1>2, <1>3, <1>4, <1>5, <1>6, <1>7 DEF DynamicSeen
<1>11. PoolsSeen(StaticSeen)' = Store!Servers(file)
  <2>1. \A n \in DOMAIN file.pools : Seen'[n].pool = IF file.pools[n] = None THEN n ELSE file.pools[n]
    BY <1>2, <1>3, <1>4, <1>5, <1>6, <1>8
  <2> QED
    BY <1>9, <2>1 DEF PoolsSeen, Store!Servers
<1>12. PoolsSeen(DynamicSeen)' = PoolsSeen(DynamicSeen)
  <2>1. \A n \in DynamicSeen : Seen'[n] = Seen[n]
    BY <1>2, <1>3 DEF DynamicSeen
  <2> QED
    BY <1>10, <2>1 DEF PoolsSeen
<1>13. OptionSeen' = Store!Set(file, OptionSeen)
  <2>1. OptionSeen = old.force /\ OptionSeen' = force'
    BY <1>2, Zenon DEF OptionSeen
  <2>2. force' = force /\ force = Option(file, old.force)
    BY DEF LoadMerge, IInv, LoadedInv
  <2> QED
    BY <2>1, <2>2, Zenon DEF Option, Store!Set
<1>14. DOMAIN file.pools \cap DOMAIN PoolsSeen(DynamicSeen) = {}
  BY <1>2, <1>6, <1>7 DEF PoolsSeen, DynamicSeen
<1> QED
  BY <1>1, <1>11, <1>12, <1>13, <1>14 DEF Store!Load

\* A plugin adds a server to the pool of a static one.
LEMMA AddSeen ==
  ASSUME IInv, NEW n \in Names, NEW p \in Pools, AddServer(n, p)
  PROVE  \E s \in DOMAIN PoolsSeen(StaticSeen) : Store!Add(n, s)
<1>1. /\ MuFree /\ MuFree' /\ n \notin DOMAIN servers
      /\ Seen = servers /\ Seen' = servers'
  BY DEF AddServer, MuFree, Seen
<1>2. OptionSeen' = OptionSeen
  <2>1. force' = force
    BY DEF AddServer
  <2> QED
    BY <1>1, <2>1, Zenon DEF OptionSeen
<1>3. /\ DOMAIN servers' = DOMAIN servers \cup {n}
      /\ \A k \in DOMAIN servers : servers'[k] = servers[k]
      /\ servers'[n].pool = p /\ servers'[n].dynamic
  BY <1>1 DEF AddServer
<1>4. PICK s \in DOMAIN servers : ~servers[s].dynamic /\ servers[s].pool = p
  BY DEF AddServer
<1>5. s \in StaticSeen /\ PoolsSeen(StaticSeen)[s] = p
  BY <1>1, <1>4 DEF StaticSeen, PoolsSeen
<1>6. StaticSeen' = StaticSeen /\ DynamicSeen' = DynamicSeen \cup {n} /\ n \notin StaticSeen \cup DynamicSeen
  BY <1>1, <1>3 DEF StaticSeen, DynamicSeen
<1>7. PoolsSeen(StaticSeen)' = PoolsSeen(StaticSeen)
  <2>1. \A k \in StaticSeen : Seen'[k] = Seen[k]
    BY <1>1, <1>3 DEF StaticSeen
  <2> QED
    BY <1>6, <2>1 DEF PoolsSeen
<1>8. PoolsSeen(DynamicSeen)' =
        [k \in DynamicSeen \cup {n} |-> IF k = n THEN p ELSE PoolsSeen(DynamicSeen)[k]]
  <2>1. \A k \in DynamicSeen : Seen'[k] = Seen[k] /\ k # n
    BY <1>1, <1>3 DEF DynamicSeen
  <2>2. Seen'[n].pool = p
    BY <1>1, <1>3
  <2> QED
    BY <1>6, <2>1, <2>2 DEF PoolsSeen
<1>9. DOMAIN PoolsSeen(StaticSeen) = StaticSeen /\ DOMAIN PoolsSeen(DynamicSeen) = DynamicSeen
  BY DEF PoolsSeen
<1> QED
  BY <1>2, <1>5, <1>6, <1>7, <1>8, <1>9 DEF Store!Add

\* A plugin removes a dynamic server.
LEMMA RemoveSeen ==
  ASSUME IInv, NEW n \in Names, RmServer(n)
  PROVE  n \in DOMAIN PoolsSeen(DynamicSeen) /\ Store!Remove(n)
<1>1. /\ MuFree /\ MuFree' /\ n \in DOMAIN servers /\ servers[n].dynamic
      /\ Seen = servers /\ Seen' = servers'
      /\ servers' = [k \in DOMAIN servers \ {n} |-> servers[k]]
  BY DEF RmServer, MuFree, Seen
<1>2. OptionSeen' = OptionSeen
  <2>1. force' = force
    BY DEF RmServer
  <2> QED
    BY <1>1, <2>1, Zenon DEF OptionSeen
<1>3. StaticSeen' = StaticSeen /\ DynamicSeen' = DynamicSeen \ {n} /\ n \in DynamicSeen
  BY <1>1 DEF StaticSeen, DynamicSeen
<1>4. PoolsSeen(StaticSeen)' = PoolsSeen(StaticSeen)
  <2>1. \A k \in StaticSeen : Seen'[k] = Seen[k]
    BY <1>1 DEF StaticSeen
  <2> QED
    BY <1>3, <2>1 DEF PoolsSeen
<1>5. PoolsSeen(DynamicSeen)' = [k \in DynamicSeen \ {n} |-> PoolsSeen(DynamicSeen)[k]]
  <2>1. \A k \in DynamicSeen \ {n} : Seen'[k] = Seen[k]
    BY <1>1 DEF DynamicSeen
  <2> QED
    BY <1>3, <2>1 DEF PoolsSeen
<1>6. DOMAIN PoolsSeen(DynamicSeen) = DynamicSeen
  BY DEF PoolsSeen
<1> QED
  BY <1>2, <1>3, <1>4, <1>5, <1>6 DEF Store!Remove

\* The first configuration is a file.
LEMMA InitSeen == Init => Store!Init
<1> SUFFICES ASSUME Init PROVE Store!Init
  OBVIOUS
<1>1. PICK f \in Files :
        /\ servers = [n \in DOMAIN f.pools |->
                       [Normal(Decoded(f))[n] EXCEPT !.poolAdded = startTime + 1]]
        /\ force = Option(f, FALSE)
  BY DEF Init
<1>2. MuFree /\ Seen = servers
  BY DEF Init, MuFree, Seen
<1>3. /\ IsServerMap(Decoded(f)) /\ DOMAIN Decoded(f) = DOMAIN f.pools
      /\ \A n \in DOMAIN f.pools : Decoded(f)[n].pool = f.pools[n] /\ ~Decoded(f)[n].dynamic
  BY DecodedType DEF Decoded
<1>4. ASSUME NEW n \in DOMAIN f.pools
      PROVE  /\ servers[n].pool = IF f.pools[n] = None THEN n ELSE f.pools[n]
             /\ ~servers[n].dynamic
  <2> DEFINE d == Decoded(f)
  <2>1. d[n] \in Server /\ d[n].pool = f.pools[n] /\ ~d[n].dynamic /\ n \in DOMAIN d
    BY <1>3 DEF IsServerMap
  <2> HIDE DEF d
  <2>2. /\ Normal(d)[n].pool = IF d[n].pool = None THEN n ELSE d[n].pool
        /\ Normal(d)[n] = [d[n] EXCEPT !.pool = IF @ = None THEN n ELSE @]
        /\ ~Normal(d)[n].dynamic
    BY <2>1 DEF Normal, Server
  <2>3. servers[n] = [Normal(d)[n] EXCEPT !.poolAdded = startTime + 1]
    BY <1>1 DEF d
  <2>4. servers[n].pool = Normal(d)[n].pool /\ ~servers[n].dynamic
    BY <2>1, <2>2, <2>3 DEF Server
  <2> QED
    BY <2>1, <2>2, <2>4
<1>5. StaticSeen = DOMAIN f.pools /\ DynamicSeen = {}
  BY <1>1, <1>2, <1>4 DEF StaticSeen, DynamicSeen
<1>6. PoolsSeen(StaticSeen) = Store!Servers(f)
  BY <1>2, <1>4, <1>5 DEF PoolsSeen, Store!Servers
<1>7. PoolsSeen(DynamicSeen) = [n \in {} |-> None]
  BY <1>5 DEF PoolsSeen
<1>8. OptionSeen = Store!Set(f, FALSE)
  <2>1. OptionSeen = force
    BY <1>2, Zenon DEF OptionSeen
  <2> QED
    BY <1>1, <2>1, Zenon DEF Option, Store!Set
<1> QED
  BY <1>6, <1>7, <1>8 DEF Store!Init

\* LoadConfig "leaves the config unchanged if there is an error" (config.go:286-288)
\* and otherwise installs the whole file beside the dynamic servers; AddServer and
\* RmServer change these only (config.go:102-161): for all who wait for configMu,
\* every step of ServerConfig is a step of ConfigStore or changes nothing.
THEOREM ReloadsAreAtomic == Spec => ReloadIsAtomic
<1>1. IInv /\ [Next]_vars => [Store!Next]_(Store!vars)
  <2> SUFFICES ASSUME IInv, [Next]_vars PROVE Store!Next \/ Unseen
    BY DEF Unseen, Store!vars
  <2>1. CASE LoadMerge
    BY <2>1, MergeSeen DEF Store!Next
  <2>2. CASE \/ LoadReset \/ LoadFail \/ LoadRefuse \/ LoadCheck
             \/ \E f \in Files : LoadDecode(f)
    BY <2>2, LoadUnseen
  <2>3. CASE \E n \in Names, p \in Pools : AddServer(n, p)
    BY <2>3, AddSeen DEF Store!Next
  <2>4. CASE \E n \in Names : RmServer(n)
    BY <2>4, RemoveSeen DEF Store!Next
  <2>5. CASE (\E c \in Clients : CltStep(c)) \/ UNCHANGED vars
    <3>1. UNCHANGED confVars
      BY <2>5 DEF vars, CltStep, CltAccept, CltMux, CltDetach, CltRead, CltAttach,
                  FallbackLookup, FallbackGate, CltLeave, JoinGate, HopGate
    <3>2. UNCHANGED <<servers, force, phase, old>>
      BY <3>1 DEF confVars
    <3>3. Seen' = Seen /\ OptionSeen' = OptionSeen
      BY <3>2, Zenon DEF Seen, OptionSeen, MuFree
    <3> QED
      BY <3>3, SameSeen
  <2> QED
    BY <2>1, <2>2, <2>3, <2>4, <2>5 DEF Next, LoadStep
<1> QED
  BY <1>1, InitSeen, Inductive, PTL DEF Spec, ReloadIsAtomic, Store!Spec
=============================================================================
