---------------------------- MODULE ServerConfig ----------------------------
(***************************************************************************)
(* The configured servers (config.go): LoadConfig, AddServer and RmServer, *)
(* and the clients that connect to these servers while they change.        *)
(*                                                                         *)
(* LoadConfig holds configMu but fills the global variable in several      *)
(* steps.  Conf() and the other operations wait for the mutex; fallback    *)
(* (fallback.go) reads the variable without it.  A client decides on a     *)
(* server from a copy of the configuration and is connected to it later.   *)
(***************************************************************************)
EXTENDS Naturals, FiniteSets

CONSTANTS
  Names,     \* server names
  Pools,     \* names of media pools; a server may give its own name to one
  Files,     \* contents config.json may have
  Fallback,  \* Server.Fallback of every name, the same in every file
  Clients,   \* client connections
  KickOnNewPool, \* the configuration option, the same in every file
  MaxNow,    \* bound of the clock
  None

\* A file gives servers a media pool, None where the field is absent, and may
\* set the Boolean option ForceDefaultSrv.
FileType == [pools : UNION {[N -> Pools \cup {None}] : N \in SUBSET Names},
             force : {TRUE, FALSE, None}]

ASSUME ConstantsAssumption ==
  /\ Names \subseteq Pools
  /\ None \notin Pools
  /\ None \notin BOOLEAN
  /\ Files \subseteq FileType
  /\ Files # {}
  /\ Fallback \in [Names -> Names \cup {None}]
  /\ KickOnNewPool \in BOOLEAN
  /\ MaxNow \in Nat

VARIABLES
  servers,     \* config.Servers
  force,       \* config.ForceDefaultSrv
  phase,       \* progress of LoadConfig; configMu is free when it is "idle"
  old,         \* oldConf of LoadConfig: the servers and the option
  file,        \* the file LoadConfig decoded
  now,         \* time.Now()
  state,       \* a client: away, content not sent, sent, or with a server
  created,     \* ClientConn.created
  deny,        \* ClientConn.denyPools
  known,       \* pools whose content the client was sent
  cur,         \* ClientConn.ServerName()
  want,        \* the server name a hop or the first connection decided on
  doomed,      \* clients a Kick goroutine is about to close
  stayed       \* history: clients on one server since LoadReset

confVars == <<servers, force, phase, old, file>>
cltVars == <<state, created, deny, known, cur, want, doomed, stayed>>
vars == <<confVars, now, cltVars>>

startTime == 1
zeroTime == 0   \* the zero value of poolAdded

Server == [pool : Pools \cup {None}, dynamic : BOOLEAN, poolAdded : Nat]
IsServerMap(m) ==
  /\ m = [n \in DOMAIN m |-> m[n]]
  /\ DOMAIN m \subseteq Names
  /\ \A n \in DOMAIN m : m[n] \in Server
MuFree == phase = "idle"

PoolsOf(m) == {m[n].pool : n \in DOMAIN m}
Decoded(f) ==
  [n \in DOMAIN f.pools |->
     [pool |-> f.pools[n], dynamic |-> FALSE, poolAdded |-> zeroTime]]
Option(f, default) == IF f.force = None THEN default ELSE f.force

\* Mutant of Normal: a missing media pool stays the empty name.
NormalSkipped(m) == m

\* A server without a media pool is alone in the pool of its name.
Normal(m) ==
  [n \in DOMAIN m |-> [m[n] EXCEPT !.pool = IF @ = None THEN n ELSE @]]

Merged(m, o) ==
  [n \in DOMAIN m \cup {d \in DOMAIN o : o[d].dynamic} |->
     IF n \in DOMAIN m THEN m[n] ELSE o[n]]

\* Servers LoadConfig stamps: static ones the old configuration did not name.
Added(m, o) == {n \in DOMAIN m : n \notin DOMAIN o /\ ~m[n].dynamic}

\* An added server gets the time of the reload if its pool is new, otherwise
\* that of a member of the pool: the last one the range over the map visits.
StampsOf(n, m, o, t) ==
  IF n \notin Added(m, o) THEN {m[n].poolAdded}
  ELSE IF m[n].pool \notin PoolsOf(o) THEN {t}
  ELSE {o[k].poolAdded : k \in {k \in DOMAIN o : o[k].pool = m[n].pool}}

Init ==
  /\ \E f \in Files :
       /\ servers = [n \in DOMAIN f.pools |->
                       [Normal(Decoded(f))[n] EXCEPT !.poolAdded = startTime + 1]]
       /\ force = Option(f, FALSE)
       /\ file = f
       /\ old = [servers |-> servers, force |-> force]
  /\ phase = "idle"
  /\ now = startTime + 1
  /\ state = [c \in Clients |-> "away"]
  /\ created = [c \in Clients |-> 0]
  /\ deny = [c \in Clients |-> {}]
  /\ known = [c \in Clients |-> {}]
  /\ cur = [c \in Clients |-> None]
  /\ want = [c \in Clients |-> None]
  /\ doomed = {}
  /\ stayed = {}

-----------------------------------------------------------------------------
(***************************************************************************)
(* LoadConfig.                                                             *)
(***************************************************************************)

\* The mutex is taken, the old configuration copied, the servers reset.
LoadReset ==
  /\ MuFree
  /\ phase' = "reset"
  /\ old' = [servers |-> servers, force |-> force]
  /\ servers' = [n \in {} |-> None]
  /\ stayed' = {c \in Clients : cur[c] # None}
  /\ UNCHANGED <<force, file, now, state, created, deny, known, cur, want, doomed>>

\* Mutant of Restore: only the servers are put back.
RestoreServers ==
  /\ servers' = old.servers
  /\ phase' = "idle"
  /\ UNCHANGED force

\* The file cannot be opened or decoded.
Restore ==
  /\ servers' = old.servers
  /\ force' = old.force
  /\ phase' = "idle"

LoadFail ==
  /\ phase = "reset"
  /\ Restore
  /\ UNCHANGED <<old, file, now, cltVars>>

\* The decoder overwrites the fields the file has and no others.
LoadDecode(f) ==
  /\ phase = "reset"
  /\ now < MaxNow
  /\ servers' = Decoded(f)
  /\ force' = Option(f, force)
  /\ file' = f
  /\ phase' = "decoded"
  /\ UNCHANGED <<old, now, cltVars>>

\* A dynamic server has the name of a configured one.
Duplicate == \E n \in DOMAIN old.servers : old.servers[n].dynamic /\ n \in DOMAIN servers

\* Mutant of Busy: a player whose hop is under way does not count.
BusyUnlessMoving ==
  \E n \in DOMAIN old.servers, c \in Clients :
    /\ ~old.servers[n].dynamic
    /\ n \notin DOMAIN servers
    /\ cur[c] = n
    /\ state[c] = "playing"

\* A static server with players is missing from the file.
Busy ==
  \E n \in DOMAIN old.servers, c \in Clients :
    /\ ~old.servers[n].dynamic
    /\ n \notin DOMAIN servers
    /\ cur[c] = n

LoadRefuse ==
  /\ phase = "decoded"
  /\ Duplicate \/ Busy
  /\ Restore
  /\ UNCHANGED <<old, file, now, cltVars>>

LoadCheck ==
  /\ phase = "decoded"
  /\ ~Duplicate
  /\ ~Busy
  /\ phase' = "checked"
  /\ UNCHANGED <<servers, force, old, file, now, cltVars>>

\* Mutant of NewPool: every added server counts.
NewPoolByName(m, o) == Added(m, o) # {}

NewPool(m, o) == \E n \in Added(m, o) : m[n].pool \notin PoolsOf(o)

\* Dynamic servers are kept, pools named, new servers stamped.
LoadMerge ==
  /\ phase = "checked"
  /\ phase' = "idle"
  /\ now' = now + 1
  /\ LET m == Normal(Merged(servers, old.servers))
         o == old.servers IN
     /\ \E stamp \in [DOMAIN m -> 0 .. now + 1] :
          /\ \A n \in DOMAIN m : stamp[n] \in StampsOf(n, m, o, now + 1)
          /\ servers' = [n \in DOMAIN m |-> [m[n] EXCEPT !.poolAdded = stamp[n]]]
     /\ doomed' = IF KickOnNewPool /\ NewPool(m, o)
                    THEN doomed \cup {c \in Clients : state[c] # "away"}
                    ELSE doomed
  /\ UNCHANGED <<force, old, file, state, created, deny, known, cur, want, stayed>>

-----------------------------------------------------------------------------
(***************************************************************************)
(* AddServer and RmServer; calls that return false change nothing.         *)
(***************************************************************************)

AddServer(n, p) ==
  /\ MuFree
  /\ n \notin DOMAIN servers
  /\ \E k \in DOMAIN servers : ~servers[k].dynamic /\ servers[k].pool = p
  /\ servers' = [k \in DOMAIN servers \cup {n} |->
                   IF k = n THEN [pool |-> p, dynamic |-> TRUE, poolAdded |-> startTime]
                   ELSE servers[k]]
  /\ UNCHANGED <<force, phase, old, file, now, cltVars>>

\* Mutant: the entry is blanked and not deleted.
RmServerBlank(n) ==
  /\ MuFree
  /\ n \in DOMAIN servers
  /\ servers[n].dynamic
  /\ \A c \in Clients : cur[c] # n
  /\ servers' = [servers EXCEPT ![n] = None]
  /\ UNCHANGED <<force, phase, old, file, now, cltVars>>

RmServer(n) ==
  /\ MuFree
  /\ n \in DOMAIN servers
  /\ servers[n].dynamic
  /\ \A c \in Clients : cur[c] # n
  /\ servers' = [k \in DOMAIN servers \ {n} |-> servers[k]]
  /\ UNCHANGED <<force, phase, old, file, now, cltVars>>

-----------------------------------------------------------------------------
(***************************************************************************)
(* Clients: the content of every pool is sent once (process.go, content.go)*)
(* and servers are chosen from a copy of the configuration (run.go, hop.go)*)
(***************************************************************************)

CltAccept(c) ==
  /\ state[c] = "away"
  /\ now < MaxNow
  /\ now' = now + 1
  /\ state' = [state EXCEPT ![c] = "joined"]
  /\ created' = [created EXCEPT ![c] = now + 1]
  /\ UNCHANGED <<confVars, deny, known, cur, want, doomed, stayed>>

\* muxContent: a pool whose members cannot be reached is denied.
CltMux(c) ==
  /\ state[c] = "joined"
  /\ MuFree
  /\ \E failed \in SUBSET PoolsOf(servers) :
       /\ deny' = [deny EXCEPT ![c] = failed]
       /\ known' = [known EXCEPT ![c] = PoolsOf(servers) \ failed]
  /\ state' = [state EXCEPT ![c] = "muxed"]
  /\ UNCHANGED <<confVars, now, created, cur, want, doomed, stayed>>

\* Run's goroutine: only denyPools is tested.
JoinGate(c, n) ==
  /\ state[c] = "muxed"
  /\ MuFree
  /\ n \in DOMAIN servers
  /\ servers[n].pool \notin deny[c]
  /\ want' = [want EXCEPT ![c] = n]
  /\ state' = [state EXCEPT ![c] = "moving"]
  /\ UNCHANGED <<confVars, now, created, deny, known, cur, doomed, stayed>>

\* HopRaw: the tests, after which the client leaves its server.
HopGate(c, n) ==
  /\ state[c] = "playing"
  /\ MuFree
  /\ n \in DOMAIN servers
  /\ servers[n].pool \notin deny[c]
  /\ ~(servers[n].poolAdded > created[c])
  /\ want' = [want EXCEPT ![c] = n]
  /\ state' = [state EXCEPT ![c] = "moving"]
  /\ UNCHANGED <<confVars, now, created, deny, known, cur, doomed, stayed>>

CltDetach(c) ==
  /\ state[c] = "moving"
  /\ cur[c] # None
  /\ cur' = [cur EXCEPT ![c] = None]
  /\ stayed' = stayed \ {c}
  /\ UNCHANGED <<confVars, now, state, created, deny, known, want, doomed>>

\* connect reads the configuration again for the media pool; it needs no lock
\* to make the new server the client's.
CltRead(c) ==
  /\ state[c] = "moving"
  /\ MuFree
  /\ cur[c] = None
  /\ state' = [state EXCEPT ![c] = "read"]
  /\ UNCHANGED <<confVars, now, created, deny, known, cur, want, doomed, stayed>>

CltAttach(c) ==
  /\ state[c] = "read"
  /\ cur' = [cur EXCEPT ![c] = want[c]]
  /\ want' = [want EXCEPT ![c] = None]
  /\ state' = [state EXCEPT ![c] = "playing"]
  /\ UNCHANGED <<confVars, now, created, deny, known, doomed, stayed>>

\* fallback, after the server of the client shut down or was lost: the servers
\* are read without the mutex; no fallback closes the client.
FallbackLookup(c) ==
  /\ state[c] = "playing"
  /\ LET target == IF cur[c] \in DOMAIN servers THEN Fallback[cur[c]] ELSE None IN
     /\ want' = [want EXCEPT ![c] = target]
     /\ state' = [state EXCEPT ![c] = IF target = None THEN "closing" ELSE "falling"]
  /\ UNCHANGED <<confVars, now, created, deny, known, cur, doomed, stayed>>

\* HopRaw for the fallback server, and the kick if it fails.
FallbackGate(c) ==
  /\ state[c] = "falling"
  /\ MuFree
  /\ LET n == want[c]
         ok == /\ n \in DOMAIN servers
               /\ servers[n].pool \notin deny[c]
               /\ ~(servers[n].poolAdded > created[c]) IN
     /\ state' = [state EXCEPT ![c] = IF ok THEN "moving" ELSE "closing"]
     /\ want' = [want EXCEPT ![c] = IF ok THEN n ELSE None]
  /\ UNCHANGED <<confVars, now, created, deny, known, cur, doomed, stayed>>

\* The client leaves, is kicked, or its hop could not connect.
CltLeave(c) ==
  /\ state[c] # "away"
  /\ state' = [state EXCEPT ![c] = "away"]
  /\ created' = [created EXCEPT ![c] = 0]
  /\ deny' = [deny EXCEPT ![c] = {}]
  /\ known' = [known EXCEPT ![c] = {}]
  /\ cur' = [cur EXCEPT ![c] = None]
  /\ want' = [want EXCEPT ![c] = None]
  /\ doomed' = doomed \ {c}
  /\ stayed' = stayed \ {c}
  /\ UNCHANGED <<confVars, now>>

-----------------------------------------------------------------------------
LoadStep ==
  \/ LoadReset \/ LoadFail \/ LoadRefuse \/ LoadCheck \/ LoadMerge
  \/ \E f \in Files : LoadDecode(f)

CltStep(c) ==
  \/ CltAccept(c) \/ CltMux(c) \/ CltDetach(c) \/ CltRead(c) \/ CltAttach(c)
  \/ FallbackLookup(c) \/ FallbackGate(c) \/ CltLeave(c)
  \/ \E n \in Names : JoinGate(c, n) \/ HopGate(c, n)

Next ==
  \/ LoadStep
  \/ \E n \in Names, p \in Pools : AddServer(n, p)
  \/ \E n \in Names : RmServer(n)
  \/ \E c \in Clients : CltStep(c)

Spec == Init /\ [][Next]_vars

-----------------------------------------------------------------------------
\* Type invariant of the configuration and of the clients.
TypeOK ==
  /\ IsServerMap(servers)
  /\ force \in BOOLEAN
  /\ phase \in {"idle", "reset", "decoded", "checked"}
  /\ DOMAIN old = {"servers", "force"}
  /\ IsServerMap(old.servers)
  /\ old.force \in BOOLEAN
  /\ file \in Files
  /\ now \in Nat /\ now > startTime
  /\ state \in [Clients -> {"away", "joined", "muxed", "moving", "read",
                            "playing", "falling", "closing"}]
  /\ created \in [Clients -> Nat]
  /\ deny \in [Clients -> SUBSET (Pools \cup {None})]
  /\ known \in [Clients -> SUBSET (Pools \cup {None})]
  /\ cur \in [Clients -> Names \cup {None}]
  /\ want \in [Clients -> Names \cup {None}]
  /\ doomed \subseteq Clients
  /\ stayed \subseteq Clients

Reload == phase # "idle" /\ phase' = "idle"

(***************************************************************************)
(* Whatever the file says, a reload keeps every dynamic server as it is    *)
(* (config.go:325-333), whether it succeeds, fails or is refused.          *)
(***************************************************************************)
DynamicSurvivesReload ==
  [][Reload => \A n \in DOMAIN old.servers : old.servers[n].dynamic =>
                 n \in DOMAIN servers' /\ servers'[n] = old.servers[n]]_vars

(***************************************************************************)
(* A reload does not take a server away from a player who has been on it   *)
(* since it began (config.go:339-344), be it static or dynamic.  Nothing   *)
(* is said of those who arrive between the test and the end.               *)
(***************************************************************************)
ReloadKeepsPlayedServers ==
  [][Reload => \A c \in stayed : cur[c] \in DOMAIN old.servers =>
                 cur[c] \in DOMAIN servers']_vars

(***************************************************************************)
(* Outside of a reload a static server neither changes nor disappears: the *)
(* plugins' AddServer and RmServer cannot replace it (config.go:117-161).  *)
(***************************************************************************)
StaticOnlyByReload ==
  [][MuFree /\ phase' = "idle" =>
       \A n \in DOMAIN servers : ~servers[n].dynamic =>
         n \in DOMAIN servers' /\ servers'[n] = servers[n]]_vars

(***************************************************************************)
(* Whenever configMu is free every server is in a named pool, so Pools and *)
(* the content multiplexer never see the empty name (config.go:348-353),   *)
(* and stamps do not come from the future.                                 *)
(***************************************************************************)
PoolsNamed ==
  MuFree => \A n \in DOMAIN servers :
              servers[n].pool # None /\ servers[n].poolAdded <= now

(***************************************************************************)
(* A reload that adds no media pool kicks nobody (config.go:355-374).      *)
(***************************************************************************)
KickOnlyForNewPool ==
  [][~(doomed' \subseteq doomed) =>
       ~(PoolsOf(servers') \subseteq PoolsOf(old.servers))]_vars

(***************************************************************************)
(* To whoever waits for configMu the configuration is that of ConfigStore: *)
(* a reload that fails at any of its steps leaves it unchanged             *)
(* (config.go:286-288), one that succeeds installs the whole file.         *)
(***************************************************************************)
Seen == IF MuFree THEN servers ELSE old.servers
OptionSeen == IF MuFree THEN force ELSE old.force
StaticSeen == {n \in DOMAIN Seen : ~Seen[n].dynamic}
DynamicSeen == {n \in DOMAIN Seen : Seen[n].dynamic}
PoolsSeen(S) == [n \in S |-> Seen[n].pool]
Store == INSTANCE ConfigStore WITH
  static <- PoolsSeen(StaticSeen), dynamic <- PoolsSeen(DynamicSeen), option <- OptionSeen
ReloadIsAtomic == Store!Spec

(***************************************************************************)
(* What LoadConfig relies on between its steps: the copy of the old        *)
(* configuration has its pools named, the file brings static servers only, *)
(* and once the tests are passed no dynamic server is in the file and no   *)
(* static one is missing that a client has been on since the mutex was     *)
(* taken (config.go:293, 319-346); a client attaches only to a server      *)
(* after it left the one before.                                           *)
(***************************************************************************)
ReloadInv ==
  /\ ~MuFree => \A n \in DOMAIN old.servers :
       old.servers[n].pool # None /\ old.servers[n].poolAdded <= now
  /\ phase \in {"decoded", "checked"} => \A n \in DOMAIN servers :
       ~servers[n].dynamic /\ servers[n].poolAdded = zeroTime
  /\ phase = "checked" => ~Duplicate
  /\ phase = "checked" => \A c \in stayed :
       cur[c] \in DOMAIN old.servers /\ ~old.servers[cur[c]].dynamic
         => cur[c] \in DOMAIN servers
  /\ \A c \in stayed : cur[c] # None
  /\ \A c \in Clients : state[c] = "read" => cur[c] = None

\* What is in the global variable while LoadConfig runs (config.go:293-323).
LoadedInv ==
  /\ phase = "reset" => force = old.force
  /\ phase \in {"decoded", "checked"} => servers = Decoded(file) /\ force = Option(file, old.force)

\* Inductive: no step leads out of it.
IInv == TypeOK /\ PoolsNamed /\ ReloadInv /\ LoadedInv
=============================================================================
