# mt-multiserver-proxy in TLA+

This directory holds a formal model of the proxy: TLA+ modules translated from
the Go source, TLC configurations that check them on small instances, and
theorems that TLAPS proves for every value of the constants. File and line
numbers refer to the source in `src/`.

    tlc -workers 2 -config MC_Session_hops.cfg MC_Session
    tlapm SessionProofs.tla

## 1. The system

A Minetest client connects to the proxy, which logs it in, sends it the content
of all servers and connects it to one server. From then on it can be moved
("hop") to another server without reconnecting.

| Component | State | Operations | Where |
|---|---|---|---|
| Session | `ClientConn.srv`, `fallbackFrom`, `whyKicked`, `hopMu`, `mu`; `ServerConn.clt`, `name`, `mu` | `Hop`, `HopRaw`, `connect`, `fallback`, `handleSrv`, `handleClt`, the kick in `ServerConn.process` | hop.go, connect.go, fallback.go, server_conn.go, client_conn.go, process.go:628-652 |
| Proxy loop | listeners, the wait group of the shutdown | the goroutine that first connects a client, the signal handler, `Kick` | run.go, moderation.go |
| Configuration | `config`, `configMu`, `poolAdded` | `LoadConfig`, `AddServer`, `RmServer`, `Pools` | config.go |
| Login | `players`, `playersMu`, `cstate`, `name`, `auth`, the accounts | the packets from `ToSrvInit` to `ToSrvCltReady`, sudo mode, join and leave handlers, the end of `handleClt` | process.go:34-468, listen.go, players.go, plugin_join_leave.go, client_conn.go:127-145 |
| Content | one `contentConn` per pool, `denyPools`, `p0Map`, `p0SrvMap` | `muxContent`, `handleContent`, `muxErrors`, `muxNodeDefs`, `globalParam0` | content.go, connect.go:68-81 |
| Packet translation | `aos`, `detachedInvs`, `particleSpawners`, `sounds`, `huds`, `playerList`; `playerCAO`, `currentCAO` | `process` of both connections, `swapAOID`, the reset in `HopRaw` | process.go, activeobject.go, hop.go:91-208 |
| Authentication backends | accounts, bans, last servers | the `AuthBackend` interface for files, SQLite and PostgreSQL | auth*.go |
| Mod channels | `modChs`, `modChanSubscribers`, `modChanJoinChs`, `modChanLeaveChs` | join, leave, messages, joining again after a hop | plugin_modchan.go, process.go:525-535, 944-995, hop.go:226 |
| Server selection | groups, selectors | choose a server of a group | config.go:163-228, plugin_srvselect.go |
| Chat, plugins, formspecs, permissions | lists of callbacks | register, call in order | plugin*.go, chat.go, perms.go, formspec.go |
| Server list, logs, commands | none of the model's concern | HTTP, files | list.go, log.go, cmd/ |

How they interact. `Run` accepts a client and starts a goroutine that waits for
the end of its login, selects a server and calls `connect`. Every connection has
a goroutine that reads its packets (`handleClt`, `handleSrv`); a hop runs in the
goroutine of whoever asks for it: a chat command, a plugin, or `handleSrv` itself
when its server kicks the client or is lost (`fallback`). They share the fields
of the client and of its server connection under three mutexes, `hopMu`,
`ClientConn.mu` and `ServerConn.mu`. Logging in reads the configuration, the
backend and the content of every pool; a hop uses the pools the client knows.

What is hard: hops, fallbacks, the first connection, the departure of the client
and a shutdown run at the same time and are serialised by several mutexes taken
in different orders; the configuration is one global variable that is read
without its mutex and rebuilt in steps; a name in the registry belongs to one of
several connections that end at any time; the content is downloaded by parallel
goroutines that fail in any combination; the backends write files in several steps
without a lock; and while a hop cleans up after a server, the handler of that server
is still at its last packet. `PROJECT.json` lists each hazard with its
line and the properties meant for it.

What makes a component correct:

- Session: a client has at most one server, the server it is on answers to it,
  nobody dereferences a nil server, nothing stays open behind a hop, and every
  hop, fallback, first connection and shutdown comes to an end.
- Configuration: a reload keeps dynamic servers and the servers people play on,
  restores everything when it fails; plugins do not touch static servers.
- Login: one connection per name, no more clients past the tests of `ToSrvInit` than the
  limit, an account is not registered twice, a name is released in the end.
- Content: a pool is either denied or complete, numbers are unambiguous, the
  download ends unless a server stalls.
- Packet translation: after a hop the client shows nothing of the old server; messages
  and interactions reach the object they are about.
- Authentication backends: a password is lost only while its own files are written, a ban
  only by calls that conflict.
- Mod channels: the record survives the hops that cut off answers, and every channel of it
  is joined again unless the new server ignores the request.

## 2. Modules

| Module | What it is |
|---|---|
| `Session` | the life of one client and of its upstream connections |
| `SessionInv` | the inductive invariant of Session |
| `SessionProofs` | its theorems |
| `ServerConfig` | the configuration and the clients that depend on it |
| `ServerConfigProofs` | its theorems |
| `ConfigStore` | abstract: what `configMu` promises; `ServerConfig` implements it |
| `Login` | from a new connection to a player and back |
| `LoginProofs` | its theorems |
| `ContentMux` | one call of `muxContent` and its goroutines |
| `ContentMuxProofs` | its theorems |
| `AuthBackends` | concurrent calls of the authentication backends, with failures and crashes |
| `AuthProofs` | its theorems |
| `ClientView` | what a client shows, over a hop |
| `ClientViewInv` | the inductive invariant of ClientView |
| `ClientViewProofs` | its theorems |
| `ModChannels` | mod channels that are joined again after hops |
| `ModChannelsInv` | the inductive invariants of ModChannels |
| `ModChannelsProofs` | its theorems |
| `Presence` | abstract: a player on one server after another; `Session` implements it |
| `PoolContent` | abstract: the fate of every pool is decided once; `ContentMux` implements it |
| `MC_*` | constants of the small instances; one `.cfg` per run |

A definition whose comment begins with "Mutant" is not part of the model. It is a
changed form of the definition below it, with a bug one could plausibly write, and
serves to show that a property can fail.

### Session

Every goroutine is a process with a program counter `pc[p]`: callers of `Hop`
(`Hoppers`), the `handleSrv` goroutine of each connection (`Conns`), the goroutine
of `Run` (`Run`) and the signal handler (`Shut`). `cltPc` is the control of
`handleClt`. A step is what a goroutine does between two points where another one
can interfere: taking or releasing a mutex, reading or writing a shared field,
blocking. `HopRaw` is `HopLock` ... `HopRejoin`, one action for each of its calls of
`cc.server()` that may return something else than the one before, `connect` is
`ConnCheck` and `ConnAttach` with its two separate locks, `fallback` is
`FallbackNowhere` ... `FbEnd`. The kick by the server (process.go:628-652) and the
lost connection (server_conn.go:112-149) are the two ways into `fallback`; the
second runs it with `ServerConn.mu` held, which is `scMu[s] = s`.

Abstractions: there is one client, because clients share nothing here. The packets
that reset what the client displays (hop.go:91-208) are one step, `HopReset`, that
uses the server it may lack. What servers and the network do is external
(`PeerClose`, `CltClose`, the choice between dial and failure). The configuration is
constant, and its changes are the subject of `ServerConfig`. `stopped` records a nil
dereference, which ends the whole program, or the exit.

### ServerConfig

`LoadConfig` holds `configMu` but readers do not take it, so it is split where a
reader can see a difference: `LoadReset`, `LoadDecode`, `LoadCheck`, `LoadMerge`, and
the exits `LoadFail` and `LoadRefuse` that restore the copy. A file is a member of
`Files`: a map from names to pools and a Boolean option, which may be absent. `now`
is the clock that stamps new pools. A client accepts, multiplexes the content
(`CltMux`), passes the tests of `Run` or `HopRaw` (`JoinGate`, `HopGate`), reads the
pool in `connect` and is attached in a later step, because `RmServer` and `LoadConfig`
look for `ServerName()`, which exists only after that.

### Login

`handleClt` processes the packets of a client one after the other; what interleaves
are different clients. Where `process` blocks for the acknowledgement of a kick,
with or without `playersMu`, the control is a state of its own (`"kick"`, `"taken"`).
At `"recv"` any packet may come next. The guards are the tests the code makes, of
`cstate` and of the authentication method: `ToSrvInit` comes once, `ToSrvSRPBytesM` need
not follow a `ToSrvSRPBytesA`, and `ToSrvInit2` and `ToSrvCltReady` make no test at all, so
a client that never sent `ToSrvInit`, or was refused, becomes active too. A second
`ToSrvCltReady` closes `initCh` again, which is a panic (`stopped`). A packet that fails a
test without a kick changes nothing and is no step. `Kick` does not wait: a client it was
called for (`kicked`) goes on sending packets until it acknowledges. `"mux"` is the call of
`muxContent`, which may last for ever. Accounts that exist beforehand are arbitrary. SRP is
a choice between success and failure. `Collect` reuses a slot of `Clients` for a new
connection, so behaviours are not bounded.

### ContentMux

The loop over the pools and their members in any order, a goroutine per contacted
server with its greeting, timeout, both authentication methods, the parts of the
content and the end, then the wait for the goroutines and the assignment of numbers,
one definition per step. Numbers have the width of `mt.Content`: after `MaxContent`
follows 0; `wrapped` remembers that. Item definitions, media files and prefixes of
names are left out; no property needs them. Servers send what they are asked for, close or
stall, and the answer to a repeated `ToSrvInit` may come twice. Only the greeting has a
timeout (content.go:123): a connection that is past it and brings nothing more, be it
because the server stalls or because the goroutine gave up without closing it (174-177,
218-227), is waited for in `muxErrors` for ever (`Stalls`).

### AuthBackends

A caller `g` is a goroutine in one call of the backend: that of a client that logs in
(process.go:148-352), a plugin, or the converter, whose `Export` and `Import` visit
several users in one call (`user`, `rest`, `import`). `Import` sets one password after
another and deletes nobody. `backend` is the choice of run.go:26-52. The
files backend takes one step per system call, and `os.WriteFile` takes two, as it truncates
the file before it writes; a database does one statement per user, after which salt and
verifier are stored together. The bans of both databases are `ipban.txt`, which a call
reads at once into `copy`, empties and writes line by line; two calls that write it
together may lose lines of each other (`mixed`). `Fail` returns the error of any step and
`Crash` restarts the program with what is on the disk.

What is promised is history. `passwd` is the password a user has for sure: it becomes
uncertain when a call truncates the first file of that user, and is set when a call is
through with both, unless two calls wrote them together (`crossed`) and may have left a
mixture. `banned` are the addresses that are to stay banned; `alone` holds the calls about
bans that no conflicting call has overlapped. There is no lock, so more than that is not
kept: section 6.

Abstractions: a pair of salt and verifier is one value, of which each file holds its part;
a file that is truncated is `Blank`; timestamps and the last server are left out, as are
partly written lines (a line without `|` makes `readBans` panic).

### ClientView

Everything a server makes the client show has a kind and an identifier. `tracked` is
what `ServerConn` records (`aos`, `detachedInvs`, ...), `shown` is what the client shows,
with the connection and the identifier of the server it came from. The handler of a
connection is `Receive` (it reads its client once), `Track` (it translates and records)
and `Send`; a hop is `Detach`, one `Reset` per loop of hop.go:91-208 and `Connect`. They
interleave, as nothing serialises them. `Swap` is `swapAOID`; `playerCAO` is the
player at the client, `currentCAO` at the current server. An interaction of the player
passes the proxy in two steps, as `ClientConn.process` reads its server at the start.

A server sends an object only when the client does not have it, and removes what it
added; it sends the player object at most once. It sends messages about both (`"msg"`,
`ToCltAOMsgs`, process.go:740-744), and the rest as it likes. The first server's player
object is shown to the client; of the others the client gets the first messages only
(`"init"`, process.go:764-773), with the identifier of the server.

### ModChannels

The client asks to join and leave channels; `process` forwards that, the server answers in
order or ignores what comes too early, and the handler of the server records the answer in
`modChs` before it sends it on. A hop closes the connection, which loses what is under way
in both directions, and its last loop asks the next server to join what is recorded; the
loop runs while answers change the record. A handler that was at a signal when its
connection was left finishes later (`late`). `HopRaw` sends the joins as soon as `connect`
has returned, which does not wait for the handshake of the new server (connect.go:64): until
it is over (`ready`) the server may ignore a request, which leaves the record of that channel
as it was (`unsure`, until the server answers a request about it). `modChanSubscribers` is kept as well, but every
packet of a client ends with the deferred `cltLeaveModChans` (process.go:16-18).

`JoinModChan` and `LeaveModChan` send on an unbuffered channel before anybody can receive
(plugin_modchan.go:51, 76) and never return, so `modChanJoinChs` and `modChanLeaveChs` are
empty for good, and the goroutines of process.go:949-991 that would report to them never
start.

### Presence, PoolContent and ConfigStore

Three abstract specifications, and `INSTANCE ... WITH` in the modules that implement them.
For `Presence` a player is at the connection that both sides agree on (`Current`: `cc.srv`
is set and that connection has its client). For `PoolContent` a pool is served when a
download of one of its members has succeeded and denied when it is in `deny` (`FateOf`).
For `ConfigStore` the configuration is what a caller of `Conf`, `AddServer` or `RmServer`
sees, who waits for `configMu`: the copy in `old` while `LoadConfig` runs, the global variable
otherwise (`Seen`, `OptionSeen`). Its servers are those of the file (`StaticSeen`) and those
of the plugins (`DynamicSeen`).

## 3. What TLC checks

| Run | Instance | What it shows |
|---|---|---|
| `session_hops` | two callers, two connections, alpha falls back to beta | the safety properties of Session, and that it implements Presence |
| `session_hopends` | one caller, two connections, one server that is its own fallback, the greeter of one connection, fair | a hop ends although kicks compete for `hopMu` |
| `session_settles` | two connections, three servers of which one falls back to an inexistent name, all outcomes of the selection, the timer of one connection, a signal, fair | the first connection (unless its chain names that one), the fallback of a kick and the shutdown of a quiet session end; a kick lacks its reason only after the timer |
| `config_safe` | three servers, four files, one client | reloads, AddServer and RmServer against the safety properties, and that ServerConfig implements ConfigStore |
| `login_players` | two connections, three names (one bad, one banned), a limit of one, fair | names, limit, registration, with packets in any order; a closed connection releases its name |
| `content_pools` | a pool of two and a pool of one, three nodes each, five numbers, fair | the properties of ContentMux, with numbers that are used up, and that it implements PoolContent |
| `auth_calls` | two callers, names, passwords and addresses, both backends | what no call, failure or crash loses: passwords outside of the calls that write them, bans |
| `view_hops` | two servers, three identifiers of objects, one of everything else | nothing of the old server is left; messages about objects, the player object included, and interactions reach their object |
| `modchan_rejoin` | three connections, two channels, three requests | in the end a recorded channel is joined, or unsure; the record has every channel the client believes to be in |

Three more runs (`session_lost`, `session_stale`, `auth_banned`) are violated by what the
code does; see section 6.

The bounds. Two connections suffice for every way in which an old and a new server
can meet; a third would only be the next hop, which starts when the first one is no
longer reachable from the client. Two callers of `Hop` and the goroutines of the
connections compete for `hopMu`. The proofs hold for any number of all of these. The
files of `config_safe` contain a superset, a subset, a moved pool and a changed option;
`MaxNow` bounds the number of accepted clients and reloads. `UserLimit = 1` makes the
limit and the race for it happen with two connections, and each is used again and
again. With six definitions and five numbers the overflow of `param0` happens in
`content_pools`. `Timed` and `Greeted` name the connections whose
timer (in `session_settles`) and greeter (in `session_hopends`) are followed: one each, be it
the first or the second of the client. The greeter only reads, and may stop the program when its client is gone; the timer only takes the
reason of a kick away.

In `auth_calls` accounts and bans are never used in the same behaviour (`OneKind`), as they
share no state. In `view_hops` the kinds share nothing but the order of the reset and the
player object, so a state has entries of one kind only, the player object aside (`OneKind`); a server has one object besides the player
(`FewObjects`), which with the player object of both sides makes every case of `swapAOID`
happen; interactions and messages are about objects that `InteractionReaches` and
`MessagesReachObject` speak of (`AimedClicks`, `AimedMessages`).
`MaxKept` bounds how often a detached inventory is announced. Three connections in
`modchan_rejoin` let a hop cut off the answers to what another hop asked for; three
requests are a join, a leave and another join, or two channels and a leave.

Deadlock is checked in ServerConfig and AuthBackends and not in the other runs: the program may stop,
the connections of an instance are used up, and goroutines do block each other
(section 6); that a wait ends is stated as a liveness property instead. ClientView
and ModChannels come to an end with their hops and requests.

### Fairness

- Session: a goroutine that can take its next step does (weak fairness), as the Go
  scheduler runs every runnable goroutine; a mutex that is free infinitely often is
  given to a waiting goroutine (strong fairness), as `sync.Mutex` hands over to a
  waiter after one millisecond; a kicked client acknowledges or times out; a
  server that kicked closes its connection (or its transport times out). No other fairness
  is assumed of callers, of the network or of servers.
- Login: the same; clients need not send anything nor close, and `muxContent` need not
  return.
- ContentMux: the loop and the goroutines go on, and the ten seconds of content.go:123
  pass. Servers need not answer nor close: `MuxReturns` says that `muxContent` returns or
  some server stalls for ever after its greeting.

`HopTerminates` and `KickFallbackSettles` do not speak of situations in which the wait
may be for ever: a client that has left, and the lost connection of section 6 whose
goroutine waits for itself (`Excused`). `JoinSettles` does not speak of chains of fallbacks
that name a server that is not configured or return to one of their own (`ChainEnds`).

## 4. What is proved

All proofs are checked by TLAPS from the assumptions on the constants that the
modules declare, and from nothing else.

**Session** (`SessionProofs`): `IInv` is inductive (`Inductive`), and from it
`TypeCorrect`, `OneServer`, `ServerAnswers`, `DropIsQuiet`, `NoPlayerLeftBehind`,
`CrashNeedsDeparture`, `ConnectNeverRefuses` and `NilKickExplained`. The safety properties
are not inductive: that the server a hop clears is the one it detached depends on the
fact that nobody else is inside `HopRaw` (`MutexInv`), that the first connection is made
before a hop can get past its first test (`FirstInv`), on what each program point of a
hop knows about `srv` (`HopInv`), and on the handler points that only a client that has
left can reach (`DepartInv`). Together they say: whoever is inside `HopRaw` is alone,
and no step outside of it changes `srv` while the client is there. `NilKickExplained`
rests on `TimerInv`: every way into a fallback records a reason, and only a timer of
`connect` that fires takes it away. `MovesInOrder` is the refinement of `Presence`: with
`IInv`, every step of Session is a step of Presence or changes nothing of what it speaks
about.

**ServerConfig** (`ServerConfigProofs`): `TypeCorrect`, `EveryServerPooled`, and the action
properties `DynamicKept`, `PlayedKept`, `StaticKept` and `KicksForNewPool`. `ReloadInv` says
what the copy, the decoded file and the tests guarantee from one step of `LoadConfig` to the
next. `ReloadsAreAtomic` is the refinement of `ConfigStore`: to those who wait for
`configMu`, a reload installs a whole file and keeps the dynamic servers, or changes nothing,
whichever of its tests fails; `AddServer` and `RmServer` change one dynamic server and no
static one. It needs `LoadedInv`, which says what the global variable holds at each step of
`LoadConfig`. Those who read without the mutex are in section 6.

**Login** (`LoginProofs`): `TypeCorrect`, `NamesUnique`, `AccountsKept`, `UsersLimited`. `OrderInv` says what is left of the
order of the packets when the client does not keep it: who has a name, and that
`playersMu` belongs to a client whose name is taken. `UsersLimited`
is an argument about cardinalities: admitted clients own distinct names of the registry,
so there are at most as many as the registry had entries when the last one was compared
with the limit.

**ContentMux** (`ContentMuxProofs`): `TypeCorrect`, `NumbersUnique`, `ResultsFinal`,
`ErrorsExplained`, `PoolsAccounted` (`PoolsSettled`), `NodesKnown` (`NodesTranslated`) and
`DecidesOnce`, the refinement of `PoolContent`.
Numbers are unique because the next one is above all that were given and is never
reserved, until the width of `mt.Content` is used up (`MuxInv`). For the last two a second
invariant, `SettleInv`, is inductive with the help of the first: every pool is still to
come, is denied or has exactly one connection (`PoolInv`); the parts of a download arrive
in order and nothing changes when its goroutine has ended (`DownloadInv`); and the
definitions the loops of `muxNodeDefs` have passed are mapped (`NodesInv`).

**AuthBackends** (`AuthProofs`): `TypesHold`, `PasswordsStayIntact` and `BansAreKept`. The
invariant says that nobody is at the files of a user whose password is certain, that two
calls at the files of one user have crossed, and what a call that has not crossed has
written at every program point; and of the bans, what a call that is still alone has stored,
and that a call that has emptied `ipban.txt` holds in its copy every ban that is to stay. It
holds for any number of callers, names, passwords and addresses, and whichever calls fail.

**ModChannels** (`ModChannelsProofs`): `TypesHold`, `Rejoins` (`RejoinedAfterHop`) and
`KnowsChannels` (`ClientIsKnown`). `Rejoins` is about the channels that are not `unsure`:
what else it takes to lose a channel is excluded, but a request that comes before the
handshake may be lost, see section 6. A hop throws away requests and signals, so the record may
say anything about the old server; the invariant `PendingInv` says that a channel that is
recorded and not joined at the new one is still in the loop of the hop, in a request under
way, or in a signal that will remove it. For an answered request that takes `OrderInv`: a
success that the server has taken back is followed by the signal that says so, as answers
arrive in order. The other direction is the harder one, and `KInv` is inductive for it:
behind every success under way, the answer to a request to leave follows or the client is in
the channel (`SuccessInv`); and for a channel the client believes to be in, is leaving or is
about to be told of, nothing that is under way can be taken for the success of a later join
(`KnownInv`). All of it is about channels no old handler has spoken of (`late`). One
assumption was missing: the value for "no connection" is none of the connections.

**ClientView** (`ClientViewProofs`): `TypesHold`, `NothingIsLeft`, `MessagesReach` and
`InteractionsReach`. What the client shows is excused or comes from the current server, is
recorded, and the loop of its kind is still to come (`LeftInv`); what a handler is about to
show is recorded already (`SendInv`). `PlayerInv` says where the player object is shown. Once the player object of the server is known the
translation of identifiers is its own inverse (`Across`), and `OwnInv`, `AimInv` and `ClickInv`
follow an object, and a message about it or an interaction with it, through the handlers
that are between their two steps. The attempts to prove this corrected the model: a late packet that fades a sound
shows nothing new, so `late` stays as it is; and `aimed` starts again when the packet of an
old handler changes the identifier of the player object.

With these, every safety invariant, action property and refinement that a passing run checks
is a theorem. Four properties are theorems only, each close to one that a run checks
(`ConnectIsExclusive`, `DynamicSurvivesReload`, `StaticOnlyByReload`, `ReadsFinal`). Only model-checked: the liveness properties (`HopTerminates`, `JoinSettles`,
`KickFallbackSettles`, `QuietShutdownCompletes`, `NameFreed`, `MuxReturns`), as liveness
under fairness is out of the prover's reach. No module uses recursion.

## 5. What is not modelled

- Of the packets: names of media, textures and items that get a prefix, and the packets
  that are forwarded unchanged.
- Of the backends: timestamps, the last server, the creation of the database, backends of
  plugins. SQL statements are atomic, as the databases provide.
- Of mod channels: the messages, which go through callbacks and hold no state.
- Server selection: its outcome is `FirstChoice`. Groups are planned.
- Chat, commands, formspecs, permissions, plugin loading: callbacks and formatting
  without state of their own that another part depends on.
- The server list, logs, caches on disk: input and output. Of the commands under `cmd/`
  the converter is an `Export` and an `Import` in AuthBackends.
- The transport: reliable and ordered, with a timeout, as `mt.Peer` provides.

## 6. Deviations

Where the code disagrees with what the documentation or a comment says. The first three
have a run that finds the violation.

1. `LostServerFallsBack` (`session_lost`): the goroutine of a lost connection holds
   `ServerConn.mu` while its fallback waits for it (server_conn.go:122-144, hop.go:85);
   doc/config.md:155-156 promises the fallback.
2. `FallbackLeavesKicker` (`session_stale`): doc/config.md:155-156 says that a client falls back
   when "this server" is gone. While a kick is handled a hop may move the client on;
   `fallback` then reads the new `fallbackFrom` (fallback.go:6-10) and takes the client off its
   new server.
3. `BannedKeptOut` (`auth_banned`): auth.go:32 says that all methods are safe for concurrent
   use. While a call of `Ban` or `Unban` rewrites `ipban.txt`, players whose address is
   banned get past `Banned` (auth_mtsqlite3.go:209-217, 289-303).

The next four are stated in the modules, next to the properties of the runs. Each fails when
it takes their place in a `.cfg`:

- `FailedHopStays` of Session, in place of those of `session_hops`: hop.go:20-21 says that a
  client whose hop fails stays connected to the current server. That server is closed and
  cleared before the new one is dialled (hop.go:89, 211-222).
- `ReadsOnePassword` of AuthBackends, in `auth_calls`: auth.go:32 again. `Passwd` of the files
  backend reads the salt of one password and the verifier of another (auth_files.go:23-31,
  43-49).
- `ImportDeletesOthers` of AuthBackends, in `auth_calls`: auth_files.go:85 says that `Import`
  deletes all users. It only adds and modifies, as auth.go:57 says. The same holds of
  `ImportBans`, which by auth_files.go:182 "deletes all ban entries" and only calls `Ban`
  (186-190).
- `JoinedMeansMember` of ModChannels, in `modchan_rejoin`: plugin_modchan.go:97-99 says that
  `IsModChanJoined` tells whether a client is subscribed, mainly to track success across
  hops. The joins of hop.go:226-228 come right after `connect` has returned, before the
  handshake of the new server (connect.go:64); a server that ignores them leaves the
  channels recorded.

Others were seen with the same models and a property that is not kept in them.
Each fails when the formula is added to its module and to a `.cfg` of the module:

- run.go:175-193: the goroutine that first connects a client tries one fallback after
  another. One that is not configured is looked up again and again (179-182), and the client
  neither gets a server nor a kick. In Session, with `session_settles`:

      pc[Run] = "runDial" ~> srv # None \/ ~cltOpen \/ stopped # "no"

- doc/config.md:71-72: the user limit bounds the players that are connected.
  `ToSrvCltReady` does not ask whether the client passed the tests of `ToSrvInit`
  (process.go:452-468). In Login:

      Cardinality({c \in open : cstate[c] \in {"active", "sudo"}}) <= UserLimit

  A second `ToSrvCltReady` closes a closed channel (466), which ends the program: `~stopped`
  fails as well.

- process.go:764-773: the first messages about the player object of a further server are
  sent with the identifier of that server, not with the one the client knows its player by.
  In ClientView, as a property:

      [][\A k \in Conns :
           packet[k].op = "init" /\ packet[k].pc = "send" /\ packet'[k].pc = "idle"
             /\ Attached(k) =>
           \A id \in AOIDs : shown["ao"][id] = Player => id = packet[k].at]_vars

- content.go:565-578: `muxContent` returns the pools that can be used. A server that stalls
  after its greeting, or whose hello or salt is refused without a close (174-177, 218-227),
  keeps it in `muxErrors` for ever (365), and with it the client. In ContentMux, as a
  property:

      <>(pc = "returned")

- config.go:152, doc/dynamic_servers.md:36: a server people play on is not removed. A client
  that is on its way there is not seen (connect.go:21-53). In ServerConfig:

      MuFree => \A c \in Clients : cur[c] = None \/ cur[c] \in DOMAIN servers

- plugin_join_leave.go:32-33: leave handlers are called whenever a player disconnects. They
  are skipped in sudo mode (client_conn.go:131). In Login:

      \A c \in Clients : pc[c] = "done" /\ c \in joined => c \in left

- doc/media_pools.md:47-48: members of a media pool share their content. Node numbers are
  translated for the contacted member only (content.go:583-584). In ContentMux, with numbers
  for all definitions (`MaxContent = 9`):

      pc = "returned" /\ ~wrapped => \A s \in Servers : PoolOf[s] \notin deny =>
        \A k \in DOMAIN NodeDefs[s] : LET g == GlobalParam0(s, NodeDefs[s][k]) IN
          /\ g \in DOMAIN p0SrvMap /\ p0SrvMap[g].name # None
          /\ PoolOf[p0SrvMap[g].name] = PoolOf[s]

- plugin_modchan.go:20: `SendModChanMsg` reaches all subscribed clients. The list is emptied
  of a client at the end of every packet, also of the one that subscribes it (process.go:16-18).
  In ModChannels:

      Resting => {ch \in Channels : view[ch] = "ready"} \subseteq subscribers

- hop.go:92: the client is reset to its initial state. A looped sound that is faded but not
  silent is forgotten (process.go:912-913) and goes on on the next server: `NothingLeft`
  fails without the line about `faded`. A packet that a handler was at is delivered after the
  reset: it fails without the lines about `late` and `InFlight`. And a hop before the client has
  its player object resets nothing: it fails without the line about `early`.

- process.go:748-751: the identifiers of removed objects are not translated, unlike those of
  added ones. A server that removes the object whose identifier is that of the player at
  the client takes the player object away from the client. In ClientView:

      \A k \in Conns : packet[k].pc = "send" /\ packet[k].op = "del" /\ Attached(k) /\ OwnKnown
        => packet[k].at # playerCAO

  For the same reason `MessagesReachObject` speaks of objects that were added when the player
  object was known (`aimed`): before, the identifiers of the previous server are swapped.

- hop.go:83-84: a packet handler does not close the client of a hop. A kick that waits
  for its acknowledgement closes a client that has hopped away (process.go:642-645).

      [][\A s \in Conns : pc[s] = "fwdKick" /\ pc'[s] = "fwdDetach" /\ cltOpen
                            => s \in attached]_vars

- auth.go:49-50: the backend knows the last server. `Hop` stores it after `hopMu` is
  released (hop.go:25-29); needs two callers and servers without fallback.

      [][lastSrv' # lastSrv /\ cltOpen /\ srv # None
           => lastSrv' = name[srv] \/ \E p \in Callers : InHop(p)]_vars

- README.md:135-138: a signal ends the proxy. `handleClt` and a lost server take
  `ClientConn.mu` and `ServerConn.mu` in opposite orders (client_conn.go:147-149,
  server_conn.go:122, fallback.go:48), and the signal handler waits for them.

      pc[Shut] = "shutRead" ~> stopped # "no"

- doc/dynamic_servers.md:9-10: the pool of a dynamic server has a static member. A reload
  may take the last one away.

      MuFree => \A n \in DOMAIN servers : servers[n].dynamic =>
        \E k \in DOMAIN servers : ~servers[k].dynamic /\ servers[k].pool = servers[n].pool

- hop.go:14: a hop to a pool the client does not know is refused. `AddServer` stamps every
  dynamic server with the start of the proxy, also in a newer pool (config.go:115).

      [][\A c \in Clients, n \in Names :
           state[c] = "playing" /\ state'[c] = "moving" /\ want'[c] = n
             => servers[n].pool \in known[c]]_vars

- config.go:107-109: a definition of a dynamic server in the file is ignored. The whole
  reload fails (config.go:328-331).

      [][phase \in {"decoded", "checked"} /\ phase' = "idle" /\ ~Busy =>
           DOMAIN servers \subseteq DOMAIN servers']_vars

- doc/config.md:161-164: an option has a default. A Boolean option that is removed from
  the file keeps its value over a reload (config.go:295-305).

      [][phase = "checked" /\ phase' = "idle" => force' = Option(file, FALSE)]_vars

- doc/config.md:171-172: players are kicked when a pool is added. A server that exists and
  moves to a new pool is not considered (config.go:363).

      [][phase = "checked" /\ phase' = "idle" /\ KickOnNewPool
           /\ ~(PoolsOf(servers') \subseteq PoolsOf(old.servers)) =>
           \A c \in Clients : state[c] # "away" => c \in doomed']_vars

- doc/config.md:155-156: a client falls back. During a reload the lookup finds an empty
  map (fallback.go:10, config.go:301) and the client is closed.

      [][\A c \in Clients :
           state[c] = "playing" /\ state'[c] = "closing"
             /\ cur[c] \in DOMAIN (IF MuFree THEN servers ELSE old.servers)
             => Fallback[cur[c]] = None]_vars

Outside of the models:

- `ConnectTo` of a node definition is translated with a map that is still being built, so
  a reference to a later definition becomes 0 (content.go:482).
- `JoinModChan` and `LeaveModChan` never return (plugin_modchan.go:51, 76), although line
  40-41 promises a channel that yields a result.
- The loops of hop.go:91-208 and 226 range over maps that the handler of the connection
  writes without a mutex; the Go runtime may stop the program when it notices.
- `handleCltModChanMsg` reads the list of subscribers under the mutex of the callbacks
  (plugin_modchan.go:173-176).

## 7. Plan

1. An abstract registry of players that Login implements, with the rollback of a client
   that gives up.
2. Server groups and selection, composed with the first connection.
3. The transport of a hop and of the mod channels composed: HopRaw of Session with the
   messages of ModChannels.
