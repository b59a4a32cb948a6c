---------------------------- MODULE AuthBackends ----------------------------
(***************************************************************************)
(* The authentication backends (auth.go): one interface, implemented by    *)
(* files (auth_files.go) and by the databases of Minetest with a text file *)
(* for the bans (auth_mtsqlite3.go, auth_mtpostgresql.go, the same code    *)
(* but for the SQL).  Neither has a lock.  A call is one step per system   *)
(* call or SQL statement, may fail at any of them, and the program may     *)
(* stop between any two.                                                   *)
(*                                                                         *)
(* A string without structure is a model value; a file that was truncated  *)
(* and not written yet is Blank.  ImportBans is calls of Ban one after the *)
(* other.  Timestamps and the last server are left out.                    *)
(***************************************************************************)
CONSTANTS
  Callers,   \* goroutines: of the clients, of plugins, of the converter
  Names,     \* of players
  Passwords, \* pairs of salt and verifier
  Addrs,     \* network addresses
  Backends,  \* what the configuration may choose: "files", "mt"
  None,      \* no entry, no file
  Blank      \* an empty file

ASSUME AuthAssumption ==
  /\ Backends \subseteq {"files", "mt"}
  /\ None # Blank
  /\ {None, Blank} \cap (Names \cup Passwords \cup Addrs) = {}
  /\ Names \cap Addrs = {}

VARIABLES
  backend,  \* authIface
  account,  \* whether a user exists, and its salt and verifier
  bans,     \* the name stored with every address
  pc,       \* control of a call
  user,     \* the account the call is at
  rest,     \* those it comes to next (Import, Export)
  import,   \* history: the names an Import is about, none for other calls
  saltRead, \* the salt it has read
  ban,      \* the argument of Ban or Unban
  copy,     \* the entries it has read and not written or looked at yet
  crossed,  \* history: calls that write files of a user together with another one
  passwd,   \* history: the password that is set, None while it is uncertain
  alone,    \* history: calls about bans that no conflicting call overlapped
  mixed,    \* history: those that write ipban.txt together with another one
  banned,   \* history: addresses that are to stay banned
  admitted  \* addresses that a player has come from past Banned

accountVars == <<account, user, rest, import, saltRead, crossed, passwd>>
banVars == <<bans, ban, copy, alone, mixed, banned>>
vars == <<backend, accountVars, banVars, pc, admitted>>

WriterPcs == {"mkdir", "salt", "saltFill", "verifier", "verifierFill"}
HalfPcs == {"saltFill", "verifier", "verifierFill"}
ReaderPcs == {"readSalt", "readVerifier"}
BanPcs == {"banFill", "truncate", "line", "list", "look", "remove"}

NoUser == [name |-> None, passwd |-> None]
NoBan == [add |-> FALSE, addr |-> None, name |-> None]
NoEntries == [a \in Addrs |-> None]

Init ==
  /\ backend \in Backends
  /\ account = [n \in Names |-> [exists |-> FALSE, salt |-> None, verifier |-> None]]
  /\ bans = NoEntries
  /\ pc = [g \in Callers |-> "idle"]
  /\ user = [g \in Callers |-> NoUser]
  /\ rest = [g \in Callers |-> {}]
  /\ import = [g \in Callers |-> {}]
  /\ saltRead = [g \in Callers |-> None]
  /\ ban = [g \in Callers |-> NoBan]
  /\ copy = [g \in Callers |-> NoEntries]
  /\ crossed = {}
  /\ passwd = [n \in Names |-> None]
  /\ alone = {}
  /\ mixed = {}
  /\ banned = {}
  /\ admitted = {}

Goto(g, l) == pc' = [pc EXCEPT ![g] = l]
Put(n, field, v) == account' = [account EXCEPT ![n][field] = v]

-----------------------------------------------------------------------------
(***************************************************************************)
(* Accounts.  From the truncation of the salt to the end of the verifier   *)
(* the files of a user are half written; two calls that are there for the  *)
(* same user cross.                                                        *)
(***************************************************************************)
Half(g, n) == pc[g] \in HalfPcs /\ user[g].name = n

\* SetPasswd(name, passwd).
SetPasswd(g, u) ==
  /\ pc[g] = "idle"
  /\ user' = [user EXCEPT ![g] = u]
  /\ Goto(g, "mkdir")
  /\ UNCHANGED <<backend, account, rest, import, saltRead, crossed, passwd, banVars, admitted>>

\* Import(us) sets the password of one user after another and deletes nobody.
Import(g, us, u) ==
  /\ pc[g] = "idle"
  /\ user' = [user EXCEPT ![g] = u]
  /\ rest' = [rest EXCEPT ![g] = us \ {u}]
  /\ import' = [import EXCEPT ![g] = {v.name : v \in us}]
  /\ Goto(g, "mkdir")
  /\ UNCHANGED <<backend, account, saltRead, crossed, passwd, banVars, admitted>>

\* Mutant: the loop over the users goes one round too far.
NextUserBeyond(g, start) ==
  /\ Goto(g, start)
  /\ \/ rest[g] = {} /\ user' = [user EXCEPT ![g] = NoUser] /\ UNCHANGED rest
     \/ \E u \in rest[g] : /\ user' = [user EXCEPT ![g] = u]
                           /\ rest' = [rest EXCEPT ![g] = @ \ {u}]
  /\ UNCHANGED import

\* The call is through with a user: it goes on with the next one or returns.
NextUser(g, start) ==
  \/ /\ rest[g] = {}
     /\ Goto(g, "idle")
     /\ user' = [user EXCEPT ![g] = NoUser]
     /\ import' = [import EXCEPT ![g] = {}]
     /\ UNCHANGED rest
  \/ \E u \in rest[g] :
       /\ user' = [user EXCEPT ![g] = u]
       /\ rest' = [rest EXCEPT ![g] = @ \ {u}]
       /\ Goto(g, start)
       /\ UNCHANGED import

\* The password of a user is set; calls that crossed may have left a mixture.
Done(g) ==
  /\ NextUser(g, "mkdir")
  /\ crossed' = crossed \ {g}
  /\ passwd' = IF g \in crossed THEN passwd
               ELSE [passwd EXCEPT ![user[g].name] = user[g].passwd]
  /\ UNCHANGED <<backend, saltRead, banVars, admitted>>

\* files: the directory of the user, which is all that Exists asks for.
Mkdir(g) ==
  /\ backend = "files"
  /\ pc[g] = "mkdir"
  /\ Put(user[g].name, "exists", TRUE)
  /\ Goto(g, "salt")
  /\ UNCHANGED <<backend, user, rest, import, saltRead, crossed, passwd, banVars, admitted>>

\* os.WriteFile truncates the file and then writes it.
TruncateSalt(g) ==
  /\ pc[g] = "salt"
  /\ Put(user[g].name, "salt", Blank)
  /\ Goto(g, "saltFill")
  /\ LET others == {h \in Callers : Half(h, user[g].name)}
     IN  crossed' = IF others = {} THEN crossed ELSE crossed \cup others \cup {g}
  /\ passwd' = [passwd EXCEPT ![user[g].name] = None]
  /\ UNCHANGED <<backend, user, rest, import, saltRead, banVars, admitted>>

\* Mutant: the error of the first file is not looked at.
FillSaltUnchecked(g) ==
  /\ pc[g] = "saltFill"
  /\ \/ Put(user[g].name, "salt", user[g].passwd)
     \/ UNCHANGED account
  /\ Goto(g, "verifier")
  /\ UNCHANGED <<backend, user, rest, import, saltRead, crossed, passwd, banVars, admitted>>

FillSalt(g) ==
  /\ pc[g] = "saltFill"
  /\ Put(user[g].name, "salt", user[g].passwd)
  /\ Goto(g, "verifier")
  /\ UNCHANGED <<backend, user, rest, import, saltRead, crossed, passwd, banVars, admitted>>

TruncateVerifier(g) ==
  /\ pc[g] = "verifier"
  /\ Put(user[g].name, "verifier", Blank)
  /\ Goto(g, "verifierFill")
  /\ UNCHANGED <<backend, user, rest, import, saltRead, crossed, passwd, banVars, admitted>>

FillVerifier(g) ==
  /\ pc[g] = "verifierFill"
  /\ Put(user[g].name, "verifier", user[g].passwd)
  /\ Done(g)

\* mt: one statement inserts or replaces the row of the user.
Replace(g) ==
  /\ backend = "mt"
  /\ pc[g] = "mkdir"
  /\ account' = [account EXCEPT ![user[g].name] =
       [exists |-> TRUE, salt |-> user[g].passwd, verifier |-> user[g].passwd]]
  /\ Done(g)

\* Passwd(name), and Export, which reads one user of its list after another.
Passwd(g, us, u) ==
  /\ pc[g] = "idle"
  /\ user' = [user EXCEPT ![g] = u]
  /\ rest' = [rest EXCEPT ![g] = us \ {u}]
  /\ Goto(g, "readSalt")
  /\ UNCHANGED <<backend, account, import, saltRead, crossed, passwd, banVars, admitted>>

\* A file that does not exist ends the call with an error, see Fail.
ReadSalt(g) ==
  /\ backend = "files"
  /\ pc[g] = "readSalt"
  /\ account[user[g].name].salt # None
  /\ saltRead' = [saltRead EXCEPT ![g] = account[user[g].name].salt]
  /\ Goto(g, "readVerifier")
  /\ UNCHANGED <<backend, account, user, rest, import, crossed, passwd, banVars, admitted>>

ReadVerifier(g) ==
  /\ pc[g] = "readVerifier"
  /\ account[user[g].name].verifier # None
  /\ NextUser(g, "readSalt")
  /\ saltRead' = [saltRead EXCEPT ![g] = None]
  /\ UNCHANGED <<backend, account, crossed, passwd, banVars, admitted>>

\* mt: one statement reads both.
Select(g) ==
  /\ backend = "mt"
  /\ pc[g] = "readSalt"
  /\ account[user[g].name].exists
  /\ NextUser(g, "readSalt")
  /\ UNCHANGED <<backend, account, saltRead, crossed, passwd, banVars, admitted>>

-----------------------------------------------------------------------------
(***************************************************************************)
(* Bans.  All calls of mt that change the bans rewrite one file; those of  *)
(* files conflict if one of them is Unban.                                 *)
(***************************************************************************)
Moderates(g) == pc[g] \in BanPcs
Conflicting(b) ==
  {h \in Callers : Moderates(h) /\ (backend = "mt" \/ ~b.add \/ ~ban[h].add)}

\* The entries that Unban of an address or a name is about.
Matches(b, entries) ==
  {a \in Addrs : a = b.addr \/ (b.name # None /\ entries[a] = b.name)}

\* The entries a call has still to look at or to write.
Listed(g) == {a \in Addrs : copy[g][a] # None}

\* What stays banned when the call starts.
KeptBans(b) ==
  LET others == Conflicting(b)
      lifted == IF b.add THEN {} ELSE Matches(b, bans)
  IN  IF others = {} THEN banned \ lifted
      ELSE IF backend = "mt" THEN {}
      ELSE banned \ (lifted \cup {b.addr} \cup {ban[h].addr : h \in others})

\* A call starts; the history of the calls that overlap is kept.
Overlap(g, others) ==
  alone' = IF others = {} THEN alone \cup {g} ELSE alone \ (others \cup {g})

Moderate(g, b) ==
  /\ pc[g] = "idle"
  /\ Overlap(g, Conflicting(b))
  /\ banned' = KeptBans(b)
  /\ UNCHANGED <<backend, accountVars, mixed, admitted>>

Argument(g, b) == ban' = [ban EXCEPT ![g] = b]

BanDone(g) ==
  /\ Goto(g, "idle")
  /\ alone' = alone \ {g}
  /\ ban' = [ban EXCEPT ![g] = NoBan]
  /\ copy' = [copy EXCEPT ![g] = NoEntries]
  /\ mixed' = mixed \ {g}
  /\ UNCHANGED <<backend, accountVars, admitted>>

\* A ban that was added, not overlapped by a conflicting call, is to stay.
Added(g) ==
  banned' = IF ban[g].add /\ g \in alone THEN banned \cup {ban[g].addr} ELSE banned

\* files: Ban opens the file of the address.
BanFile(g, a, n) ==
  /\ backend = "files"
  /\ LET b == [add |-> TRUE, addr |-> a, name |-> n] IN Moderate(g, b) /\ Argument(g, b)
  /\ bans' = [bans EXCEPT ![a] = Blank]
  /\ Goto(g, "banFill")
  /\ UNCHANGED copy

\* Unban may have removed the file by now: the name is written to no file.
FillBan(g) ==
  /\ pc[g] = "banFill"
  /\ \/ /\ bans[ban[g].addr] # None
        /\ bans' = [bans EXCEPT ![ban[g].addr] = ban[g].name]
     \/ g \notin alone /\ UNCHANGED bans
  /\ Added(g)
  /\ BanDone(g)

\* files: Unban removes the file of the address; if there is none it lists them.
UnbanFile(g, b) ==
  /\ backend = "files"
  /\ Moderate(g, b)
  /\ IF b.addr # None /\ bans[b.addr] # None
     THEN bans' = [bans EXCEPT ![b.addr] = None] /\ UNCHANGED <<pc, ban>>
     ELSE UNCHANGED bans /\ Argument(g, b) /\ Goto(g, "list")
  /\ UNCHANGED copy

ListBans(g) ==
  /\ pc[g] = "list"
  /\ copy' = [copy EXCEPT ![g] = bans]
  /\ Goto(g, "look")
  /\ UNCHANGED <<backend, accountVars, bans, ban, mixed, banned, alone, admitted>>

\* The files in the list are read; the first one with the name is removed.
LookOn(g, a) ==
  /\ bans[a] \notin {None, ban[g].name}
  /\ copy' = [copy EXCEPT ![g][a] = None]
  /\ UNCHANGED <<backend, accountVars, bans, ban, pc, mixed, banned, alone, admitted>>

LookFound(g, a) ==
  /\ bans[a] # None
  /\ bans[a] = ban[g].name
  /\ Argument(g, [ban[g] EXCEPT !.addr = a])
  /\ Goto(g, "remove")
  /\ UNCHANGED <<backend, accountVars, bans, copy, mixed, banned, alone, admitted>>

LookEnd(g) ==
  /\ Listed(g) = {}
  /\ BanDone(g)
  /\ UNCHANGED <<bans, banned>>

Look(g) ==
  /\ pc[g] = "look"
  /\ \/ \E a \in Listed(g) : LookOn(g, a) \/ LookFound(g, a)
     \/ LookEnd(g)

Remove(g) ==
  /\ pc[g] = "remove"
  /\ bans' = [bans EXCEPT ![ban[g].addr] = None]
  /\ BanDone(g)
  /\ UNCHANGED banned

\* Mutant: Unban drops every entry that has a name.
EditedLoosely(b) ==
  IF b.add THEN [bans EXCEPT ![b.addr] = b.name]
  ELSE [a \in Addrs |-> IF a = b.addr \/ b.name # None THEN None ELSE bans[a]]

\* mt: Ban and Unban read the entries and change their copy.
Edited(b) ==
  IF b.add THEN [bans EXCEPT ![b.addr] = b.name]
  ELSE [a \in Addrs |-> IF a \in Matches(b, bans) THEN None ELSE bans[a]]

EditBans(g, b) ==
  /\ backend = "mt"
  /\ Moderate(g, b)
  /\ Argument(g, b)
  /\ copy' = [copy EXCEPT ![g] = Edited(b)]
  /\ Goto(g, "truncate")
  /\ UNCHANGED bans

\* writeBans opens the file and thereby empties it.
Truncate(g) ==
  /\ pc[g] = "truncate"
  /\ bans' = NoEntries
  /\ Goto(g, "line")
  /\ LET others == {h \in Callers : pc[h] = "line"}
     IN  mixed' = IF others = {} THEN mixed ELSE mixed \cup others \cup {g}
  /\ UNCHANGED <<backend, accountVars, ban, copy, banned, alone, admitted>>

\* Two calls that write the file together leave some of the lines they wrote.
WriteLine(g, a) ==
  /\ \E lost \in SUBSET Addrs :
       /\ g \in mixed \/ lost = {}
       /\ bans' = [c \in Addrs |-> IF c \in lost THEN None
                                   ELSE IF c = a THEN copy[g][c] ELSE bans[c]]
  /\ copy' = [copy EXCEPT ![g][a] = None]
  /\ UNCHANGED <<backend, accountVars, ban, pc, mixed, banned, alone, admitted>>

WriteEnd(g) ==
  /\ Listed(g) = {}
  /\ Added(g)
  /\ BanDone(g)
  /\ UNCHANGED bans

WriteBans(g) ==
  /\ pc[g] = "line"
  /\ (\E a \in Listed(g) : WriteLine(g, a)) \/ WriteEnd(g)

\* Banned(addr) when a player connects: what is stored at the moment is looked up.
Banned(a) ==
  /\ admitted' = IF bans[a] = None THEN admitted \cup {a} ELSE admitted \ {a}
  /\ UNCHANGED <<backend, accountVars, banVars, pc>>

-----------------------------------------------------------------------------
\* What is to stay banned when calls end at once: a file half written is lost.
Survives(gs) == IF \E g \in gs : pc[g] = "line" THEN {} ELSE banned

\* A call may fail at every step that it has ahead and then returns its error.
Fail(g) ==
  /\ pc[g] # "idle"
  /\ banned' = Survives({g})
  /\ Goto(g, "idle")
  /\ user' = [user EXCEPT ![g] = NoUser]
  /\ rest' = [rest EXCEPT ![g] = {}]
  /\ import' = [import EXCEPT ![g] = {}]
  /\ saltRead' = [saltRead EXCEPT ![g] = None]
  /\ ban' = [ban EXCEPT ![g] = NoBan]
  /\ copy' = [copy EXCEPT ![g] = NoEntries]
  /\ crossed' = crossed \ {g}
  /\ mixed' = mixed \ {g}
  /\ alone' = alone \ {g}
  /\ UNCHANGED <<backend, account, bans, passwd, admitted>>

\* The program stops and is started again.
Crash ==
  /\ \E g \in Callers : pc[g] # "idle"
  /\ banned' = Survives(Callers)
  /\ pc' = [g \in Callers |-> "idle"]
  /\ user' = [g \in Callers |-> NoUser]
  /\ rest' = [g \in Callers |-> {}]
  /\ import' = [g \in Callers |-> {}]
  /\ saltRead' = [g \in Callers |-> None]
  /\ ban' = [g \in Callers |-> NoBan]
  /\ copy' = [g \in Callers |-> NoEntries]
  /\ crossed' = {}
  /\ mixed' = {}
  /\ alone' = {}
  /\ admitted' = {}
  /\ UNCHANGED <<backend, account, bans, passwd>>

Users == [name : Names, passwd : Passwords]
\* The users of an Import or Export have different names.
Lists == {us \in SUBSET Users : \A u, v \in us : u.name = v.name => u = v}
Unbans == [add : {FALSE}, addr : Addrs, name : {None}]
          \cup [add : {FALSE}, addr : {None}, name : Names]

AccountStep(g) ==
  \/ \E u \in Users : SetPasswd(g, u)
  \/ \E us \in Lists : \E u \in us : Import(g, us, u) \/ Passwd(g, us, u)
  \/ Mkdir(g) \/ TruncateSalt(g) \/ FillSalt(g) \/ TruncateVerifier(g) \/ FillVerifier(g)
  \/ Replace(g) \/ ReadSalt(g) \/ ReadVerifier(g) \/ Select(g)

FileBanStep(g) ==
  \/ \E a \in Addrs, n \in Names : BanFile(g, a, n)
  \/ \E b \in Unbans : UnbanFile(g, b)
  \/ FillBan(g) \/ ListBans(g) \/ Look(g) \/ Remove(g)

MTBanStep(g) ==
  \/ \E a \in Addrs, n \in Names : EditBans(g, [add |-> TRUE, addr |-> a, name |-> n])
  \/ \E b \in Unbans : EditBans(g, b)
  \/ Truncate(g) \/ WriteBans(g)

Step(g) == AccountStep(g) \/ FileBanStep(g) \/ MTBanStep(g) \/ Fail(g)

Next == (\E g \in Callers : Step(g)) \/ (\E a \in Addrs : Banned(a)) \/ Crash

Spec == Init /\ [][Next]_vars

-----------------------------------------------------------------------------
Entry == [exists : BOOLEAN,
          salt : Passwords \cup {None, Blank},
          verifier : Passwords \cup {None, Blank}]
Argued == [add : BOOLEAN, addr : Addrs \cup {None}, name : Names \cup {None}]
Entries == [Addrs -> Names \cup {None, Blank}]

AccountTypes ==
  /\ account \in [Names -> Entry]
  /\ user \in [Callers -> Users \cup {NoUser}]
  /\ \A g \in Callers : pc[g] \in WriterPcs \cup ReaderPcs => user[g] \in Users
  /\ rest \in [Callers -> SUBSET Users]
  /\ import \in [Callers -> SUBSET Names]
  /\ saltRead \in [Callers -> Passwords \cup {None, Blank}]
  /\ crossed \subseteq Callers
  /\ passwd \in [Names -> Passwords \cup {None}]

BanTypes ==
  /\ bans \in Entries
  /\ ban \in [Callers -> Argued]
  /\ \A g \in Callers : ban[g].add => ban[g].addr \in Addrs /\ ban[g].name \in Names
  /\ \A g \in Callers : pc[g] \in {"banFill", "remove"} => ban[g].addr \in Addrs
  /\ copy \in [Callers -> Entries]
  /\ alone \subseteq Callers
  /\ mixed \subseteq Callers
  /\ banned \subseteq Addrs

TypeOK ==
  /\ backend \in Backends
  /\ pc \in [Callers -> {"idle"} \cup WriterPcs \cup ReaderPcs \cup BanPcs]
  /\ admitted \subseteq Addrs
  /\ AccountTypes
  /\ BanTypes

(***************************************************************************)
(* The password that was set last is stored as a whole.  With the database *)
(* this holds whatever calls overlap, fail or are cut off.  With files     *)
(* (auth_files.go:43-50) only a call that is cut off between the two files *)
(* of a user, or two that write them at the same time, lose it, for that   *)
(* user: an Import that fails half way leaves the users it has not come to *)
(* as they were, and those it is through with as it has set them.          *)
(***************************************************************************)
PasswordsIntact ==
  \A n \in Names : passwd[n] # None =>
    account[n] = [exists |-> TRUE, salt |-> passwd[n], verifier |-> passwd[n]]

\* The bans that are to stay are never lost: with files they are stored all the
\* time, with mt they are in the file or in what a running call has still to write.
BansHold ==
  \A a \in banned :
    \/ bans[a] # None
    \/ \E g \in Callers : pc[g] = "line" /\ copy[g][a] # None

\* auth.go: "All methods are safe for concurrent use."  A ban that no conflicting
\* call touched would keep its address out.
BannedKeptOut ==
  [][\A a \in Addrs : a \in admitted' \ admitted => a \notin banned]_vars

\* auth.go: "All methods are safe for concurrent use."  Passwd would return the
\* salt and the verifier of one and the same password.
ReadsOnePassword ==
  [][\A g \in Callers : ReadVerifier(g) => saltRead[g] = account[user[g].name].verifier]_vars

\* auth_files.go: "Import deletes all users and adds the passed users."  When it
\* returns without an error no other user would exist.
ImportDeletesOthers ==
  [][\A g \in Callers : import[g] # {} /\ rest[g] = {} /\ FillVerifier(g)
       => {n \in Names : account'[n].exists} = import[g]]_vars
=============================================================================
