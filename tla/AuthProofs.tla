---------------------------- MODULE AuthProofs ----------------------------
(***************************************************************************)
(* Proofs about the authentication backends, for any number of callers,    *)
(* users and addresses.  Accounts and bans have an invariant each; a call  *)
(* of one kind leaves the other one alone (AccountFrame, BanFrame).        *)
(***************************************************************************)
EXTENDS AuthBackends, TLAPS

\* Steps of a call that writes files, after the directory of the user was made.
Files(g) == pc[g] \in WriterPcs \ {"mkdir"}

\* Only files have steps between them.
FilesOnly == \A g \in Callers : Files(g) => backend = "files"

\* No password is promised for files that are half written.
Uncertain == \A g \in Callers : pc[g] \in HalfPcs => passwd[user[g].name] = None

\* Two calls that write the files of one user know of it until they end.
Crossing ==
  /\ \A g \in crossed : pc[g] \in HalfPcs
  /\ \A g, h \in Callers :
       g # h /\ pc[g] \in HalfPcs /\ Half(h, user[g].name) => g \in crossed

\* What a call has written so far.
Written ==
  \A g \in Callers :
    /\ Files(g) => account[user[g].name].exists
    /\ pc[g] \in {"verifier", "verifierFill"} /\ g \notin crossed =>
         account[user[g].name].salt = user[g].passwd

AccountInv == FilesOnly /\ Uncertain /\ Crossing /\ Written /\ PasswordsIntact

Adds(g) == Moderates(g) /\ ban[g].add
Lifts(g) == Moderates(g) /\ ~ban[g].add

\* Which steps the calls of a backend have.
BanControl ==
  \A g \in Callers :
    /\ pc[g] = "banFill" => Adds(g)
    /\ pc[g] \in {"list", "look", "remove"} => Lifts(g)
    /\ pc[g] \in {"banFill", "list", "look", "remove"} => backend = "files"
    /\ pc[g] \in {"truncate", "line"} => backend = "mt"

\* files: what an Unban by name may remove, or a Ban may lose to it, is not promised.
FilesInv ==
  backend = "files" =>
    /\ \A g, h \in Callers : Lifts(g) /\ Moderates(h) /\ g # h =>
         g \notin alone /\ h \notin alone
    /\ \A g, h \in Callers : Lifts(g) /\ Adds(h) => ban[h].addr \notin banned
    /\ \A g \in Callers : Lifts(g) => 
         \A a \in Addrs : bans[a] = ban[g].name /\ bans[a] # None => a \notin banned
    /\ \A g \in Callers : pc[g] = "remove" => ban[g].addr \notin banned
    /\ \A g \in alone : pc[g] = "banFill" => bans[ban[g].addr] # None

\* mt: only a call that runs alone has anything to lose, and it has it in its copy.
Keeps(g) == IF ban[g].add THEN banned \cup {ban[g].addr} ELSE banned
MTInv ==
  backend = "mt" =>
    /\ \A g, h \in Callers : Moderates(g) /\ Moderates(h) /\ g # h => g \notin alone
    /\ \A g \in Callers : Moderates(g) /\ g \notin alone => banned = {}
    /\ \A g \in alone : pc[g] = "truncate" => \A a \in Keeps(g) : copy[g][a] # None
    /\ \A g \in alone : pc[g] = "line" =>
         \A a \in Keeps(g) : bans[a] # None \/ copy[g][a] # None
    /\ \A g \in mixed : pc[g] = "line" /\ g \notin alone

BanInv == BanControl /\ FilesInv /\ MTInv /\ BansHold

-----------------------------------------------------------------------------
(* Types *)

\* What the account of a user becomes is an account.
LEMMA PutType ==
  ASSUME account \in [Names -> Entry], NEW n \in Names,
         NEW v \in Passwords \cup {None, Blank}, NEW x \in BOOLEAN
  PROVE  /\ [account EXCEPT ![n].exists = x] \in [Names -> Entry]
         /\ [account EXCEPT ![n].salt = v] \in [Names -> Entry]
         /\ [account EXCEPT ![n].verifier = v] \in [Names -> Entry]
         /\ [account EXCEPT ![n] = [exists |-> x, salt |-> v, verifier |-> v]]
              \in [Names -> Entry]
<1>1. account[n] \in Entry
  OBVIOUS
<1>2. /\ [account[n] EXCEPT !.exists = x] \in Entry
      /\ [account[n] EXCEPT !.salt = v] \in Entry
      /\ [account[n] EXCEPT !.verifier = v] \in Entry
      /\ [exists |-> x, salt |-> v, verifier |-> v] \in Entry
  BY <1>1 DEF Entry
<1> HIDE DEF Entry
<1> QED
  BY <1>1, <1>2

\* Who is at the start of a call or between calls.
LEMMA NobodyType == NoUser \notin Users /\ NoBan \in Argued /\ NoEntries \in Entries
BY AuthAssumption DEF NoUser, Users, NoBan, Argued, NoEntries, Entries

\* A user that is set or read has a name and a password.
LEMMA UserType ==
  ASSUME NEW u \in Users
  PROVE  u.name \in Names /\ u.passwd \in Passwords
BY DEF Users

\* The users of a list are users.
LEMMA ListType == \A us \in Lists : us \subseteq Users
BY DEF Lists

\* Where a call goes when it is through with a user.
LEMMA NextUserType ==
  ASSUME TypeOK, NEW g \in Callers, NEW start \in WriterPcs \cup ReaderPcs, NextUser(g, start)
  PROVE  /\ user' \in [Callers -> Users \cup {NoUser}]
         /\ rest' \in [Callers -> SUBSET Users]
         /\ import' \in [Callers -> SUBSET Names]
         /\ \A h \in Callers : pc'[h] \in WriterPcs \cup ReaderPcs => user'[h] \in Users
<1> USE DEF TypeOK, AccountTypes
<1>1. CASE /\ rest[g] = {} /\ Goto(g, "idle") /\ user' = [user EXCEPT ![g] = NoUser]
           /\ import' = [import EXCEPT ![g] = {}] /\ UNCHANGED rest
  BY <1>1 DEF Goto, WriterPcs, ReaderPcs
<1>2. ASSUME NEW u \in rest[g], user' = [user EXCEPT ![g] = u],
             rest' = [rest EXCEPT ![g] = @ \ {u}], Goto(g, start), UNCHANGED import
      PROVE  /\ user' \in [Callers -> Users \cup {NoUser}]
             /\ rest' \in [Callers -> SUBSET Users]
             /\ import' \in [Callers -> SUBSET Names]
             /\ \A h \in Callers : pc'[h] \in WriterPcs \cup ReaderPcs => user'[h] \in Users
  <2>1. u \in Users /\ rest[g] \ {u} \in SUBSET Users
    OBVIOUS
  <2> QED
    BY <1>2, <2>1 DEF Goto
<1> QED
  BY <1>1, <1>2 DEF NextUser

\* A call begins with a user of its list.
LEMMA StartType ==
  ASSUME TypeOK, NEW g \in Callers, NEW us \in Lists, NEW u \in us, NEW start,
         user' = [user EXCEPT ![g] = u], rest' = [rest EXCEPT ![g] = us \ {u}], Goto(g, start)
  PROVE  /\ user' \in [Callers -> Users \cup {NoUser}]
         /\ rest' \in [Callers -> SUBSET Users]
         /\ \A h \in Callers : pc'[h] \in WriterPcs \cup ReaderPcs => user'[h] \in Users
<1>1. u \in Users /\ us \ {u} \in SUBSET Users
  BY ListType
<1> QED
  BY <1>1 DEF TypeOK, AccountTypes, Goto

\* The user whose account a step writes.
LEMMA WriterUser ==
  ASSUME TypeOK, NEW g \in Callers, pc[g] \in WriterPcs \cup ReaderPcs
  PROVE  user[g].name \in Names /\ user[g].passwd \in Passwords
BY UserType DEF TypeOK, AccountTypes

\* A step of the accounts keeps the types.
LEMMA AccountType ==
  ASSUME TypeOK, NEW g \in Callers, AccountStep(g)
  PROVE  TypeOK'
<1> DEFINE CallTypes == /\ user' \in [Callers -> Users \cup {NoUser}]
                        /\ rest' \in [Callers -> SUBSET Users]
                        /\ import' \in [Callers -> SUBSET Names]
                        /\ \A h \in Callers : pc'[h] \in WriterPcs \cup ReaderPcs
                             => user'[h] \in Users
<1>1. BanTypes'
  <2>1. UNCHANGED banVars /\ \A h \in Callers : pc'[h] \in {"banFill", "remove"} => pc'[h] = pc[h]
    BY DEF TypeOK, AccountStep, SetPasswd, Import, Passwd, Mkdir, TruncateSalt, FillSalt,
           TruncateVerifier, FillVerifier, Replace, ReadSalt, ReadVerifier, Select, Done, NextUser,
           Goto
  <2> QED
    BY <2>1 DEF TypeOK, BanTypes, banVars
<1>2. UNCHANGED <<backend, admitted>>
  BY DEF AccountStep, SetPasswd, Import, Passwd, Mkdir, TruncateSalt, FillSalt,
         TruncateVerifier, FillVerifier, Replace, ReadSalt, ReadVerifier, Select, Done
<1>3. crossed' \subseteq Callers
  BY DEF TypeOK, AccountTypes, AccountStep, SetPasswd, Import, Passwd, Mkdir, TruncateSalt,
         FillSalt, TruncateVerifier, FillVerifier, Replace, ReadSalt, ReadVerifier, Select, Done
<1>4. pc' \in [Callers -> {"idle"} \cup WriterPcs \cup ReaderPcs \cup BanPcs]
  BY DEF TypeOK, AccountStep, SetPasswd, Import, Passwd, Mkdir, TruncateSalt, FillSalt,
         TruncateVerifier, FillVerifier, Replace, ReadSalt, ReadVerifier, Select, Done, NextUser,
         Goto, WriterPcs, ReaderPcs
<1>5. CallTypes
  <2>1. ASSUME NEW us \in Lists, NEW u \in us, Import(g, us, u) \/ Passwd(g, us, u) PROVE CallTypes
    <3>1. {v.name : v \in us} \in SUBSET Names
      BY ListType, UserType
    <3>2. /\ user' \in [Callers -> Users \cup {NoUser}]
          /\ rest' \in [Callers -> SUBSET Users]
          /\ \A h \in Callers : pc'[h] \in WriterPcs \cup ReaderPcs => user'[h] \in Users
      BY <2>1, StartType DEF Import, Passwd
    <3>3. import' \in [Callers -> SUBSET Names]
      BY <2>1, <3>1 DEF Import, Passwd, TypeOK, AccountTypes
    <3> QED
      BY <3>2, <3>3
  <2>2. ASSUME NEW u \in Users, SetPasswd(g, u) PROVE CallTypes
    BY <2>2 DEF SetPasswd, Goto, TypeOK, AccountTypes
  <2>3. CASE FillVerifier(g) \/ Replace(g) \/ ReadVerifier(g) \/ Select(g)
    BY <2>3, NextUserType DEF FillVerifier, Replace, ReadVerifier, Select, Done,
       WriterPcs, ReaderPcs
  <2>4. CASE Mkdir(g) \/ TruncateSalt(g) \/ FillSalt(g) \/ TruncateVerifier(g) \/ ReadSalt(g)
    BY <2>4 DEF TypeOK, AccountTypes, Mkdir, TruncateSalt, FillSalt, TruncateVerifier, ReadSalt,
       Goto, WriterPcs, ReaderPcs
  <2> QED
    BY <2>1, <2>2, <2>3, <2>4 DEF AccountStep
<1>6. CASE Mkdir(g) \/ TruncateSalt(g) \/ FillSalt(g) \/ TruncateVerifier(g) \/ FillVerifier(g)
           \/ Replace(g)
  <2>1. user[g].name \in Names /\ user[g].passwd \in Passwords
    BY <1>6, WriterUser DEF Mkdir, TruncateSalt, FillSalt, TruncateVerifier, FillVerifier, Replace,
       WriterPcs
  <2>2. account \in [Names -> Entry]
    BY DEF TypeOK, AccountTypes
  <2>3. \A v \in Passwords \cup {None, Blank} :
          /\ [account EXCEPT ![user[g].name].exists = TRUE] \in [Names -> Entry]
          /\ [account EXCEPT ![user[g].name].salt = v] \in [Names -> Entry]
          /\ [account EXCEPT ![user[g].name].verifier = v] \in [Names -> Entry]
          /\ [account EXCEPT ![user[g].name] = [exists |-> TRUE, salt |-> v, verifier |-> v]]
               \in [Names -> Entry]
    BY <2>1, <2>2, PutType
  <2>4. account' \in [Names -> Entry]
    <3>1. CASE Mkdir(g)
      BY <2>3, <3>1 DEF Mkdir, Put
    <3>2. CASE TruncateSalt(g)
      BY <2>3, <3>2 DEF TruncateSalt, Put
    <3>3. CASE FillSalt(g)
      BY <2>1, <2>3, <3>3 DEF FillSalt, Put
    <3>4. CASE TruncateVerifier(g)
      BY <2>3, <3>4 DEF TruncateVerifier, Put
    <3>5. CASE FillVerifier(g)
      BY <2>1, <2>3, <3>5 DEF FillVerifier, Put
    <3>6. CASE Replace(g)
      BY <2>1, <2>3, <3>6 DEF Replace
    <3> QED
      BY <1>6, <3>1, <3>2, <3>3, <3>4, <3>5, <3>6
  <2>5. passwd' \in [Names -> Passwords \cup {None}]
    BY <1>6, <2>1 DEF TypeOK, AccountTypes, Mkdir, TruncateSalt, FillSalt, TruncateVerifier,
       FillVerifier, Replace, Done
  <2>6. UNCHANGED saltRead
    BY <1>6 DEF Mkdir, TruncateSalt, FillSalt, TruncateVerifier, FillVerifier, Replace, Done
  <2> QED
    BY <1>1, <1>2, <1>3, <1>4, <1>5, <2>4, <2>5, <2>6 DEF TypeOK, AccountTypes
<1>7. CASE ~(Mkdir(g) \/ TruncateSalt(g) \/ FillSalt(g) \/ TruncateVerifier(g)
             \/ FillVerifier(g) \/ Replace(g))
  <2>1. UNCHANGED <<account, passwd>>
    BY <1>7 DEF AccountStep, SetPasswd, Import, Passwd, ReadSalt, ReadVerifier, Select
  <2>2. saltRead' \in [Callers -> Passwords \cup {None, Blank}]
    <3>1. CASE ReadSalt(g)
      <4>1. account[user[g].name].salt \in Passwords \cup {None, Blank}
        BY <3>1, WriterUser DEF TypeOK, AccountTypes, ReadSalt, ReaderPcs, Entry
      <4> QED
        BY <3>1, <4>1 DEF TypeOK, AccountTypes, ReadSalt
    <3>2. CASE ~ReadSalt(g)
      BY <1>7, <3>2 DEF TypeOK, AccountTypes, AccountStep, SetPasswd, Import, Passwd,
         ReadVerifier, Select
    <3> QED
      BY <3>1, <3>2
  <2> QED
    BY <1>1, <1>2, <1>3, <1>4, <1>5, <2>1, <2>2 DEF TypeOK, AccountTypes
<1> QED
  BY <1>6, <1>7

\* The argument of a call, and what Unban leaves of the entries.
LEMMA ArgumentType ==
  /\ \A b \in Unbans : b \in Argued /\ ~b.add
  /\ \A a \in Addrs, n \in Names : [add |-> TRUE, addr |-> a, name |-> n] \in Argued
BY DEF Unbans, Argued

\* What a change of one address makes of the entries, and of an argument.
LEMMA EntryType ==
  /\ \A e \in Entries, a \in Addrs, v \in Names \cup {None, Blank} : [e EXCEPT ![a] = v] \in Entries
  /\ \A e \in Entries, a \in Addrs : e[a] \in Names \cup {None, Blank}
  /\ \A b \in Argued, a \in Addrs : 
       [b EXCEPT !.addr = a] \in Argued /\ [b EXCEPT !.addr = a].add = b.add
                                      /\ [b EXCEPT !.addr = a].name = b.name
                                      /\ [b EXCEPT !.addr = a].addr = a
BY DEF Entries, Argued

\* A step of the bans changes nothing of the accounts.
LEMMA BanLeavesAccounts ==
  ASSUME TypeOK, NEW g \in Callers, FileBanStep(g) \/ MTBanStep(g)
  PROVE  /\ UNCHANGED accountVars
         /\ UNCHANGED <<backend, admitted>>
         /\ pc' \in [Callers -> {"idle"} \cup WriterPcs \cup ReaderPcs \cup BanPcs]
         /\ \A h \in Callers : pc'[h] \in WriterPcs \cup ReaderPcs => pc'[h] = pc[h]
         /\ \A h \in Callers : pc[h] \in WriterPcs \cup ReaderPcs => pc'[h] = pc[h]
         /\ alone' \subseteq Callers
<1> USE DEF TypeOK, BanTypes, BanPcs, WriterPcs, ReaderPcs
<1>1. CASE FileBanStep(g)
  BY <1>1 DEF FileBanStep, BanFile, UnbanFile, FillBan, ListBans, Look, LookOn, LookFound,
       LookEnd, Remove, Moderate, BanDone, Overlap, Goto
<1>2. CASE MTBanStep(g)
  BY <1>2 DEF MTBanStep, EditBans, Truncate, WriteBans, WriteLine, WriteEnd, Moderate,
       BanDone, Overlap, Goto
<1> QED
  BY <1>1, <1>2

\* A step of the bans keeps the types.
LEMMA BanType ==
  ASSUME TypeOK, NEW g \in Callers, FileBanStep(g) \/ MTBanStep(g)
  PROVE  TypeOK'
<1>0. SUFFICES BanTypes'
  BY BanLeavesAccounts DEF TypeOK, AccountTypes, accountVars
<1>a. alone' \subseteq Callers
  BY BanLeavesAccounts
<1> USE <1>a DEF TypeOK, BanTypes
<1>1. ASSUME NEW a \in Addrs, NEW n \in Names, BanFile(g, a, n) PROVE BanTypes'
  BY <1>1, ArgumentType, EntryType DEF BanFile, Moderate, Argument, KeptBans, Goto, BanPcs
<1>2. ASSUME NEW b \in Unbans, UnbanFile(g, b) PROVE BanTypes'
  <2>1. b \in Argued /\ ~b.add /\ b.addr \in Addrs \cup {None}
    BY ArgumentType DEF Argued
  <2>2. QED
    <3>1. banned' \subseteq Addrs /\ mixed' = mixed /\ copy' = copy /\ bans' \in Entries
      <4>1. mixed' = mixed /\ copy' = copy /\ banned' = KeptBans(b)
        BY <1>2 DEF UnbanFile, Moderate
      <4>2. KeptBans(b) \subseteq Addrs
        BY DEF KeptBans
      <4>3. bans' = bans \/ (b.addr \in Addrs /\ bans' = [bans EXCEPT ![b.addr] = None])
        BY <1>2, <2>1 DEF UnbanFile
      <4>4. \A a \in Addrs : [bans EXCEPT ![a] = None] \in Entries
        BY EntryType
      <4> QED
        BY <4>1, <4>2, <4>3, <4>4
    <3>2. ban' = [ban EXCEPT ![g] = b] \/ (UNCHANGED <<pc, ban>>)
      BY <1>2 DEF UnbanFile, Argument
    <3>3. (UNCHANGED <<pc, ban>>) \/ pc' = [pc EXCEPT ![g] = "list"]
      BY <1>2 DEF UnbanFile, Goto
    <3> QED
      BY <2>1, <3>1, <3>2, <3>3
<1>3. CASE FillBan(g)
  <2>1. ban[g].addr \in Addrs /\ ban[g].name \in Names \cup {None}
    BY <1>3 DEF FillBan, Argued
  <2>2. NoBan.add = FALSE
    BY DEF NoBan
  <2>3. bans' \in Entries
    <3>1. [bans EXCEPT ![ban[g].addr] = ban[g].name] \in Entries
      BY <2>1, EntryType
    <3> QED
      BY <1>3, <3>1 DEF FillBan
  <2>4. banned' \subseteq Addrs
    BY <1>3, <2>1 DEF FillBan, Added
  <2> QED
    BY <1>3, <2>2, <2>3, <2>4, NobodyType DEF FillBan, BanDone, Goto
<1>4. CASE ListBans(g)
  BY <1>4 DEF ListBans, Goto, BanPcs
<1>5. CASE Look(g)
  <2>1. ASSUME NEW a \in Listed(g), LookOn(g, a) PROVE BanTypes'
    <3>1. [copy[g] EXCEPT ![a] = None] \in Entries
      BY EntryType DEF Listed
    <3> QED
      BY <2>1, <3>1 DEF LookOn
  <2>2. ASSUME NEW a \in Listed(g), LookFound(g, a) PROVE BanTypes'
    BY <2>2, EntryType DEF LookFound, Argument, Goto, Listed
  <2>3. CASE LookEnd(g)
    BY <2>3, NobodyType DEF LookEnd, BanDone, Goto, NoBan
  <2> QED
    BY <1>5, <2>1, <2>2, <2>3 DEF Look
<1>6. CASE Remove(g)
  BY <1>6, NobodyType, EntryType DEF Remove, BanDone, Goto, NoBan
<1>7. ASSUME NEW b \in Argued, b.add => b.addr \in Addrs /\ b.name \in Names, EditBans(g, b)
      PROVE BanTypes'
  <2>1. Edited(b) \in Entries
    BY <1>7 DEF Edited, Entries
  <2> QED
    BY <1>7, <2>1 DEF EditBans, Moderate, Argument, KeptBans, Goto
<1>8. CASE Truncate(g)
  BY <1>8, NobodyType DEF Truncate, Goto
<1>9. CASE WriteBans(g)
  <2>1. ASSUME NEW a \in Listed(g), WriteLine(g, a) PROVE BanTypes'
    <3>1. [copy[g] EXCEPT ![a] = None] \in Entries
      BY EntryType DEF Listed
    <3>2. bans' \in Entries
      BY <2>1 DEF WriteLine, Entries
    <3> QED
      BY <2>1, <3>1, <3>2 DEF WriteLine
  <2>2. CASE WriteEnd(g)
    BY <2>2, NobodyType DEF WriteEnd, Added, BanDone, Goto, NoBan
  <2> QED
    BY <1>9, <2>1, <2>2 DEF WriteBans
<1> HIDE DEF BanTypes
<1>10. CASE FileBanStep(g)
  BY <1>10, <1>1, <1>2, <1>3, <1>4, <1>5, <1>6 DEF FileBanStep
<1>11. ASSUME NEW a \in Addrs, NEW n \in Names, EditBans(g, [add |-> TRUE, addr |-> a, name |-> n])
       PROVE BanTypes'
  BY <1>11, <1>7, ArgumentType
<1>12. ASSUME NEW b \in Unbans, EditBans(g, b) PROVE BanTypes'
  BY <1>12, <1>7, ArgumentType
<1> QED
  BY <1>10, <1>11, <1>12, <1>8, <1>9 DEF MTBanStep

\* Every step keeps the types.
LEMMA TypeStep ==
  ASSUME TypeOK, [Next]_vars
  PROVE  TypeOK'
<1> USE NobodyType DEF TypeOK, AccountTypes, BanTypes
<1>0. NoBan.add = FALSE
  BY DEF NoBan
<1>1. ASSUME NEW g \in Callers, Fail(g) PROVE TypeOK'
  BY <1>0, <1>1 DEF Fail, Survives, Goto, WriterPcs, ReaderPcs
<1>2. CASE Crash
  BY <1>0, <1>2 DEF Crash, Survives, WriterPcs, ReaderPcs
<1>3. ASSUME NEW a \in Addrs, Banned(a) PROVE TypeOK'
  BY <1>3 DEF Banned, accountVars, banVars
<1>4. CASE UNCHANGED vars
  BY <1>4 DEF vars, accountVars, banVars
<1> QED
  BY <1>1, <1>2, <1>3, <1>4, AccountType, BanType DEF Next, Step

-----------------------------------------------------------------------------
(* Accounts *)

\* A step that writes no account, nor goes on with one.
LEMMA AccountFrame ==
  ASSUME AccountInv, UNCHANGED <<backend, account, passwd>>,
         \A h \in Callers : Files(h)' => pc'[h] = pc[h] /\ user'[h] = user[h],
         crossed' \subseteq Callers,
         \A h \in Callers : h \in crossed' <=> h \in crossed /\ pc'[h] \in HalfPcs
  PROVE  AccountInv'
<1>0. \A h \in Callers : pc'[h] \in HalfPcs => Files(h)'
  BY DEF Files, HalfPcs, WriterPcs
<1>1. FilesOnly'
  BY DEF AccountInv, FilesOnly, Files
<1>2. Uncertain'
  BY <1>0 DEF AccountInv, Uncertain
<1>3. Crossing'
  BY <1>0 DEF AccountInv, Crossing, Half
<1>4. Written'
  BY <1>0 DEF AccountInv, Written, Files, HalfPcs
<1>5. PasswordsIntact'
  BY DEF AccountInv, PasswordsIntact
<1> QED
  BY <1>1, <1>2, <1>3, <1>4, <1>5 DEF AccountInv

\* A step within the files of a user, whose password is uncertain afterwards, is
\* of no account to the others; crossed may grow.
LEMMA WriteInv ==
  ASSUME TypeOK, AccountInv, NEW g \in Callers, NEW l \in HalfPcs, Files(g), NEW n,
         n = user[g].name, pc' = [pc EXCEPT ![g] = l], UNCHANGED <<backend, user>>,
         \A m \in Names : m # n => account'[m] = account[m] /\ passwd'[m] = passwd[m],
         account'[n].exists = account[n].exists, passwd'[n] = None,
         crossed' \subseteq Callers, crossed \subseteq crossed',
         \A h \in crossed' : pc'[h] \in HalfPcs,
         \A h \in Callers : h # g /\ Half(h, n) => h \in crossed' /\ g \in crossed',
         l \in {"verifier", "verifierFill"} /\ g \notin crossed' =>
           account'[n].salt = user[g].passwd
  PROVE  AccountInv'
<1>0. n \in Names
  BY WriterUser DEF Files
<1>1. \A h \in Callers : h # g => pc'[h] = pc[h]
  OBVIOUS
<1>2. pc'[g] = l /\ Files(g)'
  BY DEF TypeOK, Files, HalfPcs, WriterPcs
<1>3. FilesOnly'
  BY <1>1, <1>2 DEF AccountInv, FilesOnly, Files
<1>4. Uncertain'
  <2> SUFFICES ASSUME NEW h \in Callers, pc'[h] \in HalfPcs PROVE passwd'[user[h].name] = None
    BY DEF Uncertain
  <2>1. user[h].name \in Names
    <3>1. CASE h = g
      BY <1>0, <3>1
    <3>2. CASE h # g
      BY <1>1, <3>2, WriterUser DEF HalfPcs, WriterPcs
    <3> QED
      BY <3>1, <3>2
  <2>2. CASE user[h].name = n
    BY <2>2
  <2>3. CASE user[h].name # n
    BY <1>1, <2>1, <2>3 DEF AccountInv, Uncertain
  <2> QED
    BY <2>2, <2>3
<1>5. Crossing'
  <2>1. ASSUME NEW h \in Callers, NEW k \in Callers, h # k, pc'[h] \in HalfPcs,
               pc'[k] \in HalfPcs, user[k].name = user[h].name
        PROVE  h \in crossed'
    <3>1. CASE h = g \/ k = g
      BY <1>1, <2>1, <3>1 DEF Half
    <3>2. CASE h # g /\ k # g
      BY <1>1, <2>1, <3>2 DEF AccountInv, Crossing, Half
    <3> QED
      BY <3>1, <3>2
  <2> QED
    BY <2>1 DEF Crossing, Half
<1>6. Written'
  <2> SUFFICES ASSUME NEW h \in Callers, Files(h)'
               PROVE  /\ account'[user[h].name].exists
                      /\ pc'[h] \in {"verifier", "verifierFill"} /\ h \notin crossed' =>
                           account'[user[h].name].salt = user[h].passwd
    BY DEF Written, Files, WriterPcs
  <2>1. CASE h = g
    BY <1>2, <2>1 DEF AccountInv, Written
  <2>2. CASE h # g
    <3>1. Files(h) /\ pc'[h] = pc[h]
      BY <1>1, <2>2 DEF Files
    <3>2. user[h].name \in Names
      BY <3>1, WriterUser DEF Files
    <3>3. CASE user[h].name = n
      BY <2>2, <3>1, <3>3 DEF AccountInv, Written, Half, HalfPcs
    <3>4. CASE user[h].name # n
      BY <3>1, <3>2, <3>4 DEF AccountInv, Written
    <3> QED
      BY <3>3, <3>4
  <2> QED
    BY <2>1, <2>2
<1>7. PasswordsIntact'
  BY DEF AccountInv, PasswordsIntact
<1> QED
  BY <1>3, <1>4, <1>5, <1>6, <1>7 DEF AccountInv

\* What one field of the account of a user becomes, and the others stay.
LEMMA PutFacts ==
  ASSUME account \in [Names -> Entry], NEW n \in Names, NEW v
  PROVE  /\ Put(n, "exists", v) => account' = [account EXCEPT ![n] =
              [exists |-> v, salt |-> account[n].salt, verifier |-> account[n].verifier]]
         /\ Put(n, "salt", v) => account' = [account EXCEPT ![n] =
              [exists |-> account[n].exists, salt |-> v, verifier |-> account[n].verifier]]
         /\ Put(n, "verifier", v) => account' = [account EXCEPT ![n] =
              [exists |-> account[n].exists, salt |-> account[n].salt, verifier |-> v]]
<1>1. account[n] \in Entry
  OBVIOUS
<1>2. /\ [account[n] EXCEPT !.exists = v] =
           [exists |-> v, salt |-> account[n].salt, verifier |-> account[n].verifier]
      /\ [account[n] EXCEPT !.salt = v] =
           [exists |-> account[n].exists, salt |-> v, verifier |-> account[n].verifier]
      /\ [account[n] EXCEPT !.verifier = v] =
           [exists |-> account[n].exists, salt |-> account[n].salt, verifier |-> v]
  BY <1>1 DEF Entry
<1> QED
  BY <1>2 DEF Put

\* The directory of the user is made.
LEMMA MkdirInv ==
  ASSUME TypeOK, AccountInv, NEW g \in Callers, Mkdir(g)
  PROVE  AccountInv'
<1> DEFINE n == user[g].name
<1>1. n \in Names
  BY WriterUser DEF Mkdir, WriterPcs
<1>2. account' = [account EXCEPT ![n] =
        [exists |-> TRUE, salt |-> account[n].salt, verifier |-> account[n].verifier]]
  BY <1>1, PutFacts DEF Mkdir, TypeOK, AccountTypes
<1>3. /\ pc' = [pc EXCEPT ![g] = "salt"]
      /\ UNCHANGED <<backend, user, crossed, passwd>>
      /\ backend = "files" /\ pc[g] = "mkdir"
  BY DEF Mkdir, Goto
<1>4. \A m \in Names : m # n => account'[m] = account[m]
  BY <1>2
<1>5. account'[n].exists /\ account'[n].salt = account[n].salt
  BY <1>1, <1>2 DEF TypeOK, AccountTypes
<1> HIDE DEF n
<1>6. \A h \in Callers : pc'[h] # pc[h] => h = g /\ pc'[h] = "salt" /\ pc[h] = "mkdir"
  BY <1>3 DEF TypeOK
<1>7. FilesOnly' /\ Uncertain' /\ Crossing'
  BY <1>3, <1>6 DEF AccountInv, FilesOnly, Uncertain, Crossing, Half, Files, HalfPcs
<1>8. Written'
  <2> SUFFICES ASSUME NEW h \in Callers, Files(h)'
               PROVE  /\ account'[user[h].name].exists
                      /\ pc'[h] \in {"verifier", "verifierFill"} /\ h \notin crossed =>
                           account'[user[h].name].salt = user[h].passwd
    BY <1>3 DEF Written, Files, WriterPcs
  <2>1. CASE h = g
    BY <1>3, <1>5, <2>1 DEF n, TypeOK
  <2>2. CASE h # g
    <3>1. Files(h) /\ pc'[h] = pc[h]
      BY <1>6, <2>2 DEF Files
    <3>2. user[h].name \in Names
      BY <3>1, WriterUser DEF Files
    <3> QED
      BY <1>4, <1>5, <3>1, <3>2 DEF AccountInv, Written
  <2> QED
    BY <2>1, <2>2
<1>9. PasswordsIntact'
  <2> SUFFICES ASSUME NEW m \in Names, passwd[m] # None
               PROVE  account'[m] = [exists |-> TRUE, salt |-> passwd[m], verifier |-> passwd[m]]
    BY <1>3 DEF PasswordsIntact
  <2>1. account[m] = [exists |-> TRUE, salt |-> passwd[m], verifier |-> passwd[m]]
    BY DEF AccountInv, PasswordsIntact
  <2>2. CASE m = n
    <3>1. account[n].salt = passwd[n] /\ account[n].verifier = passwd[n]
      BY <2>1, <2>2
    <3> QED
      BY <1>1, <1>2, <2>2, <3>1 DEF TypeOK, AccountTypes
  <2>3. CASE m # n
    BY <1>4, <2>1, <2>3
  <2> QED
    BY <2>2, <2>3
<1> QED
  BY <1>7, <1>8, <1>9 DEF AccountInv

\* The files of a user are written one after the other.
LEMMA FileInv ==
  ASSUME TypeOK, AccountInv, NEW g \in Callers,
         TruncateSalt(g) \/ FillSalt(g) \/ TruncateVerifier(g)
  PROVE  AccountInv'
<1> DEFINE n == user[g].name
<1>1. n \in Names
  BY WriterUser DEF TruncateSalt, FillSalt, TruncateVerifier, WriterPcs
<1>2. account \in [Names -> Entry] /\ passwd \in [Names -> Passwords \cup {None}]
      /\ crossed \subseteq Callers /\ UNCHANGED <<backend, user>> /\ Files(g)
  BY DEF TypeOK, AccountTypes, TruncateSalt, FillSalt, TruncateVerifier, Files, WriterPcs
<1>3. CASE TruncateSalt(g)
  <2>1. account' = [account EXCEPT ![n] =
          [exists |-> account[n].exists, salt |-> Blank, verifier |-> account[n].verifier]]
    BY <1>1, <1>2, <1>3, PutFacts DEF TruncateSalt
  <2>2. pc' = [pc EXCEPT ![g] = "saltFill"] /\ passwd' = [passwd EXCEPT ![n] = None]
    BY <1>3 DEF TruncateSalt, Goto
  <2>3. /\ crossed \subseteq crossed' /\ crossed' \subseteq Callers
        /\ \A h \in crossed' : h \in crossed \/ h = g \/ pc[h] \in HalfPcs
        /\ \A h \in Callers : Half(h, n) => h \in crossed' /\ g \in crossed'
    BY <1>2, <1>3 DEF TruncateSalt, Half
  <2>4. \A h \in crossed' : pc'[h] \in HalfPcs
    BY <1>2, <2>2, <2>3 DEF AccountInv, Crossing, TypeOK, HalfPcs
  <2> HIDE DEF n
  <2>5. /\ \A m \in Names : m # n => account'[m] = account[m] /\ passwd'[m] = passwd[m]
        /\ account'[n].exists = account[n].exists /\ passwd'[n] = None
    BY <1>1, <1>2, <2>1, <2>2
  <2>6. n = user[g].name /\ "saltFill" \in HalfPcs
    BY DEF n, HalfPcs
  <2> QED
    BY <1>2, <2>2, <2>3, <2>4, <2>5, <2>6, WriteInv
<1>4. CASE FillSalt(g) \/ TruncateVerifier(g)
  <2> DEFINE l == IF pc[g] = "saltFill" THEN "verifier" ELSE "verifierFill"
  <2>1. /\ pc' = [pc EXCEPT ![g] = l] /\ UNCHANGED <<passwd, crossed>>
        /\ pc[g] \in {"saltFill", "verifier"}
    BY <1>4 DEF FillSalt, TruncateVerifier, Goto
  <2>2. l \in HalfPcs /\ pc[g] \in HalfPcs
    BY <2>1 DEF HalfPcs
  <2>3. /\ \A m \in Names : m # n => account'[m] = account[m]
        /\ account'[n].exists = account[n].exists
        /\ pc[g] = "saltFill" => account'[n].salt = user[g].passwd
        /\ pc[g] # "saltFill" => account'[n].salt = account[n].salt
    <3>1. CASE FillSalt(g)
      <4>1. account' = [account EXCEPT ![n] = [exists |-> account[n].exists,
              salt |-> user[g].passwd, verifier |-> account[n].verifier]]
        BY <1>1, <1>2, <3>1, PutFacts DEF FillSalt
      <4> QED
        BY <1>1, <1>2, <3>1, <4>1 DEF FillSalt
    <3>2. CASE TruncateVerifier(g)
      <4>1. account' = [account EXCEPT ![n] =
              [exists |-> account[n].exists, salt |-> account[n].salt, verifier |-> Blank]]
        BY <1>1, <1>2, <3>2, PutFacts DEF TruncateVerifier
      <4> QED
        BY <1>1, <1>2, <3>2, <4>1 DEF TruncateVerifier
    <3> QED
      BY <1>4, <3>1, <3>2
  <2>4. passwd[n] = None
    BY <2>2 DEF AccountInv, Uncertain
  <2>5. \A h \in Callers : h # g /\ Half(h, n) => h \in crossed /\ g \in crossed
    BY <2>2 DEF AccountInv, Crossing, Half
  <2>6. g \notin crossed => account'[n].salt = user[g].passwd
    BY <2>1, <2>3 DEF AccountInv, Written
  <2>7. \A h \in crossed : pc'[h] \in HalfPcs
    BY <1>2, <2>1, <2>2 DEF AccountInv, Crossing, TypeOK
  <2>8. n = user[g].name
    OBVIOUS
  <2> HIDE DEF n, l
  <2> QED
    BY <1>2, <2>1, <2>2, <2>3, <2>4, <2>5, <2>6, <2>7, <2>8, WriteInv
<1> QED
  BY <1>3, <1>4

\* The account of a user is complete: nobody else writes its files, or nothing is promised.
LEMMA DoneInv ==
  ASSUME TypeOK, AccountInv, NEW g \in Callers, pc[g] \in WriterPcs, Done(g),
         NEW n, n = user[g].name,
         \A m \in Names : m # n => account'[m] = account[m],
         account'[n].exists,
         g \notin crossed => account'[n] =
           [exists |-> TRUE, salt |-> user[g].passwd, verifier |-> user[g].passwd],
         g \in crossed => pc[g] \in HalfPcs,
         \A h \in Callers : h # g /\ Files(h) =>
           pc[g] \in HalfPcs /\ account'[n].salt = account[n].salt
  PROVE  AccountInv'
<1>1. n \in Names /\ user[g].passwd \in Passwords
  BY WriterUser
<1>2. /\ crossed' = crossed \ {g} /\ backend' = backend
      /\ passwd' = IF g \in crossed THEN passwd ELSE [passwd EXCEPT ![n] = user[g].passwd]
  BY DEF Done
<1>3. ~Files(g)' /\ \A h \in Callers : h # g => pc'[h] = pc[h] /\ user'[h] = user[h]
  BY DEF Done, NextUser, Goto, Files, WriterPcs, TypeOK, AccountTypes
<1>4. \A h \in Callers : Files(h)' => h # g /\ Files(h)
  BY <1>3 DEF Files
<1>5. \A h \in Callers : pc'[h] \in HalfPcs => Files(h)'
  BY DEF Files, HalfPcs, WriterPcs
<1>6. FilesOnly'
  BY <1>2, <1>4 DEF AccountInv, FilesOnly
<1>7. Crossing'
  <2>1. \A h \in crossed' : h \in Callers /\ h # g
    BY <1>2 DEF TypeOK, AccountTypes
  <2> QED
    BY <1>2, <1>3, <1>4, <1>5, <2>1 DEF AccountInv, Crossing, Half
<1>8. Uncertain'
  <2> SUFFICES ASSUME NEW h \in Callers, pc'[h] \in HalfPcs PROVE passwd'[user'[h].name] = None
    BY DEF Uncertain
  <2>1. h # g /\ Files(h) /\ pc[h] \in HalfPcs /\ user'[h] = user[h]
    BY <1>3, <1>4, <1>5
  <2>2. passwd[user[h].name] = None /\ user[h].name \in Names
    BY <2>1, WriterUser DEF AccountInv, Uncertain, Files
  <2>3. user[h].name = n => g \in crossed
    BY <2>1 DEF AccountInv, Crossing, Half
  <2> QED
    BY <1>1, <1>2, <2>1, <2>2, <2>3 DEF TypeOK, AccountTypes
<1>9. Written'
  <2> SUFFICES ASSUME NEW h \in Callers, Files(h)'
               PROVE  /\ account'[user'[h].name].exists
                      /\ pc'[h] \in {"verifier", "verifierFill"} /\ h \notin crossed' =>
                           account'[user'[h].name].salt = user'[h].passwd
    BY DEF Written, Files, WriterPcs
  <2>1. h # g /\ Files(h) /\ pc'[h] = pc[h] /\ user'[h] = user[h]
    BY <1>3, <1>4
  <2>2. user[h].name \in Names
    BY <2>1, WriterUser DEF Files
  <2>3. h \notin crossed' => h \notin crossed
    BY <1>2, <2>1
  <2> QED
    BY <2>1, <2>2, <2>3 DEF AccountInv, Written
<1>10. PasswordsIntact'
  <2> SUFFICES ASSUME NEW m \in Names, passwd'[m] # None
               PROVE  account'[m] = [exists |-> TRUE, salt |-> passwd'[m], verifier |-> passwd'[m]]
    BY DEF PasswordsIntact
  <2>1. CASE m = n
    <3>1. g \notin crossed
      BY <1>2, <2>1 DEF AccountInv, Uncertain
    <3> QED
      BY <1>1, <1>2, <2>1, <3>1 DEF TypeOK, AccountTypes
  <2>2. CASE m # n
    BY <1>2, <2>2 DEF AccountInv, PasswordsIntact, TypeOK, AccountTypes
  <2> QED
    BY <2>1, <2>2
<1> QED
  BY <1>6, <1>7, <1>8, <1>9, <1>10 DEF AccountInv

\* Every step of the accounts keeps their invariant.
LEMMA AccountStepInv ==
  ASSUME TypeOK, AccountInv, NEW g \in Callers, AccountStep(g)
  PROVE  AccountInv'
<1> DEFINE n == user[g].name
<1>1. CASE FillVerifier(g)
  <2>1. n \in Names /\ pc[g] \in WriterPcs /\ pc[g] \in HalfPcs /\ Done(g)
    BY <1>1, WriterUser DEF FillVerifier, WriterPcs, HalfPcs
  <2>2. account' = [account EXCEPT ![n] =
          [exists |-> account[n].exists, salt |-> account[n].salt, verifier |-> user[g].passwd]]
    BY <1>1, <2>1, PutFacts DEF FillVerifier, TypeOK, AccountTypes
  <2>3. account[n].exists /\ (g \notin crossed => account[n].salt = user[g].passwd)
    BY <1>1 DEF AccountInv, Written, FillVerifier, Files, WriterPcs
  <2>4. account[n] \in Entry
    BY <2>1 DEF TypeOK, AccountTypes
  <2>5. account[n].exists = TRUE
    BY <2>3, <2>4 DEF Entry
  <2>6. account'[n] = [exists |-> TRUE, salt |-> account[n].salt, verifier |-> user[g].passwd]
        /\ \A m \in Names : m # n => account'[m] = account[m]
    BY <2>1, <2>2, <2>5 DEF TypeOK, AccountTypes
  <2>7. account'[n].exists /\ account'[n].salt = account[n].salt
    BY <2>6
  <2>8. g \notin crossed => account'[n] =
          [exists |-> TRUE, salt |-> user[g].passwd, verifier |-> user[g].passwd]
    BY <2>3, <2>6
  <2>9. n = user[g].name
    OBVIOUS
  <2> HIDE DEF n
  <2> QED
    BY <2>1, <2>6, <2>7, <2>8, <2>9, DoneInv
<1>2. CASE Replace(g)
  <2>1. n \in Names /\ pc[g] = "mkdir" /\ backend = "mt" /\ Done(g) /\ pc[g] \in WriterPcs
    BY <1>2, WriterUser DEF Replace, WriterPcs
  <2>2. \A h \in Callers : ~Files(h)
    BY <2>1 DEF AccountInv, FilesOnly
  <2>3. g \notin crossed
    BY <2>1 DEF AccountInv, Crossing, HalfPcs
  <2>4. account'[n] = [exists |-> TRUE, salt |-> user[g].passwd, verifier |-> user[g].passwd]
        /\ \A m \in Names : m # n => account'[m] = account[m]
    BY <1>2, <2>1 DEF Replace, TypeOK, AccountTypes
  <2>5. n = user[g].name
    OBVIOUS
  <2> HIDE DEF n
  <2> QED
    BY <2>1, <2>2, <2>3, <2>4, <2>5, DoneInv
<1>3. CASE \/ \E u \in Users : SetPasswd(g, u)
           \/ \E us \in Lists : \E u \in us : Import(g, us, u) \/ Passwd(g, us, u)
           \/ ReadSalt(g) \/ ReadVerifier(g) \/ Select(g)
  <2>1. /\ UNCHANGED <<backend, account, passwd, crossed>>
        /\ pc[g] \in {"idle", "readSalt", "readVerifier"}
        /\ pc'[g] \in {"idle", "mkdir", "readSalt", "readVerifier"}
        /\ \A h \in Callers : h # g => pc'[h] = pc[h] /\ user'[h] = user[h]
    BY <1>3 DEF TypeOK, AccountTypes, SetPasswd, Import, Passwd, ReadSalt, ReadVerifier, Select,
       NextUser, Goto
  <2>2. \A h \in Callers : Files(h)' => pc'[h] = pc[h] /\ user'[h] = user[h]
    BY <2>1 DEF Files, WriterPcs
  <2>3. \A h \in Callers : h \in crossed' <=> h \in crossed /\ pc'[h] \in HalfPcs
    BY <2>1 DEF AccountInv, Crossing, HalfPcs
  <2>4. crossed' \subseteq Callers
    BY <2>1 DEF TypeOK, AccountTypes
  <2> QED
    BY <2>1, <2>2, <2>3, <2>4, AccountFrame
<1> QED
  BY <1>1, <1>2, <1>3, MkdirInv, FileInv DEF AccountStep

-----------------------------------------------------------------------------
(* Bans *)

\* A step that leaves the calls about bans alone.
LEMMA BanFrame ==
  ASSUME BanInv, UNCHANGED <<backend, banVars>>,
         \A h \in Callers : Moderates(h) \/ Moderates(h)' => pc'[h] = pc[h],
         alone \subseteq Callers, mixed \subseteq Callers
  PROVE  BanInv'
<1> USE DEF BanPcs
<1>1. \A h \in Callers : Moderates(h)' = Moderates(h) /\ Adds(h)' = Adds(h) /\ Lifts(h)' = Lifts(h)
                         /\ Keeps(h)' = Keeps(h)
  BY DEF Moderates, Adds, Lifts, Keeps, banVars
<1>2. \A h \in Callers : pc'[h] \in BanPcs \/ pc[h] \in BanPcs => pc'[h] = pc[h]
  BY DEF Moderates
<1>3. BanControl'
  BY <1>1, <1>2 DEF BanInv, BanControl
<1>4. FilesInv'
  BY <1>1, <1>2 DEF BanInv, FilesInv, Moderates, Lifts, banVars
<1>5. MTInv'
  BY <1>1, <1>2 DEF BanInv, MTInv, Moderates, banVars
<1>6. BansHold'
  BY <1>2 DEF BanInv, BansHold, banVars
<1> QED
  BY <1>3, <1>4, <1>5, <1>6 DEF BanInv

\* A call about accounts is not one about bans.
LEMMA AccountLeavesBans ==
  ASSUME TypeOK, BanInv, NEW g \in Callers, AccountStep(g)
  PROVE  BanInv'
<1>1. UNCHANGED <<backend, banVars>>
  BY DEF AccountStep, SetPasswd, Import, Passwd, Mkdir, TruncateSalt, FillSalt,
         TruncateVerifier, FillVerifier, Replace, ReadSalt, ReadVerifier, Select, Done
<1>2. ~Moderates(g)
  BY DEF AccountStep, SetPasswd, Import, Passwd, Mkdir, TruncateSalt, FillSalt,
         TruncateVerifier, FillVerifier, Replace, ReadSalt, ReadVerifier, Select, Moderates, BanPcs
<1>3. ~Moderates(g)'
  BY DEF TypeOK, AccountStep, SetPasswd, Import, Passwd, Mkdir, TruncateSalt, FillSalt,
         TruncateVerifier, FillVerifier, Replace, ReadSalt, ReadVerifier, Select, Done, NextUser,
         Goto, Moderates, BanPcs
<1>4. \A h \in Callers : h # g => pc'[h] = pc[h]
  BY DEF TypeOK, AccountStep, SetPasswd, Import, Passwd, Mkdir, TruncateSalt, FillSalt,
         TruncateVerifier, FillVerifier, Replace, ReadSalt, ReadVerifier, Select, Done, NextUser,
         Goto
<1> QED
  BY <1>1, <1>2, <1>3, <1>4, BanFrame DEF TypeOK, BanTypes

\* The calls that a new one conflicts with are no longer alone, nor is the new one.
LEMMA ModerateFacts ==
  ASSUME TypeOK, BanInv, NEW g \in Callers, NEW b \in Argued, Moderate(g, b)
  PROVE  /\ ~Moderates(g)
         /\ alone' \subseteq (alone \cup {g}) \ Conflicting(b)
         /\ Conflicting(b) # {} => g \notin alone'
         /\ Conflicting(b) = {} => g \in alone' /\ alone \subseteq alone'
         /\ banned' = KeptBans(b)
         /\ banned' \subseteq banned
         /\ UNCHANGED <<backend, mixed>>
<1>1. ~Moderates(g)
  BY DEF Moderate, Moderates, BanPcs
<1>2. g \notin Conflicting(b)
  BY <1>1 DEF Conflicting
<1> QED
  BY <1>1, <1>2 DEF Moderate, Overlap, KeptBans

\* files: Ban begins.
LEMMA BanFileInv ==
  ASSUME TypeOK, BanInv, NEW g \in Callers, NEW a \in Addrs, NEW n \in Names, BanFile(g, a, n)
  PROVE  BanInv'
<1> USE DEF TypeOK, BanTypes, Entries
<1> DEFINE b == [add |-> TRUE, addr |-> a, name |-> n]
<1>1. Moderate(g, b) /\ b \in Argued /\ b.add /\ b.addr = a
  BY ArgumentType DEF BanFile
<1> HIDE DEF b
<1>2. ban' = [ban EXCEPT ![g] = b] /\ pc' = [pc EXCEPT ![g] = "banFill"]
      /\ bans' = [bans EXCEPT ![a] = Blank] /\ backend = "files" /\ UNCHANGED copy
  BY DEF BanFile, Goto, Argument, b
<1>3. /\ ~Moderates(g)
      /\ alone' \subseteq (alone \cup {g}) \ Conflicting(b)
      /\ Conflicting(b) # {} => g \notin alone'
      /\ banned' = KeptBans(b)
      /\ banned' \subseteq banned
      /\ UNCHANGED <<backend, mixed>>
  BY <1>1, ModerateFacts
<1>4. Adds(g)' /\ \A h \in Callers : h # g => 
        /\ Moderates(h)' = Moderates(h) /\ Adds(h)' = Adds(h) /\ Lifts(h)' = Lifts(h)
        /\ pc'[h] = pc[h] /\ ban'[h] = ban[h]
  BY <1>1, <1>2 DEF Adds, Lifts, Moderates, BanPcs
<1>5. \A h \in Callers : Lifts(h)' => h # g /\ Lifts(h) /\ h \in Conflicting(b)
  BY <1>4, <1>2 DEF Adds, Lifts, Conflicting
<1>6. (Conflicting(b) # {} => a \notin banned') /\ Blank # None /\ Blank \notin Names
  BY <1>1, <1>2, <1>3, AuthAssumption DEF KeptBans
<1>7. BanControl'
  BY <1>2, <1>3, <1>4 DEF BanInv, BanControl
<1>8. FilesInv'
  <2>1. \A h, k \in Callers : (Lifts(h) /\ Moderates(k) /\ h # k)' =>
         h \notin alone' /\ k \notin alone'
    <3> SUFFICES ASSUME NEW h \in Callers, NEW k \in Callers, Lifts(h)', Moderates(k)', h # k
                 PROVE  h \notin alone' /\ k \notin alone'
      OBVIOUS
    <3>1. CASE k = g
      BY <3>1, <1>3, <1>5
    <3>2. CASE k # g
      BY <3>2, <1>2, <1>3, <1>4, <1>5 DEF BanInv, FilesInv
    <3> QED
      BY <3>1, <3>2
  <2>2. \A h, k \in Callers : (Lifts(h) /\ Adds(k))' => ban'[k].addr \notin banned'
    <3> SUFFICES ASSUME NEW h \in Callers, NEW k \in Callers, Lifts(h)', Adds(k)'
                 PROVE  ban'[k].addr \notin banned'
      OBVIOUS
    <3>1. CASE k = g
      BY <3>1, <1>1, <1>2, <1>5, <1>6
    <3>2. CASE k # g
      BY <3>2, <1>2, <1>3, <1>4, <1>5 DEF BanInv, FilesInv
    <3> QED
      BY <3>1, <3>2
  <2>3. \A h \in Callers : Lifts(h)' => 
         \A c \in Addrs : bans'[c] = ban'[h].name /\ bans'[c] # None => c \notin banned'
    <3> SUFFICES ASSUME NEW h \in Callers, Lifts(h)', NEW c \in Addrs,
                        bans'[c] = ban'[h].name, bans'[c] # None
                 PROVE  c \notin banned'
      OBVIOUS
    <3>1. ban'[h] = ban[h] /\ ban[h].name \in Names \cup {None}
      BY <1>4, <1>5 DEF Argued
    <3>2. c # a
      BY <3>1, <1>2, <1>6
    <3> QED
      BY <3>1, <3>2, <1>2, <1>3, <1>5 DEF BanInv, FilesInv
  <2>4. \A h \in Callers : pc'[h] = "remove" => ban'[h].addr \notin banned'
    BY <1>2, <1>3 DEF BanInv, FilesInv
  <2>5. \A h \in alone' : pc'[h] = "banFill" => bans'[ban'[h].addr] # None
    BY <1>1, <1>2, <1>3, <1>6 DEF BanInv, FilesInv
  <2> QED
    BY <2>1, <2>2, <2>3, <2>4, <2>5 DEF FilesInv
<1>9. MTInv'
  BY <1>2, <1>3 DEF MTInv
<1>10. BansHold'
  BY <1>2, <1>3, <1>6 DEF BanInv, BanControl, BansHold
<1> QED
  BY <1>7, <1>8, <1>9, <1>10 DEF BanInv

\* files: Unban begins.
LEMMA UnbanFileInv ==
  ASSUME TypeOK, BanInv, NEW g \in Callers, NEW b \in Unbans, UnbanFile(g, b)
  PROVE  BanInv'
<1> USE DEF TypeOK, BanTypes, Entries
<1>1. Moderate(g, b) /\ b \in Argued /\ ~b.add
  BY ArgumentType DEF UnbanFile
<1>2. backend = "files" /\ UNCHANGED copy
  BY DEF UnbanFile
<1>3. /\ ~Moderates(g)
      /\ alone' \subseteq (alone \cup {g}) \ Conflicting(b)
      /\ Conflicting(b) # {} => g \notin alone'
      /\ banned' = KeptBans(b)
      /\ banned' \subseteq banned
      /\ UNCHANGED <<backend, mixed>>
  BY <1>1, ModerateFacts
<1>4. Conflicting(b) = {h \in Callers : Moderates(h)}
  BY <1>1 DEF Conflicting
<1>5. /\ \A h \in Conflicting(b) : ban[h].addr \notin banned'
      /\ \A c \in Addrs : c = b.addr \/ (b.name # None /\ bans[c] = b.name) => c \notin banned'
  BY <1>1, <1>2, <1>3 DEF KeptBans, Matches
<1>6. CASE b.addr \in Addrs /\ bans' = [bans EXCEPT ![b.addr] = None] /\ UNCHANGED <<pc, ban>>
  <2>1. \A h \in Callers : Moderates(h)' = Moderates(h) /\ Adds(h)' = Adds(h) /\ Lifts(h)' = Lifts(h)
    BY <1>6 DEF Adds, Lifts, Moderates
  <2>2. BanControl' /\ MTInv'
    BY <1>2, <1>3, <1>6, <2>1 DEF BanInv, BanControl, MTInv
  <2>3. FilesInv'
    <3>1. \A h \in Callers : Moderates(h) => h \notin alone'
      BY <1>3, <1>4
    <3>2. \A h \in Callers : pc[h] = "banFill" => Moderates(h)
      BY DEF Moderates, BanPcs
    <3> QED
      BY <1>3, <1>6, <2>1, <3>1, <3>2 DEF BanInv, FilesInv, Lifts
  <2>4. BansHold'
    BY <1>2, <1>3, <1>5, <1>6 DEF BanInv, BanControl, BansHold
  <2> QED
    BY <2>2, <2>3, <2>4 DEF BanInv
<1>7. CASE bans' = bans /\ ban' = [ban EXCEPT ![g] = b] /\ pc' = [pc EXCEPT ![g] = "list"]
  <2>1. Lifts(g)' /\ ~Adds(g)' /\ \A h \in Callers : h # g => 
          /\ Moderates(h)' = Moderates(h) /\ Adds(h)' = Adds(h) /\ Lifts(h)' = Lifts(h)
          /\ pc'[h] = pc[h] /\ ban'[h] = ban[h]
    BY <1>1, <1>7 DEF Adds, Lifts, Moderates, BanPcs
  <2>2. BanControl' /\ MTInv'
    BY <1>2, <1>3, <1>7, <2>1 DEF BanInv, BanControl, MTInv
  <2>3. FilesInv'
    <3>1. \A h \in Callers : Moderates(h) => h \notin alone' /\ g \notin alone'
      BY <1>3, <1>4
    <3>2. \A h, k \in Callers : (Lifts(h) /\ Moderates(k) /\ h # k)' =>
           h \notin alone' /\ k \notin alone'
      BY <2>1, <3>1 DEF Lifts
    <3>3. \A h, k \in Callers : (Lifts(h) /\ Adds(k))' => ban'[k].addr \notin banned'
      BY <1>4, <1>5, <2>1 DEF Adds
    <3>4. \A h \in Callers : Lifts(h)' => 
           \A c \in Addrs : bans'[c] = ban'[h].name /\ bans'[c] # None => c \notin banned'
      BY <1>3, <1>2, <1>5, <1>7, <2>1 DEF BanInv, FilesInv
    <3>5. \A h \in Callers : pc'[h] = "remove" => ban'[h].addr \notin banned'
      BY <1>2, <1>3, <1>7 DEF BanInv, FilesInv
    <3>6. \A h \in alone' : pc'[h] = "banFill" => bans'[ban'[h].addr] # None
      BY <1>2, <1>3, <1>7 DEF BanInv, FilesInv
    <3> QED
      BY <3>2, <3>3, <3>4, <3>5, <3>6 DEF FilesInv
  <2>4. BansHold'
    BY <1>2, <1>3, <1>7 DEF BanInv, BanControl, BansHold
  <2> QED
    BY <2>2, <2>3, <2>4 DEF BanInv
<1> QED
  <2>1. b.addr # None => b.addr \in Addrs
    BY <1>1 DEF Argued
  <2> QED
    BY <1>6, <1>7, <2>1 DEF UnbanFile, Argument, Goto

\* files: Ban ends.
LEMMA FillBanInv ==
  ASSUME TypeOK, BanInv, NEW g \in Callers, FillBan(g)
  PROVE  BanInv'
<1> USE DEF TypeOK, BanTypes, Entries
<1>1. /\ pc[g] = "banFill" /\ backend = "files" /\ Adds(g) /\ ban[g].addr \in Addrs
      /\ ban[g].name \in Names /\ ban[g].name # None
  BY AuthAssumption DEF FillBan, BanInv, BanControl, Adds
<1>2. /\ pc' = [pc EXCEPT ![g] = "idle"] /\ ban' = [ban EXCEPT ![g] = NoBan]
      /\ alone' = alone \ {g} /\ UNCHANGED backend
      /\ banned' = IF g \in alone THEN banned \cup {ban[g].addr} ELSE banned
  BY <1>1 DEF FillBan, BanDone, Goto, Added, Adds
<1>3. \/ bans' = [bans EXCEPT ![ban[g].addr] = ban[g].name]
      \/ g \notin alone /\ bans' = bans
  BY DEF FillBan
<1>4. ~Moderates(g)' /\ \A h \in Callers : h # g => 
        /\ Moderates(h)' = Moderates(h) /\ Adds(h)' = Adds(h) /\ Lifts(h)' = Lifts(h)
        /\ pc'[h] = pc[h] /\ ban'[h] = ban[h]
  BY <1>2 DEF Adds, Lifts, Moderates, BanPcs
<1>5. \A h \in Callers : Lifts(h)' => 
        h # g /\ Lifts(h) /\ g \notin alone /\ ban[g].addr \notin banned
  BY <1>1, <1>4 DEF BanInv, FilesInv, Lifts, Adds
<1>6. BanControl' /\ MTInv'
  BY <1>1, <1>2, <1>4 DEF BanInv, BanControl, MTInv
<1>7. FilesInv'
  <2>1. \A h, k \in Callers : (Lifts(h) /\ Moderates(k) /\ h # k)' =>
         h \notin alone' /\ k \notin alone'
    BY <1>1, <1>2, <1>4 DEF BanInv, FilesInv, Lifts
  <2>2. \A h, k \in Callers : (Lifts(h) /\ Adds(k))' => ban'[k].addr \notin banned'
    BY <1>1, <1>2, <1>4, <1>5 DEF BanInv, FilesInv, Adds
  <2>3. \A h \in Callers : Lifts(h)' => 
         \A c \in Addrs : bans'[c] = ban'[h].name /\ bans'[c] # None => c \notin banned'
    BY <1>1, <1>2, <1>3, <1>4, <1>5 DEF BanInv, FilesInv
  <2>4. \A h \in Callers : pc'[h] = "remove" => ban'[h].addr \notin banned'
    <3>1. \A h \in Callers : pc'[h] = "remove" => h # g /\ Lifts(h)'
      BY <1>1, <1>2, <1>6 DEF BanControl
    <3> QED
      BY <1>1, <1>2, <1>4, <1>5, <3>1 DEF BanInv, FilesInv
  <2>5. \A h \in alone' : pc'[h] = "banFill" => bans'[ban'[h].addr] # None
    BY <1>1, <1>2, <1>3 DEF BanInv, FilesInv
  <2> QED
    BY <2>1, <2>2, <2>3, <2>4, <2>5 DEF FilesInv
<1>8. BansHold'
  BY <1>1, <1>2, <1>3 DEF BanInv, BanControl, BansHold
<1> QED
  BY <1>6, <1>7, <1>8 DEF BanInv

\* files: Unban lists the files, reads them and removes one.
LEMMA UnbanInv ==
  ASSUME TypeOK, BanInv, NEW g \in Callers, ListBans(g) \/ Look(g) \/ Remove(g)
  PROVE  BanInv'
<1> USE DEF TypeOK, BanTypes, Entries
<1>1. /\ backend = "files" /\ Lifts(g) /\ UNCHANGED <<backend, banned>>
      /\ pc[g] \in {"list", "look", "remove"}
  BY DEF ListBans, Look, LookOn, LookFound, LookEnd, Remove, BanDone, BanInv, BanControl
<1>2. CASE UNCHANGED <<bans, ban, alone>> /\ pc'[g] = "look"
           /\ \A h \in Callers : h # g => pc'[h] = pc[h]
  <2>1. \A h \in Callers : Moderates(h)' = Moderates(h) /\ Adds(h)' = Adds(h) /\ Lifts(h)' = Lifts(h)
    BY <1>1, <1>2 DEF Adds, Lifts, Moderates, BanPcs
  <2>2. BanControl' /\ MTInv' /\ BansHold'
    BY <1>1, <1>2, <2>1 DEF BanInv, BanControl, MTInv, BansHold
  <2>3. FilesInv'
    BY <1>1, <1>2, <2>1 DEF BanInv, FilesInv
  <2> QED
    BY <2>2, <2>3 DEF BanInv
<1>3. CASE Look(g) /\ \E a \in Listed(g) : LookFound(g, a)
  <2>1. PICK a \in Addrs : LookFound(g, a)
    BY <1>3 DEF Listed
  <2>2. /\ pc' = [pc EXCEPT ![g] = "remove"] /\ UNCHANGED <<bans, alone>>
        /\ ban' = [ban EXCEPT ![g] = [ban[g] EXCEPT !.addr = a]]
        /\ bans[a] # None /\ bans[a] = ban[g].name
    BY <2>1 DEF LookFound, Argument, Goto
  <2>3. ban'[g].addr = a /\ ban'[g].add = ban[g].add /\ ban'[g].name = ban[g].name
    BY <2>2, EntryType
  <2>4. a \notin banned
    BY <1>1, <2>2 DEF BanInv, FilesInv
  <2>5. \A h \in Callers : 
          /\ Moderates(h)' = Moderates(h) /\ Adds(h)' = Adds(h) /\ Lifts(h)' = Lifts(h)
          /\ ban'[h].name = ban[h].name
          /\ h # g => pc'[h] = pc[h] /\ ban'[h] = ban[h]
    BY <1>1, <2>2, <2>3 DEF Adds, Lifts, Moderates, BanPcs
  <2>6. BanControl' /\ MTInv' /\ BansHold'
    BY <1>1, <2>2, <2>5 DEF BanInv, BanControl, MTInv, BansHold
  <2>7. FilesInv'
    <3>1. \A h, k \in Callers : (Lifts(h) /\ Adds(k))' => ban'[k].addr \notin banned'
      BY <1>1, <2>5 DEF BanInv, FilesInv, Lifts, Adds
    <3>2. \A h \in Callers : pc'[h] = "remove" => ban'[h].addr \notin banned'
      BY <1>1, <2>2, <2>3, <2>4, <2>5 DEF BanInv, FilesInv
    <3>3. \A h \in alone' : pc'[h] = "banFill" => bans'[ban'[h].addr] # None
      BY <1>1, <2>2, <2>5 DEF BanInv, FilesInv
    <3> QED
      BY <1>1, <2>2, <2>5, <3>1, <3>2, <3>3 DEF BanInv, FilesInv
  <2> QED
    BY <2>6, <2>7 DEF BanInv
<1>4. ASSUME BanDone(g), \/ bans' = bans
                         \/ bans' = [bans EXCEPT ![ban[g].addr] = None] /\ pc[g] = "remove"
      PROVE  BanInv'
  <2>1. /\ pc' = [pc EXCEPT ![g] = "idle"] /\ ban' = [ban EXCEPT ![g] = NoBan]
        /\ alone' = alone \ {g}
    BY <1>4 DEF BanDone, Goto
  <2>2. ~Moderates(g)' /\ \A h \in Callers : h # g => 
          /\ Moderates(h)' = Moderates(h) /\ Adds(h)' = Adds(h) /\ Lifts(h)' = Lifts(h)
          /\ pc'[h] = pc[h] /\ ban'[h] = ban[h]
    BY <2>1 DEF Adds, Lifts, Moderates, BanPcs
  <2>3. BanControl' /\ MTInv'
    BY <1>1, <2>1, <2>2 DEF BanInv, BanControl, MTInv
  <2>4. BansHold'
    BY <1>1, <1>4, <2>1 DEF BanInv, BanControl, BansHold, FilesInv
  <2>5. FilesInv'
    <3>1. \A h \in alone' : ~(pc'[h] = "banFill")
      BY <1>1, <2>1, <2>2 DEF BanInv, FilesInv, Moderates, BanPcs, Lifts
    <3>2. \A h, k \in Callers : (Lifts(h) /\ Moderates(k) /\ h # k)' =>
           h \notin alone' /\ k \notin alone'
      BY <1>1, <2>1, <2>2 DEF BanInv, FilesInv, Lifts
    <3>3. \A h, k \in Callers : (Lifts(h) /\ Adds(k))' => ban'[k].addr \notin banned'
      BY <1>1, <2>2 DEF BanInv, FilesInv, Lifts, Adds
    <3>4. \A h \in Callers : Lifts(h)' => 
           \A c \in Addrs : bans'[c] = ban'[h].name /\ bans'[c] # None => c \notin banned'
      BY <1>1, <1>4, <2>2 DEF BanInv, FilesInv, Lifts
    <3>5. \A h \in Callers : pc'[h] = "remove" => ban'[h].addr \notin banned'
      BY <1>1, <2>1, <2>2 DEF BanInv, FilesInv
    <3> QED
      BY <3>1, <3>2, <3>3, <3>4, <3>5 DEF FilesInv
  <2> QED
    BY <2>3, <2>4, <2>5 DEF BanInv
<1> QED
  <2>1. CASE ListBans(g)
    BY <1>2, <2>1 DEF ListBans, Goto
  <2>2. CASE Look(g)
    <3>1. CASE \E a \in Listed(g) : LookOn(g, a)
      BY <1>2, <2>2, <3>1 DEF LookOn, Look
    <3>2. CASE LookEnd(g)
      BY <1>4, <3>2 DEF LookEnd
    <3> QED
      BY <1>3, <2>2, <3>1, <3>2 DEF Look
  <2>3. CASE Remove(g)
    BY <1>4, <2>3 DEF Remove
  <2> QED
    BY <2>1, <2>2, <2>3

\* mt: Ban or Unban reads the entries.
LEMMA EditBansInv ==
  ASSUME TypeOK, BanInv, NEW g \in Callers, NEW b \in Argued, EditBans(g, b),
         b.add => b.addr \in Addrs /\ b.name \in Names
  PROVE  BanInv'
<1> USE DEF TypeOK, BanTypes, Entries
<1>1. /\ backend = "mt" /\ Moderate(g, b) /\ ban' = [ban EXCEPT ![g] = b]
      /\ copy' = [copy EXCEPT ![g] = Edited(b)] /\ pc' = [pc EXCEPT ![g] = "truncate"]
      /\ UNCHANGED bans
  BY DEF EditBans, Argument, Goto
<1>2. /\ ~Moderates(g)
      /\ alone' \subseteq (alone \cup {g}) \ Conflicting(b)
      /\ Conflicting(b) # {} => g \notin alone'
      /\ Conflicting(b) = {} => g \in alone'
      /\ banned' = KeptBans(b)
      /\ banned' \subseteq banned
      /\ UNCHANGED <<backend, mixed>>
  BY <1>1, ModerateFacts
<1>3. Conflicting(b) = {h \in Callers : Moderates(h)}
  BY <1>1 DEF Conflicting
<1>4. IF Conflicting(b) = {} THEN banned' = banned \ (IF b.add THEN {} ELSE Matches(b, bans))
      ELSE banned' = {}
  BY <1>1, <1>2 DEF KeptBans
<1>5. Moderates(g)' /\ \A h \in Callers : h # g => 
        Moderates(h)' = Moderates(h) /\ pc'[h] = pc[h] /\ ban'[h] = ban[h]
  BY <1>1 DEF Moderates, BanPcs
<1>6. \A h \in Callers : h \in alone' /\ Moderates(h)' => h = g /\ Conflicting(b) = {}
  BY <1>2, <1>3, <1>5
<1>7. \A h \in Callers : pc'[h] \in {"truncate", "line"} => Moderates(h)'
  BY DEF Moderates, BanPcs
<1>8. Conflicting(b) = {} => \A a \in banned : bans[a] # None
  <2>1. Conflicting(b) = {} => \A h \in Callers : pc[h] # "line"
    BY <1>3 DEF Moderates, BanPcs
  <2> QED
    BY <2>1 DEF BanInv, BansHold
<1>9. BanControl' /\ FilesInv'
  BY <1>1, <1>2, <1>5 DEF BanInv, BanControl, FilesInv, Adds, Lifts
<1>10. Conflicting(b) = {} => \A a \in Keeps(g)' : copy'[g][a] # None
  <2> SUFFICES ASSUME Conflicting(b) = {}, NEW a \in Keeps(g)'
               PROVE  Edited(b)[a] # None
    BY <1>1
  <2>1. ban'[g] = b
    BY <1>1
  <2>2. CASE b.add
    BY <1>4, <1>8, <2>1, <2>2, AuthAssumption DEF Keeps, Edited
  <2>3. CASE ~b.add
    BY <1>4, <1>8, <2>1, <2>3 DEF Keeps, Edited
  <2> QED
    BY <2>2, <2>3
<1>11. MTInv'
  <2>1. \A h, k \in Callers : (Moderates(h) /\ Moderates(k) /\ h # k)' => h \notin alone'
    BY <1>3, <1>5, <1>6
  <2>2. \A h \in Callers : Moderates(h)' /\ h \notin alone' => banned' = {}
    BY <1>2, <1>3, <1>4, <1>5
  <2>3. \A h \in alone' : pc'[h] = "truncate" => \A a \in Keeps(h)' : copy'[h][a] # None
    BY <1>2, <1>6, <1>7, <1>10
  <2>4. \A h \in alone' : pc'[h] # "line"
    BY <1>1, <1>2, <1>6, <1>7
  <2>5. \A h \in mixed' : pc'[h] = "line" /\ h \notin alone'
    BY <1>1, <1>2, <1>5, <1>7 DEF BanInv, MTInv, Moderates, BanPcs
  <2> QED
    BY <2>1, <2>2, <2>3, <2>4, <2>5 DEF MTInv
<1>12. BansHold'
  BY <1>1, <1>2, <1>4, <1>8 DEF BansHold
<1> QED
  BY <1>9, <1>11, <1>12 DEF BanInv

\* mt: the file is emptied.
LEMMA TruncateInv ==
  ASSUME TypeOK, BanInv, NEW g \in Callers, Truncate(g)
  PROVE  BanInv'
<1> USE DEF TypeOK, BanTypes, Entries
<1>1. /\ pc[g] = "truncate" /\ backend = "mt" /\ Moderates(g)
      /\ pc' = [pc EXCEPT ![g] = "line"] /\ bans' = NoEntries
      /\ UNCHANGED <<backend, ban, copy, banned, alone>>
  BY DEF Truncate, Goto, Moderates, BanPcs, BanInv, BanControl
<1>2. \A h \in Callers : /\ Moderates(h)' = Moderates(h) /\ Keeps(h)' = Keeps(h)
                         /\ h # g => pc'[h] = pc[h]
  BY <1>1 DEF Moderates, BanPcs, Keeps
<1>3. g \in alone => \A h \in Callers : Moderates(h) => h = g
  BY <1>1 DEF BanInv, MTInv
<1>4. g \notin alone => banned = {} /\ \A h \in Callers : Moderates(h) => h \notin alone
  BY <1>1 DEF BanInv, MTInv
<1>5. g \in alone => \A a \in Keeps(g) : copy[g][a] # None
  BY <1>1 DEF BanInv, MTInv
<1>6. BanControl' /\ FilesInv'
  BY <1>1, <1>2 DEF BanInv, BanControl, FilesInv, Adds, Lifts
<1>7. \A h \in Callers : pc[h] \in {"truncate", "line"} => Moderates(h)
  BY DEF Moderates, BanPcs
<1>8. \A h \in mixed' : pc'[h] = "line" /\ h \notin alone'
  <2>1. \A h \in mixed : pc[h] = "line" /\ h \notin alone
    BY <1>1 DEF BanInv, MTInv
  <2>2. CASE \A h \in Callers : pc[h] # "line"
    BY <1>1, <2>1, <2>2 DEF Truncate
  <2>3. CASE \E h \in Callers : pc[h] = "line"
    <3>1. g \notin alone
      BY <1>1, <1>3, <1>7, <2>3
    <3>2. mixed' \subseteq mixed \cup {h \in Callers : pc[h] = "line"} \cup {g}
      BY DEF Truncate
    <3> QED
      BY <1>1, <1>2, <1>4, <1>7, <2>1, <3>1, <3>2
  <2> QED
    BY <2>2, <2>3
<1>9. MTInv'
  <2>1. \A h \in alone : pc'[h] \in {"truncate", "line"} => h = g
    BY <1>1, <1>2, <1>3, <1>4, <1>7
  <2>2. \A h \in alone' : pc'[h] = "truncate" => \A a \in Keeps(h)' : copy'[h][a] # None
    BY <1>1, <2>1
  <2>3. \A h \in alone' : pc'[h] = "line" =>
          \A a \in Keeps(h)' : bans'[a] # None \/ copy'[h][a] # None
    BY <1>1, <1>2, <1>5, <2>1
  <2>4. \A h, k \in Callers : (Moderates(h) /\ Moderates(k) /\ h # k)' => h \notin alone'
    BY <1>1, <1>2 DEF BanInv, MTInv
  <2>5. \A h \in Callers : Moderates(h)' /\ h \notin alone' => banned' = {}
    BY <1>1, <1>2 DEF BanInv, MTInv
  <2> QED
    BY <1>8, <2>2, <2>3, <2>4, <2>5 DEF MTInv
<1>10. BansHold'
  BY <1>1, <1>4, <1>5 DEF BansHold, Keeps
<1> QED
  BY <1>6, <1>9, <1>10 DEF BanInv

\* mt: a line is written, or the file is complete.
LEMMA WriteBansInv ==
  ASSUME TypeOK, BanInv, NEW g \in Callers, WriteBans(g)
  PROVE  BanInv'
<1> USE DEF TypeOK, BanTypes, Entries
<1>1. pc[g] = "line" /\ backend = "mt" /\ Moderates(g)
  BY DEF WriteBans, Moderates, BanPcs, BanInv, BanControl
<1>2. g \in alone => /\ \A h \in Callers : Moderates(h) => h = g
                     /\ g \notin mixed
                     /\ \A a \in Keeps(g) : bans[a] # None \/ copy[g][a] # None
  BY <1>1 DEF BanInv, MTInv
<1>3. g \notin alone => banned = {} /\ \A h \in Callers : Moderates(h) => h \notin alone
  BY <1>1 DEF BanInv, MTInv
<1>4. \A h \in Callers : pc[h] \in {"truncate", "line"} => Moderates(h)
  BY DEF Moderates, BanPcs
<1>5. ASSUME NEW a \in Listed(g), WriteLine(g, a) PROVE BanInv'
  <2>1. /\ a \in Addrs /\ copy[g][a] # None /\ copy' = [copy EXCEPT ![g][a] = None]
        /\ UNCHANGED <<backend, ban, pc, mixed, banned, alone>>
    BY <1>5 DEF WriteLine, Listed
  <2>2. g \in alone => bans' = [c \in Addrs |-> IF c = a THEN copy[g][c] ELSE bans[c]]
    BY <1>2, <1>5 DEF WriteLine
  <2>3. g \in alone => \A c \in Keeps(g) \cap Addrs : bans'[c] # None \/ copy'[g][c] # None
    BY <1>2, <2>1, <2>2
  <2>4. \A h \in Callers : Moderates(h)' = Moderates(h) /\ Keeps(h)' = Keeps(h)
    BY <2>1 DEF Moderates, Keeps
  <2>5. Keeps(g) \subseteq Addrs
    BY DEF Keeps
  <2>6. BanControl' /\ FilesInv'
    BY <1>1, <2>1 DEF BanInv, BanControl, FilesInv, Adds, Lifts, Moderates
  <2>7. MTInv'
    <3>1. \A h \in alone : pc[h] \in {"truncate", "line"} => h = g
      BY <1>2, <1>3, <1>4
    <3>2. \A h \in alone' : pc'[h] = "truncate" => \A c \in Keeps(h)' : copy'[h][c] # None
      BY <1>1, <2>1, <3>1
    <3>3. \A h \in alone' : pc'[h] = "line" =>
            \A c \in Keeps(h)' : bans'[c] # None \/ copy'[h][c] # None
      BY <1>1, <2>1, <2>3, <2>4, <2>5, <3>1
    <3> QED
      BY <1>1, <2>1, <2>4, <3>2, <3>3 DEF BanInv, MTInv
  <2>8. BansHold'
    BY <1>1, <1>3, <2>1, <2>3 DEF BansHold, Keeps
  <2> QED
    BY <2>6, <2>7, <2>8 DEF BanInv
<1>6. CASE WriteEnd(g)
  <2>1. /\ pc' = [pc EXCEPT ![g] = "idle"] /\ ban' = [ban EXCEPT ![g] = NoBan]
        /\ copy' = [copy EXCEPT ![g] = NoEntries] /\ alone' = alone \ {g}
        /\ mixed' = mixed \ {g} /\ UNCHANGED <<backend, bans>>
        /\ \A a \in Addrs : copy[g][a] = None
    BY <1>6 DEF WriteEnd, BanDone, Goto, Listed
  <2>2. banned' = IF g \in alone THEN Keeps(g) ELSE banned
    BY <1>6 DEF WriteEnd, Added, Keeps
  <2>3. ~Moderates(g)' /\ \A h \in Callers : h # g => 
          /\ Moderates(h)' = Moderates(h) /\ Adds(h)' = Adds(h) /\ Lifts(h)' = Lifts(h)
          /\ pc'[h] = pc[h] /\ ban'[h] = ban[h] /\ copy'[h] = copy[h]
    BY <2>1 DEF Adds, Lifts, Moderates, BanPcs
  <2>4. BanControl' /\ FilesInv'
    BY <1>1, <2>1, <2>3 DEF BanInv, BanControl, FilesInv
  <2>5. \A h \in Callers : h \in alone' => pc'[h] \notin {"truncate", "line"}
    BY <1>2, <1>3, <1>4, <2>1, <2>3
  <2>6. \A h \in Callers : Moderates(h)' => banned' = {} /\ h \notin alone'
    BY <1>2, <1>3, <2>1, <2>2, <2>3
  <2>7. MTInv'
    BY <1>1, <2>1, <2>3, <2>5, <2>6 DEF BanInv, MTInv
  <2>8. BansHold'
    <3>1. CASE g \in alone
      BY <1>2, <2>1, <2>2, <3>1 DEF BansHold, Keeps
    <3>2. CASE g \notin alone
      BY <1>3, <2>2, <3>2 DEF BansHold
    <3> QED
      BY <3>1, <3>2
  <2> QED
    BY <2>4, <2>7, <2>8 DEF BanInv
<1> QED
  BY <1>5, <1>6 DEF WriteBans

\* Every step of the bans keeps their invariant.
LEMMA BanStepInv ==
  ASSUME TypeOK, BanInv, NEW g \in Callers, FileBanStep(g) \/ MTBanStep(g)
  PROVE  BanInv'
<1>1. CASE FileBanStep(g)
  BY <1>1, BanFileInv, UnbanFileInv, FillBanInv, UnbanInv DEF FileBanStep
<1>2. ASSUME NEW a \in Addrs, NEW n \in Names, EditBans(g, [add |-> TRUE, addr |-> a, name |-> n])
      PROVE  BanInv'
  <2> DEFINE b == [add |-> TRUE, addr |-> a, name |-> n]
  <2>1. b \in Argued /\ b.addr \in Addrs /\ b.name \in Names /\ EditBans(g, b)
    BY <1>2, ArgumentType
  <2> HIDE DEF b
  <2> QED
    BY <2>1, EditBansInv
<1>3. ASSUME NEW b \in Unbans, EditBans(g, b) PROVE BanInv'
  BY <1>3, ArgumentType, EditBansInv
<1> QED
  BY <1>1, <1>2, <1>3, TruncateInv, WriteBansInv DEF MTBanStep

\* A call that fails, or is cut off, takes nothing with it that it has not written.
LEMMA FailInv ==
  ASSUME TypeOK, AccountInv, BanInv, NEW gs \in SUBSET Callers,
         banned' = Survives(gs), UNCHANGED <<backend, account, bans, passwd>>,
         alone' \subseteq alone, mixed' \subseteq mixed, crossed' = crossed \ gs,
         \A h \in gs : pc'[h] = "idle" /\ h \notin mixed',
         \A h \in Callers \ gs :
           /\ pc'[h] = pc[h] /\ user'[h] = user[h] /\ ban'[h] = ban[h] /\ copy'[h] = copy[h]
           /\ h \in alone => h \in alone'
  PROVE  AccountInv' /\ BanInv'
<1> USE DEF TypeOK, BanTypes
<1>1. AccountInv'
  <2>1. \A h \in Callers : Files(h)' => h \notin gs
    BY DEF Files, WriterPcs
  <2>2. \A h \in Callers : h \in crossed' <=> h \in crossed /\ pc'[h] \in HalfPcs
    BY DEF AccountInv, Crossing, HalfPcs
  <2>3. crossed' \subseteq Callers
    BY DEF AccountTypes
  <2> QED
    BY <2>1, <2>2, <2>3, AccountFrame
<1>2. \A h \in gs : ~Moderates(h)'
  BY DEF Moderates, BanPcs
<1>3. \A h \in Callers \ gs : /\ Moderates(h)' = Moderates(h) /\ Adds(h)' = Adds(h)
                              /\ Lifts(h)' = Lifts(h) /\ (h \in alone' <=> h \in alone)
  BY DEF Moderates, Adds, Lifts
<1>4. banned' \subseteq banned
  BY DEF Survives
<1>5. BanControl'
  BY <1>3 DEF BanInv, BanControl
<1>6. FilesInv'
  <2>1. \A h \in Callers : Lifts(h)' => h \notin gs /\ Lifts(h)
    BY <1>2, <1>3 DEF Lifts
  <2>2. \A h \in Callers : Adds(h)' => h \notin gs /\ Adds(h)
    BY <1>2, <1>3 DEF Adds
  <2>3. \A h \in Callers : pc'[h] \in {"remove", "banFill"} => h \notin gs
    OBVIOUS
  <2>4. \A h \in Callers : Moderates(h)' => h \notin gs /\ Moderates(h)
    BY <1>2, <1>3
  <2> QED
    BY <1>3, <1>4, <2>1, <2>2, <2>3, <2>4 DEF BanInv, FilesInv
<1>7. MTInv'
  <2>1. \A h \in Callers : Moderates(h)' => h \notin gs /\ Moderates(h)
    BY <1>2, <1>3
  <2>2. \A h \in Callers : pc'[h] \in {"truncate", "line"} => h \notin gs
    OBVIOUS
  <2>3. \A h \in Callers \ gs : Keeps(h)' \subseteq Keeps(h)
    BY <1>4 DEF Keeps
  <2> QED
    BY <1>3, <1>4, <2>1, <2>2, <2>3 DEF BanInv, MTInv
<1>8. BansHold'
  <2> SUFFICES ASSUME NEW a \in banned', bans[a] = None
               PROVE  \E g \in Callers : pc'[g] = "line" /\ copy'[g][a] # None
    BY DEF BansHold
  <2>1. PICK g \in Callers : pc[g] = "line" /\ copy[g][a] # None
    BY <1>4 DEF BanInv, BansHold
  <2>2. g \notin gs
    BY <2>1 DEF Survives
  <2> QED
    BY <2>1, <2>2
<1> QED
  BY <1>1, <1>5, <1>6, <1>7, <1>8 DEF BanInv

-----------------------------------------------------------------------------
IInv == TypeOK /\ AccountInv /\ BanInv

\* The invariant holds at the start.
LEMMA InitInv == Init => IInv
<1> SUFFICES ASSUME Init PROVE IInv
  OBVIOUS
<1> USE AuthAssumption DEF Init
<1>1. TypeOK
  BY NobodyType DEF TypeOK, AccountTypes, BanTypes, Entry, WriterPcs, ReaderPcs, NoBan
<1>2. \A h \in Callers : ~Files(h) /\ ~Moderates(h) /\ pc[h] = "idle"
  BY DEF Files, Moderates, WriterPcs, BanPcs
<1>3. AccountInv
  BY <1>2 DEF AccountInv, FilesOnly, Uncertain, Crossing, Written, PasswordsIntact, HalfPcs
<1>4. BanInv
  BY <1>2 DEF BanInv, BanControl, FilesInv, MTInv, BansHold, Lifts, Adds
<1> QED
  BY <1>1, <1>3, <1>4 DEF IInv

\* Every step keeps the invariant.
LEMMA NextInv == IInv /\ [Next]_vars => IInv'
<1> SUFFICES ASSUME TypeOK, AccountInv, BanInv, [Next]_vars PROVE IInv'
  BY DEF IInv
<1>1. TypeOK'
  BY TypeStep
<1>2. ASSUME NEW g \in Callers, AccountStep(g) PROVE AccountInv' /\ BanInv'
  BY <1>2, AccountStepInv, AccountLeavesBans
<1>3. ASSUME NEW g \in Callers, FileBanStep(g) \/ MTBanStep(g) PROVE AccountInv' /\ BanInv'
  <2>1. /\ UNCHANGED <<backend, accountVars>>
        /\ \A h \in Callers : pc'[h] \in WriterPcs \cup ReaderPcs => pc'[h] = pc[h]
        /\ \A h \in Callers : pc[h] \in WriterPcs \cup ReaderPcs => pc'[h] = pc[h]
    BY <1>3, BanLeavesAccounts
  <2>2. \A h \in Callers : h \in crossed' <=> h \in crossed /\ pc'[h] \in HalfPcs
    BY <2>1 DEF AccountInv, Crossing, HalfPcs, WriterPcs, accountVars
  <2>3. AccountInv'
    BY <2>1, <2>2, AccountFrame DEF accountVars, Files, TypeOK, AccountTypes
  <2> QED
    BY <1>3, <2>3, BanStepInv
<1>4. ASSUME NEW g \in Callers, Fail(g) PROVE AccountInv' /\ BanInv'
  <2>1. {g} \in SUBSET Callers
    OBVIOUS
  <2>2. \A h \in {g} : pc'[h] = "idle" /\ h \notin mixed'
    BY <1>4 DEF Fail, Goto, TypeOK
  <2>3. \A h \in Callers \ {g} :
           /\ pc'[h] = pc[h] /\ user'[h] = user[h] /\ ban'[h] = ban[h] /\ copy'[h] = copy[h]
           /\ h \in alone => h \in alone'
    BY <1>4 DEF Fail, Goto, TypeOK, AccountTypes, BanTypes
  <2>4. /\ banned' = Survives({g}) /\ UNCHANGED <<backend, account, bans, passwd>>
        /\ alone' \subseteq alone /\ mixed' \subseteq mixed /\ crossed' = crossed \ {g}
    BY <1>4 DEF Fail
  <2> QED
    BY <2>1, <2>2, <2>3, <2>4, FailInv
<1>5. CASE Crash
  <2>1. /\ banned' = Survives(Callers) /\ UNCHANGED <<backend, account, bans, passwd>>
        /\ alone' \subseteq alone /\ mixed' \subseteq mixed /\ crossed' = crossed \ Callers
        /\ \A h \in Callers : pc'[h] = "idle" /\ h \notin mixed'
    BY <1>5 DEF Crash, TypeOK, AccountTypes
  <2> QED
    BY <1>1, <2>1, FailInv DEF IInv
<1>6. CASE (\E a \in Addrs : Banned(a)) \/ UNCHANGED vars
  <2>1. UNCHANGED <<backend, accountVars, banVars, pc>>
    BY <1>6 DEF Banned, vars
  <2>2. alone \subseteq Callers /\ mixed \subseteq Callers /\ crossed \subseteq Callers
    BY DEF TypeOK, BanTypes, AccountTypes
  <2>3. AccountInv'
    BY <2>1, <2>2, AccountFrame DEF accountVars, AccountInv, Crossing
  <2>4. BanInv'
    BY <2>1, <2>2, BanFrame
  <2> QED
    BY <1>1, <2>3, <2>4 DEF IInv
<1> QED
  BY <1>1, <1>2, <1>3, <1>4, <1>5, <1>6 DEF IInv, Next, Step

\* The invariant holds all the time.
THEOREM Inductive == Spec => []IInv
BY InitInv, NextInv, PTL DEF Spec

\* Types: what the calls of any number of callers read and write has its type.
THEOREM TypesHold == Spec => []TypeOK
<1>1. IInv => TypeOK
  BY DEF IInv
<1> QED
  BY <1>1, Inductive, PTL

\* The password that was set last stays whole, unless the call that sets the next
\* one is cut off or crossed, for any number of callers and users.
THEOREM PasswordsStayIntact == Spec => []PasswordsIntact
<1>1. IInv => PasswordsIntact
  BY DEF IInv, AccountInv
<1> QED
  BY <1>1, Inductive, PTL

\* No ban is lost by the calls for other addresses, with either backend.
THEOREM BansAreKept == Spec => []BansHold
<1>1. IInv => BansHold
  BY DEF IInv, BanInv
<1> QED
  BY <1>1, Inductive, PTL
=============================================================================
