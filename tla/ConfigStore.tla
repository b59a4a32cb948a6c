---------------------------- MODULE ConfigStore ----------------------------
(***************************************************************************)
(* What the configuration promises to whoever waits for configMu           *)
(* (config.go:102-161, 286-382): a reload installs a file as a whole and   *)
(* keeps the dynamic servers, or leaves everything unchanged; plugins add  *)
(* and remove dynamic servers only.  A server is the media pool it is in.  *)
(***************************************************************************)
CONSTANTS
  Names, \* names of servers
  Files, \* contents the file may have: pools of servers, and a Boolean option
  None   \* a field the file does not have

VARIABLES
  static,  \* the servers of the file
  dynamic, \* the servers of the plugins
  option   \* the option

vars == <<static, dynamic, option>>

\* A server without a media pool is alone in the pool of its name.
Servers(f) == [n \in DOMAIN f.pools |-> IF f.pools[n] = None THEN n ELSE f.pools[n]]
Set(f, default) == IF f.force = None THEN default ELSE f.force

Init == \E f \in Files :
  /\ static = Servers(f)
  /\ option = Set(f, FALSE)
  /\ dynamic = [n \in {} |-> None]

Load(f) ==
  /\ DOMAIN f.pools \cap DOMAIN dynamic = {}
  /\ static' = Servers(f)
  /\ option' = Set(f, option)
  /\ UNCHANGED dynamic

Add(n, s) ==
  /\ n \notin DOMAIN static \cup DOMAIN dynamic
  /\ dynamic' = [k \in DOMAIN dynamic \cup {n} |-> IF k = n THEN static[s] ELSE dynamic[k]]
  /\ UNCHANGED <<static, option>>

Remove(n) ==
  /\ dynamic' = [k \in DOMAIN dynamic \ {n} |-> dynamic[k]]
  /\ UNCHANGED <<static, option>>

Next ==
  \/ \E f \in Files : Load(f)
  \/ \E s \in DOMAIN static : \E n \in Names : Add(n, s)
  \/ \E n \in DOMAIN dynamic : Remove(n)

Spec == Init /\ [][Next]_vars
=============================================================================
