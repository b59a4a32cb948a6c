----------------------------- MODULE Presence -----------------------------
(***************************************************************************)
(* What ClientConn and ServerConn promise together (hop.go, connect.go,    *)
(* server_conn.go, client_conn.go): a player is on one server at a time,   *)
(* leaves it before arriving on the next one, never returns to a           *)
(* connection that was left, and is nowhere once it went away.             *)
(***************************************************************************)
CONSTANTS
  Conns, \* the connections to servers
  None   \* no connection

VARIABLES
  online, \* the player is there
  at,     \* the connection whose server plays with the player
  left    \* the connections that were left

vars == <<online, at, left>>

Init == online = TRUE /\ at = None /\ left = {}

Arrive(s) ==
  /\ online
  /\ at = None
  /\ s \notin left
  /\ at' = s
  /\ UNCHANGED <<online, left>>

Leave ==
  /\ online
  /\ at # None
  /\ left' = left \cup {at}
  /\ at' = None
  /\ UNCHANGED online

Depart ==
  /\ online
  /\ online' = FALSE
  /\ at' = None
  /\ left' = {}

Next == (\E s \in Conns : Arrive(s)) \/ Leave \/ Depart

Spec == Init /\ [][Next]_vars
=============================================================================
