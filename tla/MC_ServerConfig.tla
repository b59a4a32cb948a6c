-------------------------- MODULE MC_ServerConfig --------------------------
(* Three servers and four files: hub alone; all three, two of them in one  *)
(* pool; two servers of their own pools and the option set; hub removed.   *)
EXTENDS ServerConfig, TLC

MCNames == {"hub", "game", "mini"}
MCPools == MCNames
MCFallback == "hub" :> None @@ "game" :> "hub" @@ "mini" :> "hub"
Alone == [pools |-> "hub" :> None, force |-> None]
Full == [pools |-> "hub" :> None @@ "game" :> "hub" @@ "mini" :> None, force |-> None]
Apart == [pools |-> "hub" :> None @@ "game" :> None, force |-> TRUE]
Gone == [pools |-> "game" :> None, force |-> FALSE]
MCFiles == {Alone, Full, Apart, Gone}
ClientSymmetry == Permutations(Clients)
=============================================================================
