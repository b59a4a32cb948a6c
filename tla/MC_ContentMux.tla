--------------------------- MODULE MC_ContentMux ---------------------------
(* A pool of two servers with the same nodes and a pool of one.  There are *)
(* numbers for five nodes (0, 1, 5, 6, 7), one less than the two pools     *)
(* have, so the numbers of mt.Content may be used up.                      *)
EXTENDS ContentMux, TLC

MCServers == {"hub", "dummy", "game"}
MCPools == {"hub", "game"}
MCPoolOf == "hub" :> "hub" @@ "dummy" :> "hub" @@ "game" :> "game"
MCNodeDefs == "hub" :> <<0, 1, 5>> @@ "dummy" :> <<0, 1, 5>> @@ "game" :> <<0, 5, 1>>
=============================================================================
