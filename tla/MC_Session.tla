---------------------------- MODULE MC_Session ----------------------------
(* Small instances of Session: a chain of fallback servers that ends, and  *)
(* one whose last member is not configured.                                *)
EXTENDS SessionInv, TLC

\* alpha falls back to beta; beta is the only server a hop may go to.
ChainServers == {"alpha", "beta"}
ChainFallback == "alpha" :> "beta" @@ "beta" :> None
ChainHoppable == {"beta"}
ChainFirst == {"alpha"}

\* gamma falls back to a name that is no server; selection may also find an
\* inexistent previous server or nothing at all.
WideServers == {"alpha", "beta", "gamma"}
WideNames == WideServers \cup {"nowhere"}
WideFallback == "alpha" :> "beta" @@ "beta" :> None @@ "gamma" :> "nowhere"
WideHoppable == {"beta"}
WideFirst == {"alpha", "gamma", None, NoServer}

\* alpha and beta are each other's fallback.
SwapFallback == "alpha" :> "beta" @@ "beta" :> "alpha"

\* beta is its own fallback, so that its kicks compete with the hops to it;
\* a hop to an inexistent server is refused.
LoopServers == {"beta"}
LoopNames == LoopServers \cup {"nowhere"}
LoopFallback == "beta" :> "beta"

AllSymmetry == Permutations(Hoppers) \cup Permutations(Conns)
=============================================================================
