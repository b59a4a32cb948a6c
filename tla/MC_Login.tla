------------------------------ MODULE MC_Login ------------------------------
(* Two connections and three names, one of them not allowed and one of     *)
(* them banned; one user at most.                                          *)
EXTENDS Login
=============================================================================
