------------------------------ MODULE MCSocket ------------------------------
(***************************************************************************)
(* Small instances of the sockets for TLC.                                 *)
(***************************************************************************)
EXTENDS Socket, TLC

\* Callers are interchangeable, and so are sockets.
Symmetries == Permutations(Callers) \cup Permutations(Sockets)
=============================================================================
