------------------------------- MODULE MCFeed -------------------------------
(***************************************************************************)
(* A small instance of Feed for TLC: two connections, the second with a    *)
(* single asset, or one connection when the first asset is dropped.        *)
(***************************************************************************)
EXTENDS Feed

MCUniverses == {{1, 2, 3}, {2, 3}}
=============================================================================
