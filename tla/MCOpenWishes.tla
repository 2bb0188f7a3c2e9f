----------------------------- MODULE MCOpenWishes -----------------------------
(***************************************************************************)
(* OpenWishes on a small instance: up to five requests of which one cannot  *)
(* be read, asked for by three and given by two.                            *)
(***************************************************************************)
EXTENDS OpenWishes

TheReadable == 1 .. 5 \ {2}
=============================================================================
