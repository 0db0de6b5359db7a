------------------------- MODULE MCSessionRegistry -------------------------
(***************************************************************************)
(* SessionRegistry with three sessions, which an earlier process may have  *)
(* left under three names.                                                 *)
(***************************************************************************)
EXTENDS SessionRegistry

MCNames == {"a", "b", "c"}
MCLeft  == {{2}, {1, 2, 3}}
MCFirst == <<"a", "b", "c">>
=============================================================================
