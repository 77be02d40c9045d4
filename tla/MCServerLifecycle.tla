------------------------- MODULE MCServerLifecycle -------------------------
(***************************************************************************)
(* ServerLifecycle with two addresses: p1 and p2 listen on the same one,   *)
(* p3 is a foreground server of another executable on the other.           *)
(* Both properties speak of behaviours without a race, so the search stops *)
(* at the first.                                                           *)
(***************************************************************************)
EXTENDS ServerLifecycle, TLC

CONSTANTS c1, c2, p1, p2, p3, here, there

MCPortOf == (p1 :> here) @@ (p2 :> here) @@ (p3 :> there)

MCNoRace == ~raced
=============================================================================
