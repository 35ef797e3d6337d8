------------------------------ MODULE MCResolvers ------------------------------
(* Two characters; a station, two citadels, three systems in two regions.  *)
EXTENDS Resolvers, TLC

MCConstellationOf == (1 :> 1) @@ (2 :> 1) @@ (3 :> 2)
MCRegionOf == (1 :> 1) @@ (2 :> 2)
At(s, d) == [system |-> s, dock |-> d]
MCPositions == {At(1, 11), At(2, 0), At(3, 21), At(3, 22)}
MCHomes == {At(1, 11)}
MCBelongings == {<<2, 11>>, <<2, 22>>}
MCGuests == {<<1, 21>>, <<2, 22>>}
MCCategoryOf == (31 :> "corporation") @@ (32 :> "list")
=============================================================================
