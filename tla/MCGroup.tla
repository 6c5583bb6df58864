------------------------------- MODULE MCGroup -------------------------------
(* Instances of Group for TLC.                                              *)
EXTENDS Group

CONSTANTS alice, bob, carol, dave

Three == {alice, bob, carol}
Four  == {alice, bob, carol, dave}
Two   == {alice, bob}

==============================================================================
