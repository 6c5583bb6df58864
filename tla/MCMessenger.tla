----------------------------- MODULE MCMessenger -----------------------------
(* Instances of Messenger for TLC.                                          *)
EXTENDS Messenger

CONSTANTS alice, bob

Both == {alice, bob}

==============================================================================
