----------------------------- MODULE MCCliClient -----------------------------
(* Instances of CliClient for TLC.                                          *)
EXTENDS CliClient

CONSTANTS alice, bob

Both == {alice, bob}

==============================================================================
