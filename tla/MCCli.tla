-------------------------------- MODULE MCCli --------------------------------
(* Two instances of CliClient for TLC in one run, told apart by part: the     *)
(* constants of the .cfg are those of "order", where nobody is killed and the *)
(* relay delivers more envelopes in any order and twice; in "kill" the        *)
(* clients are killed at any step and others use up prekeys.                  *)
EXTENDS MCCliClient

VARIABLE part

Killed == INSTANCE CliClient WITH
  Bundles <- {bob}, PoolSize <- 1, Others <- TRUE, MaxTexts <- 1, MaxCrashes <- 2, MaxPrekeys <- 3

PartsInit == \/ part = "order" /\ Init
             \/ part = "kill" /\ Killed!Init

PartsNext == /\ UNCHANGED part
             /\ \/ part = "order" /\ Next
                \/ part = "kill" /\ Killed!Next

PartsSpec == PartsInit /\ [][PartsNext]_<<part, vars>>

\* One instance alone, the one of the .cfg, whose steps are taken in the end.
LiveInit == PartsInit /\ part = "order"
LiveSpec == LiveInit /\ [][PartsNext]_<<part, vars>> /\ Fairness

------------------------------------------------------------------------------

\* Envelopes that overtake each other cost no more than the ones whose epoch is
\* not known yet, whose session is not established yet, or a first message that
\* comes after the epoch it began, although the caches of keys and epochs stay
\* within their limits (Peers).
OrderRefuses == part = "order" => TypeOK /\ OnlyOrderRefuses

==============================================================================
