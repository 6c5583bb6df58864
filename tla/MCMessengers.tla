---------------------------- MODULE MCMessengers -----------------------------
(* Two instances of Messenger for TLC in one run, told apart by part: the    *)
(* constants of the .cfg are those of "prekeys", where one tab is reloaded    *)
(* and others use up prekeys; in "kill" both are reloaded, at any step.       *)
EXTENDS MCMessenger

VARIABLE part

Killed == INSTANCE Messenger WITH MaxEpochs <- 1, PoolSize <- 1, Others <- FALSE, MaxTexts <- 2,
                                Crashers <- Party, MaxCrashes <- 2, MaxAnswers <- 1, MaxPrekeys <- 2

BothInit == \/ part = "prekeys" /\ Init
            \/ part = "kill" /\ Killed!Init

BothNext == /\ UNCHANGED part
            /\ \/ part = "prekeys" /\ Next
               \/ part = "kill" /\ Killed!Next

BothSpec == BothInit /\ [][BothNext]_<<part, vars>>

==============================================================================
