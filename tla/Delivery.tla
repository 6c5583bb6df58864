------------------------------ MODULE Delivery ------------------------------
(***************************************************************************)
(* What the relay promises about a message, without its maps, windows and  *)
(* timers: a submission is held until it is written, once, to the          *)
(* connections of its recipient, or until the relay gives it up.  What was *)
(* written or given up never comes back, and a cover frame is discarded.   *)
(***************************************************************************)
EXTENDS Naturals, Sequences, FiniteSets

CONSTANT Client  \* connections

VARIABLE fate    \* what became of each submission, in order

Fate == [mode : {"pair", "group"}, state : {"held", "lost"}, to : {{}}]
          \cup [mode : {"pair"}, state : {"written"}, to : {{c} : c \in Client}]
          \cup [mode : {"group"}, state : {"written"}, to : (SUBSET Client) \ {{}}]
          \cup [mode : {"cover"}, state : {"discarded"}, to : {{}}]

Init == fate = <<>>

\* A submission enters in any state: held, discarded, or resolved at once.
Submit ==
  /\ Len(fate') = Len(fate) + 1
  /\ \E f \in Fate : fate' = Append(fate, f)

\* A held message is written to the connections it is for, or given up; one
\* step of the relay (the sweep) may give up several.
Resolve ==
  /\ Len(fate') = Len(fate)
  /\ \A i \in 1..Len(fate) :
       \/ fate'[i] = fate[i]
       \/ fate[i].state = "held" /\ fate'[i] \in {f \in Fate : f.mode = fate[i].mode}

Next == Submit \/ Resolve

Spec == Init /\ [][Next]_fate

=============================================================================
