------------------------------- MODULE Outbox -------------------------------
(***************************************************************************)
(* What the engine promises about the messages it accepts, seen from the   *)
(* radio: each is transmitted at most once, in the order of acceptance,    *)
(* and those not transmitted are forgotten only together, when the process *)
(* that accepted them ends.  Nothing is promised about when.               *)
(***************************************************************************)
EXTENDS Naturals, Sequences

CONSTANT Item

VARIABLES
  waiting,   \* accepted and not yet transmitted, oldest first
  aired,     \* transmitted, oldest first
  life       \* how often the process was started again

Init == waiting = <<>> /\ aired = <<>> /\ life = 0

Accept(x) ==
  /\ waiting' = Append(waiting, x)
  /\ UNCHANGED <<aired, life>>

Transmit ==
  /\ waiting # <<>>
  /\ aired' = Append(aired, Head(waiting))
  /\ waiting' = Tail(waiting)
  /\ UNCHANGED life

Forget ==
  /\ waiting' = <<>>
  /\ life' = life + 1
  /\ UNCHANGED aired

Next == (\E x \in Item : Accept(x)) \/ Transmit \/ Forget

Spec == Init /\ [][Next]_<<waiting, aired, life>>
=============================================================================
