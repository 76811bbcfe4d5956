---------------------------- MODULE AlertLedger ----------------------------
(***************************************************************************)
(* What the worker promises about Discord alerts, without saying how: one  *)
(* message per listing, and one more only for each excuse, an event after  *)
(* which no record of the earlier message is left (the delivery claim      *)
(* expired or was lost) or no certainty about it was ever had (Discord's   *)
(* answer was lost).  README.md of the repository: "overlapping searches   *)
(* notify only once".                                                      *)
(***************************************************************************)
EXTENDS Naturals

CONSTANT Items

VARIABLES
  told,     \* told[i]: messages about i that Discord has accepted
  excused   \* excused[i]: excuses so far for telling i once more

vars == <<told, excused>>

LedgerTypeOK == /\ told \in [Items -> Nat]
                /\ excused \in [Items -> Nat]

Init == /\ told = [i \in Items |-> 0]
        /\ excused = [i \in Items |-> 0]

\* A message, allowed while fewer than 1 + excused[i] were sent.
Tell(i) ==
  /\ told[i] <= excused[i]
  /\ told' = [told EXCEPT ![i] = @ + 1]
  /\ UNCHANGED excused

\* A message whose acceptance the sender never learns of excuses another.
TellUnheard(i) ==
  /\ told[i] <= excused[i]
  /\ told' = [told EXCEPT ![i] = @ + 1]
  /\ excused' = [excused EXCEPT ![i] = @ + 1]

Excuse(i) ==
  /\ excused' = [excused EXCEPT ![i] = @ + 1]
  /\ UNCHANGED told

Next == \E i \in Items : Tell(i) \/ TellUnheard(i) \/ Excuse(i)

Spec == Init /\ [][Next]_vars

=============================================================================
