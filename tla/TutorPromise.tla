---------------------------- MODULE TutorPromise ----------------------------
(***************************************************************************)
(* What a student is promised of one tutor turn (the head of               *)
(* orchestrator/app/verifier.py): every draft passes the verifier before   *)
(* it can be seen, and a turn that runs out of drafts says a canned text.  *)
(* Which texts are fit is a parameter; how that is found out is not said.  *)
(***************************************************************************)
EXTENDS Naturals

CONSTANTS
  Fit,       \* for each phase, the drafts that may be said
  Canned,    \* for each phase, its canned text
  MaxTries,  \* how often the model is asked at most
  Nothing,   \* nothing has been said yet
  Failure    \* the turn ended in an error

VARIABLES
  phase,     \* the phase the turn belongs to
  tries,     \* drafts asked for
  outcome    \* what came of the turn

Init == phase \in DOMAIN Fit /\ tries = 0 /\ outcome = Nothing

Ask == /\ outcome = Nothing /\ tries < MaxTries
       /\ tries' = tries + 1
       /\ UNCHANGED <<phase, outcome>>

Say == /\ outcome = Nothing /\ tries > 0
       /\ outcome' \in Fit[phase]
       /\ UNCHANGED <<phase, tries>>

FallBack == /\ outcome = Nothing /\ tries = MaxTries
            /\ outcome' = Canned[phase]
            /\ UNCHANGED <<phase, tries>>

Fail == /\ outcome = Nothing
        /\ outcome' = Failure
        /\ UNCHANGED <<phase, tries>>

Next == Ask \/ Say \/ FallBack \/ Fail

Spec == Init /\ [][Next]_<<phase, tries, outcome>>
=============================================================================
