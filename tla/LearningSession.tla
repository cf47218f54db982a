-------------------------- MODULE LearningSession --------------------------
(***************************************************************************)
(* What a session promises its client, with no graph, worker, cache or     *)
(* checkpoint in sight: a phase that only moves LOGIC, CODE, DONE, and a   *)
(* transcript that only grows.  The editor is unlocked by a step whose     *)
(* last message says so, and the session is finished by a step that ends   *)
(* with an ACCEPTED test result and the success notice.  Only deleting the *)
(* session starts it over.  Orchestrator implements this module while      *)
(* requests for a thread come one at a time.                               *)
(***************************************************************************)
EXTENDS Naturals, SequencesExt

CONSTANTS
  Unlocked,  \* the notice that the editor is unlocked
  Accepted,  \* the result of code that passed every test
  Finished   \* the notice that the session is over

VARIABLES phase, transcript

vars == <<phase, transcript>>

Init == phase = "none" /\ transcript = << >>

\* The transcript is extended; nothing shown is taken back.
Extends == IsStrictPrefix(transcript, transcript')

Open ==
  /\ phase = "none"
  /\ phase' = "LOGIC"
  /\ transcript' = << >>

\* Messages are exchanged without a change of phase.
Converse ==
  /\ phase \in {"LOGIC", "CODE"}
  /\ UNCHANGED phase
  /\ Extends
  /\ Last(transcript') \notin {Unlocked, Finished}

\* The logic is accepted.
Unlock ==
  /\ phase = "LOGIC"
  /\ phase' = "CODE"
  /\ Extends
  /\ Last(transcript') = Unlocked

\* The code is accepted.
Complete ==
  /\ phase = "CODE"
  /\ phase' = "DONE"
  /\ Extends
  /\ Last(transcript') = Finished
  /\ transcript'[Len(transcript') - 1] = Accepted

Close ==
  /\ phase' = "none"
  /\ transcript' = << >>

Next == Open \/ Converse \/ Unlock \/ Complete \/ Close

Spec == Init /\ [][Next]_vars
=============================================================================
