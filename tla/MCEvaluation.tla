---------------------------- MODULE MCEvaluation ----------------------------
(* Constants for the run of Evaluation. *)
EXTENDS Evaluation

CONSTANTS w1, w2, t1, t2

MCWorkers == {w1, w2}
MCTexts   == {t1, t2}
\* A sure pass, an unsure failure with a violated invariant, and one out of nothing.
MCReplies == {
  [verdict |-> "PASS", matched_approach |-> TRUE,
   violated_invariants |-> FALSE, confident |-> TRUE],
  [verdict |-> "FAIL", matched_approach |-> FALSE,
   violated_invariants |-> TRUE, confident |-> FALSE],
  [verdict |-> "FAIL", matched_approach |-> FALSE,
   violated_invariants |-> FALSE, confident |-> FALSE]}
=============================================================================
