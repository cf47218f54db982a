--------------------------- MODULE MCOrchestrator ---------------------------
(* Constants for the runs of Orchestrator. *)
EXTENDS Orchestrator

CONSTANTS w1, w2, t1, t2, quote, signature, cannedLogic, cannedCode

MCTexts   == {t1}
MCTexts2  == {t1, t2}
MCDrafts  == {quote, signature}
MCLogicLeaks == {quote}
MCCodeLeaks  == {signature}
MCBuckets == {"ACCEPTED", "WRONG_ANSWER", "INFRA_ERROR"}
OneWorker == {w1}
TwoWorkers == {w1, w2}
TextSymmetry == Permutations(MCTexts2)
WorkerSymmetry == Permutations(TwoWorkers)
=============================================================================
