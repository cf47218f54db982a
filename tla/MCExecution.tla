----------------------------- MODULE MCExecution -----------------------------
(* Constants for the runs of Execution: one result for each row of the table *)
(* that BucketMapper tells apart.                                            *)
EXTENDS Execution

Result(id, syntax, matches) == [statusId |-> id, syntax |-> syntax, matches |-> matches]

MCLocalAnswers ==
  {Result(3, FALSE, TRUE), Result(3, FALSE, FALSE), Result(5, FALSE, FALSE),
   Result(11, TRUE, FALSE), Result(11, FALSE, FALSE), Result(13, FALSE, FALSE)}

MCHostedAnswers ==
  MCLocalAnswers \cup
    {Result(0, FALSE, TRUE), Result(1, FALSE, FALSE), Result(4, FALSE, FALSE), Result(6, TRUE, FALSE)}
=============================================================================
