---------------------------- MODULE BucketMapper ----------------------------
(***************************************************************************)
(* One bucket for a batch of test results (domain service,                 *)
(* exec/BucketMapper.java).  A result is its Judge0 status id, whether its *)
(* error text names a SyntaxError or an IndentationError, and whether its  *)
(* output equals the expected one up to surrounding white space.           *)
(***************************************************************************)
EXTENDS Naturals, Sequences

Results == [statusId : Nat, syntax : BOOLEAN, matches : BOOLEAN]

Pending(r)       == r.statusId \in {1, 2}
InternalError(r) == r.statusId \in {13, 14}
RuntimeError(r)  == r.statusId \in 7 .. 12
CompileError(r)  == r.statusId = 6
TimeExceeded(r)  == r.statusId = 5
LooksLikePythonSyntaxError(r) == RuntimeError(r) /\ r.syntax

\* What execute pairs a result with: Java compares the output itself, and only
\* of a test that finished normally.
OutputMatched(r) == r.statusId = 3 /\ r.matches

WrongAnswer(r) == r.statusId = 4 \/ (r.statusId = 3 /\ ~OutputMatched(r))

Any(results, Test(_)) == \E i \in DOMAIN results : Test(results[i])
All(results, Test(_)) == \A i \in DOMAIN results : Test(results[i])

\* Mutant: a runtime error is looked for before a syntax error.
BucketOfRuntimeFirst(results, timedOut) ==
  IF \/ results = << >> \/ timedOut
     \/ Any(results, Pending) \/ Any(results, InternalError) THEN "INFRA_ERROR"
  ELSE IF Any(results, RuntimeError) THEN "RUNTIME_ERROR"
  ELSE IF Any(results, CompileError) THEN "COMPILE_ERROR"
  ELSE IF Any(results, TimeExceeded) THEN "TLE"
  ELSE IF Any(results, WrongAnswer) THEN "WRONG_ANSWER"
  ELSE IF All(results, OutputMatched) THEN "ACCEPTED" ELSE "INFRA_ERROR"

\* Mutant: what the table does not list is taken for a pass.
BucketOfDefaultsToPass(results, timedOut) ==
  IF \/ results = << >> \/ timedOut
     \/ Any(results, Pending) \/ Any(results, InternalError) THEN "INFRA_ERROR"
  ELSE IF Any(results, LooksLikePythonSyntaxError) THEN "COMPILE_ERROR"
  ELSE IF Any(results, CompileError) THEN "COMPILE_ERROR"
  ELSE IF Any(results, RuntimeError) THEN "RUNTIME_ERROR"
  ELSE IF Any(results, TimeExceeded) THEN "TLE"
  ELSE IF Any(results, WrongAnswer) THEN "WRONG_ANSWER"
  ELSE "ACCEPTED"

\* The table, tried from the top.
BucketOf(results, timedOut) ==
  IF \/ results = << >>
     \/ timedOut
     \/ Any(results, Pending)
     \/ Any(results, InternalError) THEN "INFRA_ERROR"
  ELSE IF Any(results, LooksLikePythonSyntaxError) THEN "COMPILE_ERROR"
  ELSE IF Any(results, CompileError) THEN "COMPILE_ERROR"
  ELSE IF Any(results, RuntimeError) THEN "RUNTIME_ERROR"
  ELSE IF Any(results, TimeExceeded) THEN "TLE"
  ELSE IF Any(results, WrongAnswer) THEN "WRONG_ANSWER"
  ELSE IF All(results, OutputMatched) THEN "ACCEPTED"
  ELSE "INFRA_ERROR"

-----------------------------------------------------------------------------
(* The reference: each test has a severity of its own, the smaller the worse. *)

Severity(r) ==
  CASE Pending(r) \/ InternalError(r)                      -> 1
    [] CompileError(r) \/ LooksLikePythonSyntaxError(r)    -> 2
    [] RuntimeError(r) /\ ~LooksLikePythonSyntaxError(r)   -> 3
    [] TimeExceeded(r)                                     -> 4
    [] WrongAnswer(r)                                      -> 5
    [] r.statusId = 0 \/ r.statusId > 14                   -> 6
    [] OutputMatched(r)                                    -> 7

BucketForSeverity ==
  <<"INFRA_ERROR", "COMPILE_ERROR", "RUNTIME_ERROR", "TLE", "WRONG_ANSWER",
    "INFRA_ERROR", "ACCEPTED">>

\* The bucket is the one of a test none is worse than.
IsWorst(bucket, results) ==
  \E i \in DOMAIN results :
    /\ bucket = BucketForSeverity[Severity(results[i])]
    /\ \A j \in DOMAIN results : Severity(results[i]) <= Severity(results[j])

=============================================================================
