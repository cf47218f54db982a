----------------------------- MODULE Execution -----------------------------
(***************************************************************************)
(* One run of a student's code: POST /internal/execute of the domain       *)
(* service (web/InternalController.java, exec/ExecutionService.java), the  *)
(* hosted sandbox behind it (judge0/Judge0Client.java), and the            *)
(* orchestrator's client that waits for the answer                         *)
(* (orchestrator/app/domain_client.py, nodes/execute_code.py).             *)
(* Judge0 itself is not part of the repository: a poll may see any results *)
(* it can give, in the order of the submissions, and a test that has       *)
(* finished stays as it is.  The service keeps no state between requests,  *)
(* so one request is the whole story.                                      *)
(***************************************************************************)
EXTENDS BucketMapper, FiniteSets

CONSTANTS
  TestCount,    \* hidden tests of the problem
  HostedAnswers,\* what a run considers of the results Judge0 may give
  LocalAnswers, \* the same for the local sandbox
  MaxPolls      \* logistream.judge0.max-polls, 15 in production

\* The local sandbox answers with four status ids only.
ASSUME ExecutionAssumption ==
  /\ TestCount \in Nat \ {0}
  /\ HostedAnswers \subseteq Results
  /\ LocalAnswers \subseteq {r \in Results : r.statusId \in {3, 5, 11, 13}}
  /\ MaxPolls \in Nat \ {0}

VARIABLES
  mode,      \* logistream.executor.mode
  request,   \* what was asked for
  pc,        \* where the service is with it
  batch,     \* 1, or 2 once the infra retry is used
  polls,     \* polls of this batch
  billed,    \* requests sent to Judge0 for this run
  results,   \* of the last poll, or of the local batch
  timedOut,  \* whether the batch ran out of polls
  response,  \* what the service answers
  client     \* what execute_code has learned, "waiting" before it does

upstream == <<polls, billed, results, timedOut>>
vars == <<mode, request, pc, batch, polls, billed, results, timedOut, response, client>>

Buckets == {"ACCEPTED", "WRONG_ANSWER", "RUNTIME_ERROR", "TLE", "COMPILE_ERROR", "INFRA_ERROR"}

\* An execute response; judged says whether its tests carry status ids, which
\* they do unless the sandbox failed as a whole.
Responses  == [http : {200}, bucket : Buckets, passed : Nat, judged : BOOLEAN]
Refusal(http) == [http |-> http, bucket |-> "none", passed |-> 0, judged |-> FALSE]
NoResponse == Refusal(0)
AllResponses == Responses \cup {Refusal(http) : http \in {0, 400, 404, 500}}

TypeOK ==
  /\ mode \in {"LOCAL", "JUDGE0"}
  /\ request \in {"runnable", "invalid", "unknown", "untested"}
  /\ pc \in {"received", "submit", "poll", "outcome", "done"}
  /\ batch \in {1, 2}
  /\ polls \in 0 .. MaxPolls
  /\ billed \in Nat
  /\ results \in Seq(Results) /\ Len(results) <= TestCount
  /\ timedOut \in BOOLEAN
  /\ response \in AllResponses
  /\ client \in Buckets \cup {"waiting"}

Init ==
  /\ mode \in {"LOCAL", "JUDGE0"}
  /\ request \in {"runnable", "invalid", "unknown", "untested"}
  /\ pc = "received"
  /\ batch = 1
  /\ polls = 0
  /\ billed = 0
  /\ results = << >>
  /\ timedOut = FALSE
  /\ response = NoResponse
  /\ client = "waiting"

-----------------------------------------------------------------------------
Respond(r) == pc' = "done" /\ response' = r

\* A sandbox failure is not the student's fault.
InfraError ==
  Respond([http |-> 200, bucket |-> "INFRA_ERROR", passed |-> 0, judged |-> FALSE])

\* execute of the controller: what is malformed, unknown or without tests is
\* refused before anything is submitted.
Receive ==
  /\ pc = "received"
  /\ \/ request = "invalid"  /\ Respond(Refusal(400))
     \/ request = "unknown"  /\ Respond(Refusal(404))
     \/ request = "untested" /\ Respond(Refusal(500))
     \/ request = "runnable" /\ pc' = "submit" /\ UNCHANGED response
  /\ UNCHANGED <<mode, request, batch, upstream, client>>

\* The local sandbox runs the tests one after the other, for free; it throws
\* when it cannot even make a directory for one.
RunLocal ==
  /\ pc = "submit" /\ mode = "LOCAL"
  /\ \/ /\ results' \in [1 .. TestCount -> LocalAnswers]
        /\ timedOut' = FALSE
        /\ pc' = "outcome"
        /\ UNCHANGED response
     \/ InfraError /\ UNCHANGED <<results, timedOut>>
  /\ UNCHANGED <<mode, request, batch, polls, billed, client>>

\* Every request is billed, whatever comes back.
Bill == billed' = billed + 1

\* The whole batch in one request; a bad status, a body that is no token array
\* or a missing token throws.
Submit ==
  /\ pc = "submit" /\ mode = "JUDGE0"
  /\ Bill
  /\ \/ pc' = "poll" /\ UNCHANGED response
     \/ InfraError
  /\ polls' = 0
  /\ results' = << >>
  /\ timedOut' = FALSE
  /\ UNCHANGED <<mode, request, batch, client>>

\* What a poll may return: an answer for every submission, those that had
\* finished unchanged, or fewer answers than submissions.
Polled ==
  LET whole == {r \in [1 .. TestCount -> HostedAnswers] :
                  \A i \in DOMAIN results : ~Pending(results[i]) => r[i] = results[i]}
  IN  whole \cup {SubSeq(r, 1, TestCount - 1) : r \in whole}

\* Mutant: a batch still pending after the last poll is never given up.
PollNoTimeout ==
  /\ pc = "poll" /\ polls < MaxPolls
  /\ Bill
  /\ polls' = polls + 1
  /\ \/ /\ results' \in Polled
        /\ timedOut' = Any(results', Pending)
        /\ pc' = IF timedOut' THEN "poll" ELSE "outcome"
        /\ UNCHANGED response
     \/ InfraError /\ UNCHANGED <<results, timedOut>>
  /\ UNCHANGED <<mode, request, batch, client>>

\* Sleep, poll, and stop when nothing is pending or the polls are used up; a
\* bad status or body throws.
Poll ==
  /\ pc = "poll"
  /\ Bill
  /\ polls' = polls + 1
  /\ \/ /\ results' \in Polled
        /\ LET finished == ~Any(results', Pending)
           IN  /\ pc' = IF finished \/ polls' = MaxPolls THEN "outcome" ELSE "poll"
               /\ timedOut' = ~finished
        /\ UNCHANGED response
     \/ InfraError /\ UNCHANGED <<results, timedOut>>
  /\ UNCHANGED <<mode, request, batch, client>>

\* The thread is interrupted in the sleep before a poll (shutdown).
Interrupted ==
  /\ pc = "poll"
  /\ InfraError
  /\ UNCHANGED <<mode, request, batch, upstream, client>>

NeedsInfraRetry == batch = 1 /\ Any(results, InternalError)

\* Mutant: the second batch is retried as well.
InfraRetryAgain ==
  /\ pc = "outcome"
  /\ Any(results, InternalError)
  /\ batch' = 2
  /\ pc' = "submit"
  /\ UNCHANGED <<mode, request, upstream, response, client>>

\* The one retry in the system: the whole batch, once.
InfraRetry ==
  /\ pc = "outcome"
  /\ NeedsInfraRetry
  /\ batch' = 2
  /\ pc' = "submit"
  /\ UNCHANGED <<mode, request, upstream, response, client>>

Passed == Cardinality({i \in DOMAIN results : OutputMatched(results[i])})

Judged == Respond([http |-> 200, bucket |-> BucketOf(results, timedOut),
                   passed |-> Passed, judged |-> TRUE])

\* Mutant: the number of results is not compared with the number of tests.
ScoreWhatCame ==
  /\ pc = "outcome"
  /\ ~NeedsInfraRetry
  /\ Judged
  /\ UNCHANGED <<mode, request, batch, upstream, client>>

\* The results become one bucket, unless some are missing.
Score ==
  /\ pc = "outcome"
  /\ ~NeedsInfraRetry
  /\ IF Len(results) # TestCount THEN InfraError ELSE Judged
  /\ UNCHANGED <<mode, request, batch, upstream, client>>

\* Mutant: the status of the response is not looked at.
AnswerUnchecked ==
  /\ pc = "done" /\ client = "waiting"
  /\ client' = response.bucket
  /\ UNCHANGED <<mode, request, pc, batch, upstream, response>>

\* execute_code reads the bucket; any other status is an infrastructure error.
Answer ==
  /\ pc = "done" /\ client = "waiting"
  /\ client' = IF response.http = 200 THEN response.bucket ELSE "INFRA_ERROR"
  /\ UNCHANGED <<mode, request, pc, batch, upstream, response>>

\* The service cannot be reached, or 180 s have passed: the client stops
\* waiting, and the service, if it has the request, goes on with it.
GiveUp ==
  /\ client = "waiting"
  /\ client' = "INFRA_ERROR"
  /\ UNCHANGED <<mode, request, pc, batch, upstream, response>>

\* The steps that end within a time of their own.
TimedStep ==
  \/ Receive
  \/ Submit
  \/ Poll
  \/ InfraRetry
  \/ Score

ServiceStep == TimedStep \/ RunLocal

Next == ServiceStep \/ Interrupted \/ Answer \/ GiveUp

Spec == Init /\ [][Next]_vars

\* A request to Judge0 ends after 60 s, a finished response is read.  Nobody owes
\* an interrupt or a client that gives up; nor does the local sandbox owe its
\* results: runOne may block before its deadline starts, or in its joins.
FairSpec == Spec /\ WF_vars(TimedStep) /\ WF_vars(Answer)

-----------------------------------------------------------------------------
\* "Worst wins, in the table's order" (BucketMapper): a run that was judged has
\* a result for every test, and its bucket is that of the worst single one,
\* wherever it stands in the batch and whatever the first batch had said.
WorstWins ==
  response.judged =>
    Len(results) = TestCount /\ IsWorst(response.bucket, results)

\* The two ways to tell that code is right agree: the bucket is ACCEPTED exactly
\* when every test of the problem passed.
AcceptedMeansAllPassed ==
  response.http = 200 => (response.bucket = "ACCEPTED" <=> response.passed = TestCount)

\* "A sandbox failure is not the student's fault; the attempt must not count"
\* (ExecutionService): what execute_code counts as an attempt was judged on a
\* complete batch without an internal error, whether the service retried,
\* timed out or answered after the client had given up.
OnlyJudgedRunsCount ==
  client \notin {"waiting", "INFRA_ERROR"} =>
    /\ client = response.bucket
    /\ Len(results) = TestCount
    /\ ~timedOut
    /\ ~Any(results, InternalError) /\ ~Any(results, Pending)

\* The quota a run can cost: a batch is one submit and at most max-polls polls,
\* and there are at most two batches; the local sandbox is free.
QuotaKept ==
  /\ billed <= batch * (1 + MaxPolls)
  /\ mode = "LOCAL" => billed = 0

\* The service comes to an end with a request, also when nobody waits for it any
\* more, retries and polls included; only the local sandbox can hold it up for good.
EveryRunEnds == <>(pc = "done") \/ <>[](mode = "LOCAL" /\ pc = "submit")

=============================================================================
