-------------------------- MODULE ExecutionProofs --------------------------
(***************************************************************************)
(* Proofs about BucketMapper and Execution for every number of tests, any  *)
(* answers of the sandboxes and every limit of polls.                      *)
(***************************************************************************)
EXTENDS Execution, SequenceTheorems, FiniteSetTheorems, TLAPS

-----------------------------------------------------------------------------
(* The bucket table *)

\* The rows of the severity table, as equivalences.
LEMMA SeverityRows ==
  ASSUME NEW r \in Results
  PROVE  /\ Severity(r) \in 1 .. 7
         /\ Severity(r) = 1 <=> Pending(r) \/ InternalError(r)
         /\ Severity(r) = 2 <=> CompileError(r) \/ LooksLikePythonSyntaxError(r)
         /\ Severity(r) = 3 <=> RuntimeError(r) /\ ~LooksLikePythonSyntaxError(r)
         /\ Severity(r) = 4 <=> TimeExceeded(r)
         /\ Severity(r) = 5 <=> WrongAnswer(r)
         /\ Severity(r) = 7 <=> OutputMatched(r)
<1>1. r.statusId \in Nat /\ r.syntax \in BOOLEAN /\ r.matches \in BOOLEAN
  BY DEF Results
<1> DEFINE n == r.statusId
<1>2. CASE n \in {1, 2, 13, 14}
  BY <1>1, <1>2 DEF Severity, Pending, InternalError, RuntimeError, CompileError,
     TimeExceeded, WrongAnswer, LooksLikePythonSyntaxError, OutputMatched
<1>3. CASE n \in {3, 4, 5, 6}
  BY <1>1, <1>3 DEF Severity, Pending, InternalError, RuntimeError, CompileError,
     TimeExceeded, WrongAnswer, LooksLikePythonSyntaxError, OutputMatched
<1>4. CASE n \in 7 .. 12
  BY <1>1, <1>4 DEF Severity, Pending, InternalError, RuntimeError, CompileError,
     TimeExceeded, WrongAnswer, LooksLikePythonSyntaxError, OutputMatched
<1>5. CASE n = 0 \/ n > 14
  BY <1>1, <1>5 DEF Severity, Pending, InternalError, RuntimeError, CompileError,
     TimeExceeded, WrongAnswer, LooksLikePythonSyntaxError, OutputMatched
<1> QED
  BY <1>1, <1>2, <1>3, <1>4, <1>5

\* A bucket some test stands for, no other test being worse, is a worst bucket.
LEMMA WorstOf ==
  ASSUME NEW rs \in Seq(Results), NEW bucket, NEW n \in 1 .. 7,
         bucket = BucketForSeverity[n],
         \E i \in DOMAIN rs : Severity(rs[i]) = n,
         \A j \in DOMAIN rs : Severity(rs[j]) >= n
  PROVE  IsWorst(bucket, rs)
BY DEF IsWorst

\* "Worst wins, in the table's order" (bucketOf): the table, tried from the top
\* over the whole batch, finds the bucket of the worst single test.  A batch
\* that timed out has a test still pending.
THEOREM TableFindsWorst ==
  ASSUME NEW rs \in Seq(Results), rs # << >>,
         NEW late \in BOOLEAN, late => Any(rs, Pending)
  PROVE  IsWorst(BucketOf(rs, late), rs)
<1> DEFINE sev(i) == Severity(rs[i])
           has(n) == \E i \in DOMAIN rs : sev(i) = n
           b == BucketOf(rs, late)
<1>1. \A i \in DOMAIN rs : rs[i] \in Results
  OBVIOUS
<1>2. 1 \in DOMAIN rs
  BY EmptySeq, LenProperties
<1>3. \A i \in DOMAIN rs :
        /\ sev(i) \in 1 .. 7
        /\ sev(i) = 1 <=> Pending(rs[i]) \/ InternalError(rs[i])
        /\ sev(i) = 2 <=> CompileError(rs[i]) \/ LooksLikePythonSyntaxError(rs[i])
        /\ sev(i) = 3 <=> RuntimeError(rs[i]) /\ ~LooksLikePythonSyntaxError(rs[i])
        /\ sev(i) = 4 <=> TimeExceeded(rs[i])
        /\ sev(i) = 5 <=> WrongAnswer(rs[i])
        /\ sev(i) = 7 <=> OutputMatched(rs[i])
  BY <1>1, SeverityRows
<1> HIDE DEF sev
<1>a. /\ has(1) <=> Any(rs, Pending) \/ Any(rs, InternalError)
      /\ has(2) <=> \/ Any(rs, LooksLikePythonSyntaxError)
                    \/ Any(rs, CompileError)
      /\ has(4) <=> Any(rs, TimeExceeded)
      /\ has(5) <=> Any(rs, WrongAnswer)
  BY <1>3 DEF Any
<1>b. ~has(2) => (has(3) <=> Any(rs, RuntimeError))
  BY <1>3 DEF Any
<1>c. All(rs, OutputMatched) <=> \A i \in DOMAIN rs : sev(i) = 7
  BY <1>3 DEF All
<1>4. CASE has(1)
  <2>1. b = "INFRA_ERROR"
    BY <1>4, <1>a DEF BucketOf
  <2> QED
    BY <2>1, <1>4, <1>3, WorstOf DEF BucketForSeverity, sev
<1>5. CASE ~has(1) /\ has(2)
  <2>1. b = "COMPILE_ERROR"
    BY <1>5, <1>a DEF BucketOf
  <2>2. \A i \in DOMAIN rs : sev(i) >= 2
    BY <1>5, <1>3
  <2> QED
    BY <2>1, <2>2, <1>5, WorstOf DEF BucketForSeverity, sev
<1>6. CASE ~has(1) /\ ~has(2) /\ has(3)
  <2>1. b = "RUNTIME_ERROR"
    BY <1>6, <1>a, <1>b DEF BucketOf
  <2>2. \A i \in DOMAIN rs : sev(i) >= 3
    BY <1>6, <1>3
  <2> QED
    BY <2>1, <2>2, <1>6, WorstOf DEF BucketForSeverity, sev
<1>7. CASE ~has(1) /\ ~has(2) /\ ~has(3) /\ has(4)
  <2>1. b = "TLE"
    BY <1>7, <1>a, <1>b DEF BucketOf
  <2>2. \A i \in DOMAIN rs : sev(i) >= 4
    BY <1>7, <1>3
  <2> QED
    BY <2>1, <2>2, <1>7, WorstOf DEF BucketForSeverity, sev
<1>8. CASE ~has(1) /\ ~has(2) /\ ~has(3) /\ ~has(4) /\ has(5)
  <2>1. b = "WRONG_ANSWER"
    BY <1>8, <1>a, <1>b DEF BucketOf
  <2>2. \A i \in DOMAIN rs : sev(i) >= 5
    BY <1>8, <1>3
  <2> QED
    BY <2>1, <2>2, <1>8, WorstOf DEF BucketForSeverity, sev
<1>9. CASE ~has(1) /\ ~has(2) /\ ~has(3) /\ ~has(4) /\ ~has(5) /\ has(6)
  <2>1. b = "INFRA_ERROR"
    BY <1>9, <1>a, <1>b, <1>c DEF BucketOf
  <2>2. \A i \in DOMAIN rs : sev(i) >= 6
    BY <1>9, <1>3
  <2> QED
    BY <2>1, <2>2, <1>9, WorstOf DEF BucketForSeverity, sev
<1>10. CASE ~has(1) /\ ~has(2) /\ ~has(3) /\ ~has(4) /\ ~has(5) /\ ~has(6)
  <2>1. \A i \in DOMAIN rs : sev(i) = 7
    BY <1>10, <1>3
  <2>2. b = "ACCEPTED"
    BY <2>1, <1>10, <1>a, <1>b, <1>c DEF BucketOf
  <2> QED
    BY <2>1, <2>2, <1>2, WorstOf DEF BucketForSeverity, sev
<1> QED
  BY <1>4, <1>5, <1>6, <1>7, <1>8, <1>9, <1>10

-----------------------------------------------------------------------------
(* The inductive invariant of a run *)

\* What has been billed when: nothing before the first submit, and in a batch
\* one submit and the polls so far.
BilledSoFar ==
  /\ pc = "received" => batch = 1 /\ billed = 0
  /\ pc = "submit" => billed <= (batch - 1) * (1 + MaxPolls)
  /\ pc = "poll" =>
       /\ mode = "JUDGE0"
       /\ polls < MaxPolls
       /\ billed <= (batch - 1) * (1 + MaxPolls) + 1 + polls
  /\ QuotaKept

\* Where a response comes from.
ResponseFits ==
  /\ response.http # 0 => pc = "done"
  /\ response.judged =>
       /\ response.http = 200
       /\ Len(results) = TestCount
       /\ response.bucket = BucketOf(results, timedOut)
       /\ response.passed = Passed
  /\ response.http = 200 /\ ~response.judged =>
       response.bucket = "INFRA_ERROR" /\ response.passed = 0

\* The client knows what the service answered, or made up an infra error.
ClientFits ==
  client \notin {"waiting", "INFRA_ERROR"} =>
    response.http = 200 /\ client = response.bucket

IInv ==
  /\ TypeOK
  /\ BilledSoFar
  /\ timedOut => Any(results, Pending)
  /\ ResponseFits
  /\ ClientFits

-----------------------------------------------------------------------------
(* Lemmas *)

LEMMA BatchIsSeq ==
  ASSUME NEW A, A \subseteq Results, NEW n \in Nat, NEW r \in [1 .. n -> A]
  PROVE  r \in Seq(Results) /\ Len(r) = n
<1>1. r \in Seq(A)
  BY SeqDef
<1>2. Len(r) = n
  BY <1>1, LenProperties
<1> QED
  BY <1>1, <1>2, SeqMonotonic

LEMMA PolledIsSeq ==
  ASSUME NEW r \in Polled
  PROVE  r \in Seq(Results) /\ Len(r) <= TestCount
<1> USE ExecutionAssumption
<1>1. CASE r \in [1 .. TestCount -> HostedAnswers]
  BY <1>1, BatchIsSeq
<1>2. CASE \E q \in [1 .. TestCount -> HostedAnswers] : r = SubSeq(q, 1, TestCount - 1)
  <2>1. PICK q \in [1 .. TestCount -> HostedAnswers] : r = SubSeq(q, 1, TestCount - 1)
    BY <1>2
  <2>2. \A i \in 1 .. TestCount - 1 : q[i] \in Results
    BY <2>1
  <2>3. SubSeq(q, 1, TestCount - 1) \in Seq(Results)
        /\ Len(SubSeq(q, 1, TestCount - 1)) = IF 1 <= TestCount - 1 THEN TestCount - 1 ELSE 0
    <3>1. 1 \in Int /\ TestCount - 1 \in Int
      OBVIOUS
    <3> HIDE DEF Results
    <3> QED
      BY <2>2, <3>1, SubSeqProperties
  <2> QED
    BY <2>1, <2>3
<1> QED
  BY <1>1, <1>2 DEF Polled

\* The tests that passed are counted right.
LEMMA PassedCount ==
  ASSUME results \in Seq(Results)
  PROVE  /\ Passed \in Nat
         /\ Passed = Len(results) <=> All(results, OutputMatched)
<1> DEFINE P == {i \in DOMAIN results : OutputMatched(results[i])}
<1>1. Len(results) \in Nat /\ DOMAIN results = 1 .. Len(results)
  BY LenProperties
<1>2. IsFiniteSet(1 .. Len(results)) /\ Cardinality(1 .. Len(results)) = Len(results)
  BY <1>1, FS_Interval
<1>3. /\ IsFiniteSet(P)
      /\ Cardinality(1 .. Len(results)) = Cardinality(P) => 1 .. Len(results) = P
  BY <1>1, <1>2, FS_Subset
<1>4. Cardinality(P) \in Nat
  BY <1>3, FS_CardinalityType
<1>5. P = 1 .. Len(results) <=> All(results, OutputMatched)
  BY <1>1 DEF All
<1> QED
  BY <1>2, <1>3, <1>4, <1>5 DEF Passed

LEMMA BucketType ==
  ASSUME NEW rs, NEW late
  PROVE  BucketOf(rs, late) \in Buckets
BY DEF BucketOf, Buckets

-----------------------------------------------------------------------------
(* The invariant is inductive *)

LEMMA ResponseTypes ==
  /\ \A http \in {0, 400, 404, 500} : Refusal(http) \in AllResponses
  /\ [http |-> 200, bucket |-> "INFRA_ERROR", passed |-> 0, judged |-> FALSE] \in AllResponses
  /\ Responses \subseteq AllResponses
  /\ \A r \in AllResponses :
       r.http = 200 => r.bucket \in Buckets /\ r.passed \in Nat /\ r.judged \in BOOLEAN
BY DEF AllResponses, Responses, Buckets, Refusal

LEMMA InitIInv == Init => IInv
<1> SUFFICES ASSUME Init PROVE IInv
  OBVIOUS
<1>1. results \in Seq(Results) /\ Len(results) <= TestCount
  BY EmptySeq, ExecutionAssumption DEF Init
<1>2. response \in AllResponses /\ response.http = 0 /\ ~response.judged
  BY ResponseTypes DEF Init, NoResponse, Refusal
<1>3. TypeOK
  <2> HIDE DEF Results
  <2>1. polls \in 0 .. MaxPolls /\ billed \in Nat
    BY ExecutionAssumption DEF Init
  <2> QED
    BY <1>1, <1>2, <2>1 DEF Init, TypeOK
<1>4. BilledSoFar
  BY ExecutionAssumption DEF Init, BilledSoFar, QuotaKept
<1> QED
  BY <1>2, <1>3, <1>4 DEF Init, IInv, ResponseFits, ClientFits

\* A response as the actions write it: none, a refusal, a failure, or a judgement.
FailureResponse ==
  [http |-> 200, bucket |-> "INFRA_ERROR", passed |-> 0, judged |-> FALSE]

LEMMA NextTypeOK == TypeOK /\ (pc = "poll" => polls < MaxPolls) /\ [Next]_vars => TypeOK'
<1> SUFFICES ASSUME TypeOK, pc = "poll" => polls < MaxPolls, [Next]_vars PROVE TypeOK'
  OBVIOUS
<1> USE ExecutionAssumption
<1> USE DEF TypeOK, upstream
<1>0. FailureResponse \in AllResponses
  BY ResponseTypes DEF FailureResponse
<1>1. CASE Receive
  <2>1. response' \in AllResponses
    BY <1>1, ResponseTypes DEF Receive, Respond
  <2> QED
    BY <1>1, <2>1 DEF Receive, Respond
<1>2. CASE RunLocal
  <2>1. results' \in Seq(Results) /\ Len(results') <= TestCount
    BY <1>2, BatchIsSeq DEF RunLocal
  <2>2. response' \in AllResponses /\ pc' \in {"outcome", "done"}
    BY <1>0, <1>2 DEF RunLocal, InfraError, Respond, FailureResponse
  <2>3. timedOut' \in BOOLEAN /\ UNCHANGED <<mode, request, batch, polls, billed, client>>
    BY <1>2 DEF RunLocal
  <2> QED
    BY <2>1, <2>2, <2>3
<1>3. CASE Submit
  <2>1. results' \in Seq(Results) /\ Len(results') <= TestCount
    BY <1>3, EmptySeq DEF Submit
  <2>2. billed' \in Nat /\ polls' \in 0 .. MaxPolls
    BY <1>3 DEF Submit, Bill
  <2>3. response' \in AllResponses /\ pc' \in {"poll", "done"}
    BY <1>0, <1>3 DEF Submit, InfraError, Respond, FailureResponse
  <2>4. timedOut' \in BOOLEAN /\ UNCHANGED <<mode, request, batch, client>>
    BY <1>3 DEF Submit
  <2> QED
    BY <2>1, <2>2, <2>3, <2>4
<1>4. CASE Poll
  <2>1. results' \in Seq(Results) /\ Len(results') <= TestCount
    BY <1>4, PolledIsSeq DEF Poll
  <2>2. billed' \in Nat /\ polls' \in 0 .. MaxPolls
    BY <1>4 DEF Poll, Bill
  <2>3. timedOut' \in BOOLEAN /\ UNCHANGED <<mode, request, batch, client>>
    BY <1>4 DEF Poll
  <2>4. response' \in AllResponses /\ pc' \in {"poll", "outcome", "done"}
    BY <1>0, <1>4 DEF Poll, InfraError, Respond, FailureResponse
  <2> QED
    BY <2>1, <2>2, <2>3, <2>4
<1>5. CASE Interrupted
  BY <1>0, <1>5 DEF Interrupted, InfraError, Respond, FailureResponse
<1>6. CASE InfraRetry
  BY <1>6 DEF InfraRetry, NeedsInfraRetry
<1>7. CASE Score
  <2>1. Passed \in Nat /\ BucketOf(results, timedOut) \in Buckets
    BY PassedCount, BucketType
  <2>2. [http |-> 200, bucket |-> BucketOf(results, timedOut), passed |-> Passed,
         judged |-> TRUE] \in AllResponses
    BY <2>1, ResponseTypes DEF Responses
  <2>3. response' \in AllResponses /\ pc' = "done"
    BY <1>0, <1>7, <2>2 DEF Score, InfraError, Judged, Respond, FailureResponse
  <2> QED
    BY <1>7, <2>3 DEF Score
<1>8. CASE Answer
  BY <1>8, ResponseTypes DEF Answer, Buckets
<1>9. CASE GiveUp
  BY <1>9 DEF GiveUp, Buckets
<1>10. CASE UNCHANGED vars
  BY <1>10 DEF vars
<1> QED
  BY <1>1, <1>2, <1>3, <1>4, <1>5, <1>6, <1>7, <1>8, <1>9, <1>10
  DEF Next, ServiceStep, TimedStep

\* Each step bills what it may.
LEMMA NextBilled == TypeOK /\ BilledSoFar /\ [Next]_vars => BilledSoFar'
<1> SUFFICES ASSUME TypeOK, BilledSoFar, [Next]_vars PROVE BilledSoFar'
  OBVIOUS
<1> USE ExecutionAssumption
<1>t. batch \in {1, 2} /\ polls \in Nat /\ billed \in Nat /\ MaxPolls \in Nat \ {0}
      /\ mode \in {"LOCAL", "JUDGE0"}
  BY DEF TypeOK
<1> USE DEF BilledSoFar, QuotaKept, upstream
<1>1. CASE Receive
  BY <1>1, <1>t DEF Receive, Respond
<1>2. CASE RunLocal
  BY <1>2, <1>t DEF RunLocal, InfraError, Respond
<1>3. CASE Submit
  <2>1. CASE batch = 1
    BY <1>3, <1>t, <2>1 DEF Submit, Bill, InfraError, Respond
  <2>2. CASE batch = 2
    BY <1>3, <1>t, <2>2 DEF Submit, Bill, InfraError, Respond
  <2> QED
    BY <1>t, <2>1, <2>2
<1>4. CASE Poll
  <2>1. /\ pc' \in {"poll", "outcome", "done"} /\ (pc' = "poll" => polls' # MaxPolls)
        /\ polls' = polls + 1 /\ billed' = billed + 1 /\ UNCHANGED <<mode, batch>>
        /\ pc = "poll"
    BY <1>4 DEF Poll, Bill, InfraError, Respond
  <2>2. CASE batch = 1
    BY <1>t, <2>1, <2>2
  <2>3. CASE batch = 2
    BY <1>t, <2>1, <2>3
  <2> QED
    BY <1>t, <2>2, <2>3
<1>5. CASE Interrupted
  BY <1>5, <1>t DEF Interrupted, InfraError, Respond
<1>6. CASE InfraRetry
  BY <1>6, <1>t DEF InfraRetry, NeedsInfraRetry
<1>7. CASE Score
  BY <1>7, <1>t DEF Score, InfraError, Judged, Respond
<1>8. CASE Answer
  BY <1>8 DEF Answer
<1>9. CASE GiveUp
  BY <1>9 DEF GiveUp
<1>10. CASE UNCHANGED vars
  BY <1>10 DEF vars
<1> QED
  BY <1>1, <1>2, <1>3, <1>4, <1>5, <1>6, <1>7, <1>8, <1>9, <1>10
  DEF Next, ServiceStep, TimedStep

\* A response is written once, from the results at hand, and then read.
LEMMA NextFits == IInv /\ [Next]_vars =>
                    ResponseFits' /\ ClientFits' /\ (timedOut' => Any(results, Pending)')
<1> SUFFICES ASSUME IInv, [Next]_vars
             PROVE  ResponseFits' /\ ClientFits' /\ (timedOut' => Any(results, Pending)')
  OBVIOUS
<1>t. response.http = 200 => response.judged \in BOOLEAN
  BY ResponseTypes DEF IInv, TypeOK
<1>r. /\ ResponseFits /\ ClientFits
      /\ timedOut => Any(results, Pending)
  BY DEF IInv
<1> USE DEF ResponseFits, ClientFits, upstream
<1>1. CASE Receive
  BY <1>1, <1>r DEF Receive, Respond, Refusal
<1>2. CASE RunLocal
  BY <1>2, <1>r DEF RunLocal, InfraError, Respond
<1>3. CASE Submit
  BY <1>3, <1>r DEF Submit, InfraError, Respond
<1>4. CASE Poll
  <2>1. response.http = 0 /\ ~response.judged /\ UNCHANGED client
    BY <1>4, <1>r DEF Poll
  <2>2. \/ (timedOut' => Any(results, Pending)') /\ UNCHANGED response
        \/ /\ UNCHANGED <<results, timedOut>>
           /\ response' = FailureResponse /\ pc' = "done"
    BY <1>4 DEF Poll, InfraError, Respond, FailureResponse, Any
  <2>3. CASE (timedOut' => Any(results, Pending)') /\ UNCHANGED response
    BY <1>r, <2>1, <2>3
  <2>4. CASE UNCHANGED <<results, timedOut>> /\ response' = FailureResponse /\ pc' = "done"
    BY <1>r, <2>1, <2>4 DEF FailureResponse, Any
  <2> QED
    BY <2>2, <2>3, <2>4
<1>5. CASE Interrupted
  BY <1>5, <1>r DEF Interrupted, InfraError, Respond
<1>6. CASE InfraRetry
  BY <1>6, <1>r DEF InfraRetry
<1>7. CASE Score
  <2>1. UNCHANGED <<results, timedOut, client>> /\ Passed' = Passed /\ pc = "outcome"
    BY <1>7 DEF Score, Passed
  <2>2. \/ response' = FailureResponse /\ pc' = "done"
        \/ /\ Len(results) = TestCount /\ pc' = "done"
           /\ response' = [http |-> 200, bucket |-> BucketOf(results, timedOut),
                           passed |-> Passed, judged |-> TRUE]
    BY <1>7 DEF Score, InfraError, Judged, Respond, FailureResponse
  <2> QED
    BY <1>r, <2>1, <2>2 DEF FailureResponse
<1>8. CASE Answer
  BY <1>8, <1>r DEF Answer, Passed
<1>9. CASE GiveUp
  BY <1>9, <1>r DEF GiveUp, Passed
<1>10. CASE UNCHANGED vars
  BY <1>10, <1>r DEF vars, Passed
<1> QED
  BY <1>1, <1>2, <1>3, <1>4, <1>5, <1>6, <1>7, <1>8, <1>9, <1>10
  DEF Next, ServiceStep, TimedStep

LEMMA NextIInv == IInv /\ [Next]_vars => IInv'
BY NextTypeOK, NextBilled, NextFits DEF IInv, BilledSoFar

\* Every reachable state satisfies the inductive invariant.
THEOREM RunInvariance == Spec => []IInv
BY InitIInv, NextIInv, PTL DEF Spec

\* The variables of a run keep their types.
THEOREM RunTypeCorrect == Spec => []TypeOK
<1>1. IInv => TypeOK
  BY DEF IInv
<1> QED
  BY <1>1, RunInvariance, PTL

\* Whatever is retried or lost on the way, a run never costs more than two
\* submits with their polls, and nothing locally.
THEOREM QuotaIsKept == Spec => []QuotaKept
<1>1. IInv => QuotaKept
  BY DEF IInv, BilledSoFar
<1> QED
  BY <1>1, RunInvariance, PTL

\* What a judged run answers is the bucket of its worst test.
THEOREM WorstTestDecides == Spec => []WorstWins
<1>1. IInv => WorstWins
  <2> SUFFICES ASSUME IInv, response.judged
               PROVE  Len(results) = TestCount /\ IsWorst(response.bucket, results)
    BY DEF WorstWins
  <2>1. /\ results \in Seq(Results) /\ timedOut \in BOOLEAN
        /\ Len(results) = TestCount /\ response.bucket = BucketOf(results, timedOut)
        /\ timedOut => Any(results, Pending)
    BY DEF IInv, TypeOK, ResponseFits
  <2>2. results # << >>
    BY <2>1, ExecutionAssumption, EmptySeq
  <2> QED
    BY <2>1, <2>2, TableFindsWorst
<1> QED
  BY <1>1, RunInvariance, PTL

\* The bucket and the number of passed tests never contradict each other.
THEOREM AcceptedIsAllPassed == Spec => []AcceptedMeansAllPassed
<1>1. IInv => AcceptedMeansAllPassed
  <2> SUFFICES ASSUME IInv, response.http = 200
               PROVE  response.bucket = "ACCEPTED" <=> response.passed = TestCount
    BY DEF AcceptedMeansAllPassed
  <2>1. CASE ~response.judged
    BY <2>1, ExecutionAssumption DEF IInv, ResponseFits
  <2>2. CASE response.judged
    <3>1. /\ results \in Seq(Results) /\ Len(results) = TestCount
          /\ response.bucket = BucketOf(results, timedOut) /\ response.passed = Passed
          /\ timedOut => Any(results, Pending)
      BY <2>2 DEF IInv, TypeOK, ResponseFits
    <3>2. response.passed = TestCount <=> All(results, OutputMatched)
      BY <3>1, PassedCount
    <3>3. BucketOf(results, timedOut) = "ACCEPTED" => All(results, OutputMatched)
      BY DEF BucketOf
    <3>4. results # << >>
      BY <3>1, ExecutionAssumption, EmptySeq
    <3>5. All(results, OutputMatched) => BucketOf(results, timedOut) = "ACCEPTED"
      BY <3>1, <3>4 DEF All, Any, BucketOf, OutputMatched, Pending, InternalError, WrongAnswer,
         RuntimeError, CompileError, TimeExceeded, LooksLikePythonSyntaxError
    <3> QED
      BY <3>1, <3>2, <3>3, <3>5
  <2> QED
    BY <2>1, <2>2
<1> QED
  BY <1>1, RunInvariance, PTL

\* An attempt is counted only for a complete batch without a sandbox failure.
THEOREM AttemptsAreJudged == Spec => []OnlyJudgedRunsCount
<1>1. IInv => OnlyJudgedRunsCount
  <2> SUFFICES ASSUME IInv, client \notin {"waiting", "INFRA_ERROR"}
               PROVE  /\ client = response.bucket
                      /\ Len(results) = TestCount
                      /\ ~timedOut
                      /\ ~Any(results, InternalError) /\ ~Any(results, Pending)
    BY DEF OnlyJudgedRunsCount
  <2>1. response.http = 200 /\ client = response.bucket /\ response.bucket # "INFRA_ERROR"
    BY DEF IInv, ClientFits
  <2>2. response.judged
    BY <2>1 DEF IInv, ResponseFits
  <2>3. Len(results) = TestCount /\ response.bucket = BucketOf(results, timedOut)
    BY <2>2 DEF IInv, ResponseFits
  <2>4. ~timedOut /\ ~Any(results, InternalError) /\ ~Any(results, Pending)
    BY <2>1, <2>3 DEF BucketOf
  <2> QED
    BY <2>1, <2>3, <2>4
<1> QED
  BY <1>1, RunInvariance, PTL

-----------------------------------------------------------------------------
(* How long a run can be *)

\* The steps of the service still ahead of a request, at most: a batch takes a
\* submit, its polls and a look at the outcome, and there may be a second one.
BatchSteps == MaxPolls + 2
StepsLeft ==
  CASE pc = "received" -> 2 * BatchSteps + 1
    [] pc = "done"     -> 0
    [] OTHER -> (IF batch = 1 THEN BatchSteps ELSE 0)
                + (CASE pc = "submit" -> BatchSteps
                     [] pc = "poll"   -> MaxPolls - polls + 1
                     [] OTHER         -> 1)

\* No step takes a run back, and every step of the service takes it on.
RunGoesOn ==
  [][StepsLeft' <= StepsLeft /\ (ServiceStep => StepsLeft' < StepsLeft)]_vars

LEMMA StepsLeftTyped ==
  IInv => /\ StepsLeft \in 0 .. 2 * BatchSteps + 1
          /\ StepsLeft = 0 <=> pc = "done"
<1> SUFFICES ASSUME IInv
             PROVE  StepsLeft \in 0 .. 2 * BatchSteps + 1 /\ (StepsLeft = 0 <=> pc = "done")
  OBVIOUS
<1>1. /\ MaxPolls \in Nat /\ polls \in 0 .. MaxPolls /\ batch \in {1, 2}
      /\ pc \in {"received", "submit", "poll", "outcome", "done"}
  BY ExecutionAssumption DEF IInv, TypeOK
<1> QED
  BY <1>1 DEF StepsLeft, BatchSteps

LEMMA ServiceGoesOn ==
  ASSUME IInv, IInv', ServiceStep
  PROVE  StepsLeft' < StepsLeft
<1> USE ExecutionAssumption DEF StepsLeft, BatchSteps
<1>1. /\ MaxPolls \in Nat /\ polls \in 0 .. MaxPolls /\ polls' \in 0 .. MaxPolls
      /\ batch \in {1, 2}
      /\ pc = "received" => batch = 1
      /\ pc = "poll" => polls < MaxPolls
  BY DEF IInv, TypeOK, BilledSoFar
<1>2. CASE Receive
  BY <1>1, <1>2 DEF Receive, Respond
<1>3. CASE RunLocal
  BY <1>1, <1>3 DEF RunLocal, InfraError, Respond
<1>4. CASE Submit
  BY <1>1, <1>4 DEF Submit, InfraError, Respond
<1>5. CASE Poll
  <2>1. pc = "poll" /\ polls' = polls + 1 /\ batch' = batch
        /\ pc' \in {"poll", "outcome", "done"}
    BY <1>5 DEF Poll, InfraError, Respond
  <2> QED
    BY <1>1, <2>1
<1>6. CASE InfraRetry
  BY <1>1, <1>6 DEF InfraRetry, NeedsInfraRetry
<1>7. CASE Score
  <2>1. pc = "outcome" /\ pc' = "done"
    BY <1>7 DEF Score, InfraError, Judged, Respond
  <2> QED
    BY <1>1, <2>1
<1> QED
  BY <1>2, <1>3, <1>4, <1>5, <1>6, <1>7 DEF ServiceStep, TimedStep

\* A request is answered after at most 2 * max-polls + 5 steps of the service,
\* whatever the sandbox says, whoever gives up, and however often it is retried.
THEOREM RunsAreShort ==
  Spec => [](StepsLeft <= 2 * MaxPolls + 5 /\ (StepsLeft = 0 <=> pc = "done")) /\ RunGoesOn
<1>1. IInv => StepsLeft <= 2 * MaxPolls + 5 /\ (StepsLeft = 0 <=> pc = "done")
  BY StepsLeftTyped, ExecutionAssumption DEF BatchSteps
<1>2. IInv /\ [Next]_vars => [StepsLeft' <= StepsLeft /\ (ServiceStep => StepsLeft' < StepsLeft)]_vars
  <2> SUFFICES ASSUME IInv, Next
               PROVE  StepsLeft' <= StepsLeft /\ (ServiceStep => StepsLeft' < StepsLeft)
    OBVIOUS
  <2>1. IInv'
    BY NextIInv
  <2>2. StepsLeft \in Int /\ StepsLeft' \in Int
    <3>1. /\ MaxPolls \in Nat /\ polls \in Nat /\ polls' \in Nat
          /\ pc \in {"received", "submit", "poll", "outcome", "done"}
          /\ pc' \in {"received", "submit", "poll", "outcome", "done"}
      BY <2>1, ExecutionAssumption DEF IInv, TypeOK
    <3> QED
      BY <3>1 DEF StepsLeft, BatchSteps
  <2>3. CASE ServiceStep
    BY <2>1, <2>2, <2>3, ServiceGoesOn
  <2>4. CASE Interrupted
    <3>1. pc = "poll" /\ pc' = "done"
      BY <2>4 DEF Interrupted, InfraError, Respond
    <3>2. StepsLeft >= 0 /\ StepsLeft' = 0
      BY <2>2, <3>1, StepsLeftTyped, ExecutionAssumption DEF StepsLeft, BatchSteps
    <3> QED
      BY <2>2, <2>3, <3>2
  <2>5. CASE Answer \/ GiveUp
    <3>1. pc' = pc /\ batch' = batch /\ polls' = polls
      BY <2>5 DEF Answer, GiveUp, upstream
    <3> QED
      BY <2>2, <2>3, <3>1 DEF StepsLeft
  <2> QED
    BY <2>3, <2>4, <2>5 DEF Next
<1> QED
  BY <1>1, <1>2, RunInvariance, PTL DEF Spec, RunGoesOn

=============================================================================
