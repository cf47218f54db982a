--------------------------- MODULE TutorTurnProofs ---------------------------
(***************************************************************************)
(* For texts of any length and every limit: the scan of the verifier is    *)
(* exact, hidden test data stays hidden, and a turn implements             *)
(* TutorPromise.  The loop invariant of the scan says what its three       *)
(* locals are after any number of lines: whether a fence is open, the code *)
(* in the longest unbroken stretch that ends here, and in the longest      *)
(* anywhere.                                                               *)
(***************************************************************************)
EXTENDS TutorTurn, FiniteSetTheorems, TLAPS

\* n is the most code in an unbroken stretch that ends with line k; it may be empty.
IsRun(lines, k, n) ==
  /\ \A a \in 1 .. k + 1 : Unbroken(lines, a, k) => CodeIn(lines, a, k) <= n
  /\ \E a \in 1 .. k + 1 : Unbroken(lines, a, k) /\ CodeIn(lines, a, k) = n

\* The loop invariant after k lines.
Scanned(lines, k) ==
  /\ in_fence <=> Inside(lines, k)
  /\ IsRun(lines, k, run)
  /\ run <= longest
  /\ IsLongest(lines, k, longest)

ScanInv ==
  /\ pc = "verifying" /\ phase = "CODE" => Scanned(text.lines, at - 1)
  /\ pc # "verifying" \/ phase = "LOGIC" => at = 1 /\ run = 0 /\ longest = 0 /\ ~in_fence

TurnInv ==
  /\ pc # "over" => said = None /\ regenerations <= MaxRegenerations
  /\ pc = "verifying" => text.quotes \subseteq Prompt
  /\ said \in Drafts => said.quotes \subseteq Prompt

IInv == TypeOK /\ ScanInv /\ TurnInv
-----------------------------------------------------------------------------
(* Counting, one line further *)

\* Numbers of a range can be counted.
LEMMA PartOfRange ==
  ASSUME NEW a \in Int, NEW k \in Int, NEW P \in SUBSET (a .. k)
  PROVE  IsFiniteSet(P) /\ Cardinality(P) \in Nat
<1>1. IsFiniteSet(a .. k)
  BY FS_Interval
<1>2. IsFiniteSet(P)
  BY <1>1, FS_Subset
<1> QED BY <1>2, FS_CardinalityType

\* With the number after the range there is one more.
LEMMA OneMore ==
  ASSUME NEW a \in Int, NEW k \in Int, NEW P \in SUBSET (a .. k)
  PROVE  Cardinality(P \cup {k + 1}) = Cardinality(P) + 1
<1>1. IsFiniteSet(P)
  BY PartOfRange
<1>2. k + 1 \notin P
  OBVIOUS
<1> QED BY <1>1, <1>2, FS_AddElement

\* The fences of one line more.
LEMMA FencesStep ==
  ASSUME NEW lines \in Seq(LineKinds), NEW k \in Nat
  PROVE  /\ FencesUpTo(lines, k) \in Nat
         /\ FencesUpTo(lines, k + 1) =
              FencesUpTo(lines, k) + IF lines[k + 1] = "fence" THEN 1 ELSE 0
<1> DEFINE P == {j \in 1 .. k : lines[j] = "fence"}
           Q == {j \in 1 .. k + 1 : lines[j] = "fence"}
<1>1. IF lines[k + 1] = "fence" THEN Q = P \cup {k + 1} ELSE Q = P
  OBVIOUS
<1>2. P \in SUBSET (1 .. k) /\ 1 \in Int /\ k \in Int
  OBVIOUS
<1> HIDE DEF P, Q
<1>3. Cardinality(P) \in Nat /\ Cardinality(P \cup {k + 1}) = Cardinality(P) + 1
  BY <1>2, PartOfRange, OneMore
<1>4. Cardinality(Q) = Cardinality(P) + IF lines[k + 1] = "fence" THEN 1 ELSE 0
  <2>1. CASE lines[k + 1] = "fence"
    <3>1. Q = P \cup {k + 1}
      BY <1>1, <2>1
    <3> QED BY <1>3, <2>1, <3>1
  <2>2. CASE ~(lines[k + 1] = "fence")
    <3>1. Q = P
      BY <1>1, <2>2
    <3> QED BY <1>3, <2>2, <3>1
  <2> QED BY <2>1, <2>2
<1> QED BY <1>3, <1>4 DEF P, Q, FencesUpTo

\* A fence line opens or closes; any other line leaves the fence as it is.
LEMMA InsideStep ==
  ASSUME NEW lines \in Seq(LineKinds), NEW k \in Nat
  PROVE  Inside(lines, k + 1) <=> IF lines[k + 1] = "fence" THEN ~Inside(lines, k)
                                                            ELSE Inside(lines, k)
<1>1. \A n \in Nat : (n + 1) % 2 = 1 <=> ~(n % 2 = 1)
  OBVIOUS
<1>2. /\ FencesUpTo(lines, k) \in Nat
      /\ FencesUpTo(lines, k + 1) =
           FencesUpTo(lines, k) + IF lines[k + 1] = "fence" THEN 1 ELSE 0
  BY FencesStep
<1>3. CASE lines[k + 1] = "fence"
  BY <1>1, <1>2, <1>3 DEF Inside
<1>4. CASE lines[k + 1] # "fence"
  <2>1. FencesUpTo(lines, k + 1) = FencesUpTo(lines, k)
    BY <1>2, <1>4
  <2> QED BY <1>4, <2>1 DEF Inside
<1> QED BY <1>3, <1>4

\* The code of one line more.
LEMMA CodeInStep ==
  ASSUME NEW lines \in Seq(LineKinds), NEW k \in Nat, NEW a \in 1 .. k + 1
  PROVE  /\ CodeIn(lines, a, k) \in Nat
         /\ CodeIn(lines, a, k + 1) =
              CodeIn(lines, a, k) + IF IsCode(lines, k + 1) THEN 1 ELSE 0
<1> DEFINE P == {i \in a .. k : IsCode(lines, i)}
           Q == {i \in a .. k + 1 : IsCode(lines, i)}
<1>1. IF IsCode(lines, k + 1) THEN Q = P \cup {k + 1} ELSE Q = P
  OBVIOUS
<1>2. P \in SUBSET (a .. k) /\ a \in Int /\ k \in Int
  OBVIOUS
<1> HIDE DEF P, Q
<1>3. Cardinality(P) \in Nat /\ Cardinality(P \cup {k + 1}) = Cardinality(P) + 1
  BY <1>2, PartOfRange, OneMore
<1>4. Cardinality(Q) = Cardinality(P) + IF IsCode(lines, k + 1) THEN 1 ELSE 0
  <2>1. CASE IsCode(lines, k + 1)
    <3>1. Q = P \cup {k + 1}
      BY <1>1, <2>1
    <3> QED BY <1>3, <2>1, <3>1
  <2>2. CASE ~(IsCode(lines, k + 1))
    <3>1. Q = P
      BY <1>1, <2>2
    <3> QED BY <1>3, <2>2, <3>1
  <2> QED BY <2>1, <2>2
<1> QED BY <1>3, <1>4 DEF P, Q, CodeIn

LEMMA CodeInType ==
  ASSUME NEW lines, NEW a \in Int, NEW b \in Int
  PROVE  CodeIn(lines, a, b) \in Nat
<1>1. {i \in a .. b : IsCode(lines, i)} \in SUBSET (a .. b)
  OBVIOUS
<1> QED BY <1>1, PartOfRange DEF CodeIn

LEMMA NoCodeInEmpty ==
  ASSUME NEW lines, NEW a \in Nat, NEW k \in Nat, a > k
  PROVE  CodeIn(lines, a, k) = 0
<1>1. {i \in a .. k : IsCode(lines, i)} = {}
  OBVIOUS
<1> QED BY <1>1, FS_EmptySet DEF CodeIn

LEMMA UnbrokenStep ==
  ASSUME NEW lines, NEW k \in Nat, NEW a \in 1 .. k + 1
  PROVE  Unbroken(lines, a, k + 1) <=> Unbroken(lines, a, k) /\ ~Breaks(lines, k + 1)
<1>1. a .. k + 1 = (a .. k) \cup {k + 1}
  OBVIOUS
<1> QED BY <1>1 DEF Unbroken
-----------------------------------------------------------------------------
(* The scan, one line further *)

\* A line that breaks nothing lengthens every stretch that ends here.
LEMMA RunGoesOn ==
  ASSUME NEW lines \in Seq(LineKinds), NEW k \in Nat, NEW n \in Nat,
         IsRun(lines, k, n), ~Breaks(lines, k + 1)
  PROVE  IsRun(lines, k + 1, n + IF IsCode(lines, k + 1) THEN 1 ELSE 0)
<1> DEFINE m == n + IF IsCode(lines, k + 1) THEN 1 ELSE 0
<1>1. ASSUME NEW a \in 1 .. k + 2, Unbroken(lines, a, k + 1)
      PROVE  CodeIn(lines, a, k + 1) <= m
  <2>1. CASE a = k + 2
    BY <2>1, NoCodeInEmpty
  <2>2. CASE a \in 1 .. k + 1
    <3>1. Unbroken(lines, a, k)
      BY <1>1, <2>2, UnbrokenStep
    <3>2. CodeIn(lines, a, k) <= n
      BY <2>2, <3>1 DEF IsRun
    <3>3. /\ CodeIn(lines, a, k) \in Nat
          /\ CodeIn(lines, a, k + 1) =
               CodeIn(lines, a, k) + IF IsCode(lines, k + 1) THEN 1 ELSE 0
      BY <2>2, CodeInStep
    <3> QED BY <3>2, <3>3
  <2> QED BY <2>1, <2>2
<1>2. \E a \in 1 .. k + 2 : Unbroken(lines, a, k + 1) /\ CodeIn(lines, a, k + 1) = m
  <2>1. PICK a \in 1 .. k + 1 : Unbroken(lines, a, k) /\ CodeIn(lines, a, k) = n
    BY DEF IsRun
  <2>2. Unbroken(lines, a, k + 1) /\ CodeIn(lines, a, k + 1) = m
    BY <2>1, UnbrokenStep, CodeInStep
  <2>3. a \in 1 .. k + 2
    OBVIOUS
  <2> QED BY <2>2, <2>3
<1>3. (k + 1) + 1 = k + 2
  OBVIOUS
<1> QED BY <1>1, <1>2, <1>3 DEF IsRun

\* A line that breaks leaves only the empty stretch.
LEMMA RunEnds ==
  ASSUME NEW lines \in Seq(LineKinds), NEW k \in Nat, Breaks(lines, k + 1)
  PROVE  IsRun(lines, k + 1, 0)
<1>1. ASSUME NEW a \in 1 .. k + 2, Unbroken(lines, a, k + 1)
      PROVE  a = k + 2
  <2>1. ~(a \in 1 .. k + 1)
    BY <1>1, UnbrokenStep
  <2> QED BY <2>1
<1>2. CodeIn(lines, k + 2, k + 1) = 0
  BY NoCodeInEmpty
<1>3. Unbroken(lines, k + 2, k + 1)
  BY DEF Unbroken
<1>4. (k + 1) + 1 = k + 2
  OBVIOUS
<1> QED BY <1>1, <1>2, <1>3, <1>4 DEF IsRun

\* The longest stretch so far is the one before or one that ends here.
LEMMA LongestStep ==
  ASSUME NEW lines \in Seq(LineKinds), NEW k \in Nat, NEW l \in Nat, NEW n \in Nat,
         IsLongest(lines, k, l), IsRun(lines, k + 1, n)
  PROVE  IsLongest(lines, k + 1, Larger(l, n))
<1> DEFINE m == Larger(l, n)
<1>1. m \in Nat /\ l <= m /\ n <= m /\ m \in {l, n}
  BY DEF Larger
<1> HIDE DEF m
<1>2. ASSUME NEW a \in 1 .. k + 1, NEW b \in 1 .. k + 1, Unbroken(lines, a, b)
      PROVE  CodeIn(lines, a, b) <= m
  <2>1. CASE b = k + 1
    <3>1. CodeIn(lines, a, k + 1) <= n
      BY <1>2, <2>1 DEF IsRun
    <3>2. CodeIn(lines, a, k + 1) \in Nat
      BY CodeInType
    <3> QED BY <1>1, <2>1, <3>1, <3>2
  <2>2. CASE b \in 1 .. k /\ a \in 1 .. k
    <3>1. CodeIn(lines, a, b) <= l
      BY <1>2, <2>2 DEF IsLongest
    <3>2. CodeIn(lines, a, b) \in Nat
      BY CodeInType
    <3> QED BY <1>1, <3>1, <3>2
  <2>3. CASE b \in 1 .. k /\ a = k + 1
    BY <1>1, <2>3, NoCodeInEmpty
  <2> QED BY <2>1, <2>2, <2>3
<1>3. \/ m = 0
      \/ \E a, b \in 1 .. k + 1 : Unbroken(lines, a, b) /\ CodeIn(lines, a, b) = m
  <2>1. CASE m = l
    <3>1. \A a \in 1 .. k : a \in 1 .. k + 1
      OBVIOUS
    <3> QED BY <2>1, <3>1 DEF IsLongest
  <2>2. CASE m = n
    <3>1. PICK a \in 1 .. k + 2 : Unbroken(lines, a, k + 1) /\ CodeIn(lines, a, k + 1) = n
      <4>1. (k + 1) + 1 = k + 2
        OBVIOUS
      <4> QED BY <4>1 DEF IsRun
    <3>2. CASE a = k + 2
      BY <2>2, <3>1, <3>2, NoCodeInEmpty
    <3>3. CASE a \in 1 .. k + 1
      <4>1. k + 1 \in 1 .. k + 1
        OBVIOUS
      <4> QED BY <2>2, <3>1, <3>3, <4>1
    <3> QED BY <3>2, <3>3
  <2> QED BY <1>1, <2>1, <2>2
<1> QED BY <1>2, <1>3 DEF IsLongest, m
-----------------------------------------------------------------------------
(* The turn *)

LEMMA NothingScanned ==
  ASSUME NEW lines
  PROVE  ~Inside(lines, 0) /\ IsRun(lines, 0, 0) /\ IsLongest(lines, 0, 0)
<1>1. FencesUpTo(lines, 0) = 0
  <2>1. {j \in 1 .. 0 : lines[j] = "fence"} = {}
    OBVIOUS
  <2> QED BY <2>1, FS_EmptySet DEF FencesUpTo
<1>2. ~Inside(lines, 0)
  BY <1>1 DEF Inside
<1>3. CodeIn(lines, 1, 0) = 0
  BY NoCodeInEmpty
<1>4. Unbroken(lines, 1, 0)
  BY DEF Unbroken
<1>5. 1 .. 0 + 1 = {1} /\ 1 .. 0 = {}
  OBVIOUS
<1> QED BY <1>2, <1>3, <1>4, <1>5 DEF IsRun, IsLongest

LEMMA DraftShape ==
  ASSUME NEW d \in Drafts
  PROVE  /\ d.lines \in Seq(LineKinds) /\ Len(d.lines) \in Nat
         /\ d.words \in Nat /\ d \notin {None, Failure, LogicFallback, CodeFallback}
<1>1. d \in [lines : Seq(LineKinds), words : Nat, quotes : SUBSET Data]
  BY TutorAssumption
<1>2. d.lines \in Seq(LineKinds) /\ d.words \in Nat
  BY <1>1
<1>3. Len(d.lines) \in Nat
  BY <1>2
<1> QED BY <1>2, <1>3, TutorAssumption

LEMMA NoDrafts ==
  /\ None \notin Drafts /\ Failure \notin Drafts
  /\ LogicFallback \notin Drafts /\ CodeFallback \notin Drafts
  /\ None \notin {Failure, LogicFallback, CodeFallback}
  BY TutorAssumption

LEMMA InitIInv == Init => IInv
<1> SUFFICES ASSUME Init PROVE IInv
  OBVIOUS
<1>1. MaxRegenerations \in Nat
  BY TutorAssumption
<1>2. TypeOK
  <2>1. in_fence \in BOOLEAN
    BY DEF Init
  <2>2. regenerations \in 0 .. MaxRegenerations + 1
    BY <1>1 DEF Init
  <2> QED BY <2>1, <2>2 DEF Init, TypeOK
<1>3. ScanInv
  BY DEF Init, ScanInv
<1>4. TurnInv
  BY <1>1, NoDrafts DEF Init, TurnInv
<1> QED BY <1>2, <1>3, <1>4 DEF IInv

\* One turn of the loop keeps the loop invariant.
LEMMA ScanStep ==
  ASSUME IInv, ScanLine
  PROVE  ScanInv'
<1> DEFINE lines == text.lines
           k == at - 1
           kind == lines[at]
<1>1. /\ text \in Drafts /\ lines \in Seq(LineKinds) /\ k \in Nat /\ at = k + 1
      /\ run \in Nat /\ longest \in Nat /\ in_fence \in BOOLEAN
  BY DraftShape DEF IInv, TypeOK, ScanLine
<1>2. (in_fence <=> Inside(lines, k)) /\ IsRun(lines, k, run) /\ run <= longest
      /\ IsLongest(lines, k, longest)
  BY DEF IInv, ScanInv, Scanned, ScanLine
<1>3. Inside(lines, at) <=> IF kind = "fence" THEN ~in_fence ELSE in_fence
  BY <1>1, <1>2, InsideStep
<1>4. ~Breaks(lines, at) => IsRun(lines, at, run + IF IsCode(lines, at) THEN 1 ELSE 0)
  BY <1>1, <1>2, RunGoesOn
<1>5. Breaks(lines, at) => IsRun(lines, at, 0)
  BY <1>1, RunEnds
<1>6. /\ in_fence' <=> Inside(lines, at)
      /\ IsRun(lines, at, run') /\ run' \in Nat
      /\ longest' = Larger(longest, run')
  <2>1. CASE kind = "fence" /\ Fence /\ ~in_fence
    <3>1. ~Breaks(lines, at) /\ ~IsCode(lines, at)
      BY <1>3, <2>1 DEF Breaks, IsCode
    <3>2. IsRun(lines, at, run)
      BY <1>1, <1>4, <3>1
    <3>3. run' = run /\ longest' = longest /\ (in_fence' <=> ~in_fence)
      BY <2>1 DEF Fence
    <3>4. longest' = Larger(longest, run')
      BY <1>1, <1>2, <3>3 DEF Larger
    <3> QED BY <1>1, <1>3, <2>1, <3>2, <3>3, <3>4
  <2>2. CASE kind = "fence" /\ Fence /\ in_fence
    <3>1. Breaks(lines, at)
      BY <1>3, <2>2 DEF Breaks, CodeLines, StatementLines
    <3>2. run' = 0 /\ longest' = Larger(longest, run) /\ (in_fence' <=> ~in_fence)
      BY <2>2 DEF Fence
    <3>3. longest' = Larger(longest, run')
      BY <1>1, <1>2, <3>2 DEF Larger
    <3> QED BY <1>3, <1>5, <2>2, <3>1, <3>2, <3>3
  <2>3. CASE kind # "fence" /\ in_fence /\ Counted(IF kind = "blank" THEN 0 ELSE 1)
    <3>1. ~Breaks(lines, at) /\ (IsCode(lines, at) <=> kind # "blank")
      BY <1>3, <2>3 DEF Breaks, IsCode
    <3>2. run' = run + IF IsCode(lines, at) THEN 1 ELSE 0
      BY <2>3, <3>1 DEF Counted
    <3> QED BY <1>1, <1>3, <1>4, <2>3, <3>1, <3>2 DEF Counted
  <2>4. CASE kind \in CodeLines /\ ~in_fence /\ Counted(1)
    <3>1. kind # "fence"
      BY <2>4 DEF CodeLines, StatementLines
    <3>2. ~Breaks(lines, at) /\ IsCode(lines, at)
      BY <1>3, <2>4, <3>1 DEF Breaks, IsCode
    <3> QED BY <1>1, <1>3, <1>4, <2>4, <3>1, <3>2 DEF Counted
  <2>5. CASE /\ kind \notin CodeLines \cup {"fence"} /\ ~in_fence
             /\ run' = 0 /\ UNCHANGED <<longest, in_fence>>
    <3>1. Breaks(lines, at)
      BY <1>3, <2>5 DEF Breaks
    <3> QED BY <1>1, <1>3, <1>5, <2>5, <3>1 DEF Larger
  <2> QED BY <1>1, <2>1, <2>2, <2>3, <2>4, <2>5 DEF ScanLine
<1>7. IsLongest(lines, at, longest')
  BY <1>1, <1>2, <1>6, LongestStep
<1>8. run' <= longest'
  BY <1>1, <1>6 DEF Larger
<1>9. text' = text /\ at' - 1 = at /\ pc' = "verifying" /\ phase' = "CODE"
  BY <1>1 DEF ScanLine
<1> QED BY <1>6, <1>7, <1>8, <1>9 DEF ScanInv, Scanned

\* What is said at last is the draft that was verified, or a canned text.
LEMMA VerifyStep ==
  ASSUME IInv, VerifierReturns, pc = "verifying",
         Deliver \/ Reject(LogicFallback) \/ Reject(CodeFallback)
  PROVE  IInv'
<1> USE TutorAssumption
<1>1. text \in Drafts /\ regenerations \in 0 .. MaxRegenerations /\ said = None
  BY DEF IInv, TypeOK, TurnInv
<1>2. Prompt' = Prompt
  BY DEF VerifierReturns, Prompt
<1>3. /\ phase' \in {"LOGIC", "CODE"} /\ execution' \in Executions /\ text' = None
      /\ at' \in Nat \ {0} /\ run' \in Nat /\ longest' \in Nat /\ in_fence' \in BOOLEAN
  <2>1. in_fence' \in BOOLEAN
    BY DEF VerifierReturns
  <2> QED BY <2>1 DEF VerifierReturns, IInv, TypeOK
<1>4. CASE Deliver
  <2>1. pc' = "over" /\ said' = text /\ regenerations' = regenerations
    BY <1>4 DEF Deliver
  <2>2. TypeOK'
    <3>1. regenerations' \in 0 .. MaxRegenerations + 1
      BY <1>1, <2>1
    <3> QED BY <1>1, <1>3, <2>1, <3>1 DEF TypeOK
  <2>3. ScanInv'
    BY <2>1 DEF VerifierReturns, ScanInv
  <2>4. TurnInv'
    BY <1>2, <2>1 DEF IInv, TurnInv
  <2> QED BY <2>2, <2>3, <2>4 DEF IInv
<1>5. ASSUME NEW f \in {LogicFallback, CodeFallback}, Reject(f) PROVE IInv'
  <2>1. regenerations' \in 0 .. MaxRegenerations + 1
    BY <1>1, <1>5 DEF Reject
  <2>2. pc' \in {"over", "drafting"} /\ (pc' = "over" => said' = f)
        /\ (pc' = "drafting" => said' = None /\ regenerations' <= MaxRegenerations)
    BY <1>1, <1>5, <2>1 DEF Reject
  <2>3. TypeOK'
    <3>1. pc' # "verifying" /\ pc' \in {"drafting", "verifying", "over"}
      BY <2>2
    <3>2. said' \in {None, Failure, LogicFallback, CodeFallback}
      BY <2>2
    <3> QED BY <1>3, <2>1, <3>1, <3>2 DEF TypeOK
  <2>4. ScanInv'
    BY <2>2 DEF VerifierReturns, ScanInv
  <2>5. TurnInv'
    BY <2>2, <1>5 DEF TurnInv
  <2> QED BY <2>3, <2>4, <2>5 DEF IInv
<1> QED BY <1>4, <1>5

LEMMA NextIInv == IInv /\ [Next]_vars => IInv'
<1> SUFFICES ASSUME IInv, [Next]_vars PROVE IInv'
  OBVIOUS
<1> USE TutorAssumption
<1>1. CASE Tutor
  <2>1. text' \in Drafts /\ at = 1 /\ run = 0 /\ longest = 0 /\ ~in_fence
    BY <1>1 DEF Tutor, IInv, ScanInv
  <2>2. Len(text'.lines) \in Nat
    BY <2>1, DraftShape
  <2>3. TypeOK'
    BY <1>1, <2>1, <2>2 DEF Tutor, IInv, TypeOK, scan, TurnInv
  <2>4. ScanInv'
    <3>1. ~Inside(text'.lines, 0) /\ IsRun(text'.lines, 0, 0) /\ IsLongest(text'.lines, 0, 0)
      BY NothingScanned
    <3>2. at' = 1 /\ run' = 0 /\ longest' = 0 /\ ~in_fence' /\ at' - 1 = 0 /\ 0 <= 0
      BY <1>1, <2>1 DEF Tutor, scan
    <3>3. Scanned(text.lines, at - 1)'
      BY <3>1, <3>2 DEF Scanned
    <3> QED BY <3>2, <3>3 DEF ScanInv
  <2>5. TurnInv'
    BY <1>1 DEF Tutor, IInv, TurnInv, Prompt
  <2> QED BY <2>3, <2>4, <2>5 DEF IInv
<1>2. CASE TutorFails
  BY <1>2 DEF TutorFails, IInv, TypeOK, ScanInv, TurnInv, scan, Prompt
<1>3. CASE ScanLine
  <2>1. text \in Drafts /\ Len(text.lines) \in Nat
    BY <1>3, DraftShape DEF ScanLine, IInv, TypeOK
  <2>2. UNCHANGED <<phase, execution, pc, text, regenerations, said>> /\ at' = at + 1
    BY <1>3 DEF ScanLine
  <2>3. run' \in Nat /\ longest' \in Nat /\ in_fence' \in BOOLEAN
    <3>1. run \in Nat /\ longest \in Nat /\ in_fence \in BOOLEAN
      BY DEF IInv, TypeOK
    <3>2. \A m, n \in Nat : Larger(m, n) \in Nat
      BY DEF Larger
    <3>3. CASE Fence
      BY <3>1, <3>2, <3>3 DEF Fence
    <3>4. CASE \E n \in {0, 1} : Counted(n)
      <4>1. PICK n \in {0, 1} : Counted(n)
        BY <3>4
      <4>2. run + n \in Nat
        BY <3>1
      <4> QED BY <3>1, <3>2, <4>1, <4>2 DEF Counted
    <3>5. CASE run' = 0 /\ UNCHANGED <<longest, in_fence>>
      BY <3>1, <3>5
    <3> QED BY <1>3, <3>3, <3>4, <3>5 DEF ScanLine
  <2>4. TypeOK'
    BY <1>3, <2>1, <2>2, <2>3 DEF ScanLine, IInv, TypeOK
  <2>5. TurnInv'
    BY <2>2 DEF IInv, TurnInv, Prompt
  <2> QED BY <1>3, <2>4, <2>5, ScanStep DEF IInv
<1>4. CASE VerifyLogic     BY <1>4, VerifyStep DEF VerifyLogic
<1>5. CASE VerifyCode      BY <1>5, VerifyStep DEF VerifyCode
<1>6. CASE UNCHANGED vars
  <2>1. UNCHANGED <<phase, execution, pc, text, regenerations, said, at, run, longest, in_fence>>
    BY <1>6 DEF vars, scan
  <2>2. TypeOK' /\ TurnInv'
    BY <2>1 DEF IInv, TypeOK, TurnInv, Prompt
  <2>3. ScanInv'
    BY <2>1 DEF IInv, ScanInv, Scanned
  <2> QED BY <2>2, <2>3 DEF IInv
<1> QED BY <1>1, <1>2, <1>3, <1>4, <1>5, <1>6 DEF Next

\* The inductive invariant, with that of the loop, holds in every reachable state.
THEOREM TurnInvariance == Spec => []IInv
  BY InitIInv, NextIInv, PTL DEF Spec

\* Every variable stays in its range: no more drafts than the bound allows.
THEOREM TurnTypeCorrect == Spec => []TypeOK
<1>1. IInv => TypeOK BY DEF IInv
<1> QED BY <1>1, TurnInvariance, PTL

\* The scan holds the longest stretch of code of any text, after every line.
THEOREM ScanTheorem == Spec => []ScanIsExact
<1>1. IInv => ScanIsExact BY DEF IInv, ScanInv, Scanned, ScanIsExact
<1> QED BY <1>1, TurnInvariance, PTL
-----------------------------------------------------------------------------
(* Hidden test data *)

LEMMA ViewTheorem ==
  ASSUME NEW e \in Seq(BOOLEAN), NEW i \in DOMAIN e, NEW f \in Hidden,
         <<i, f>> \in StripForView(e)
  PROVE  e[i]
<1>1. f \in ViewRow(e[i])
  BY DEF StripForView
<1> QED BY <1>1 DEF ViewRow

LEMMA SummaryTheorem ==
  ASSUME NEW e \in Seq(BOOLEAN), NEW i \in DOMAIN e, NEW f \in Hidden,
         <<i, f>> \in SummarizeForTutor(e)
  PROVE  e[i]
<1>1. f \in TutorLines(e[i])
  BY DEF SummarizeForTutor
<1> QED BY <1>1 DEF TutorLines, Hidden

\* No hidden test's data is shown or said, for any tests and any drafts.
THEOREM HiddenTheorem == Spec => []HiddenDataStays
<1>1. IInv => HiddenDataStays
  <2> SUFFICES ASSUME IInv, NEW i \in DOMAIN execution, NEW f \in Hidden,
                      \/ <<i, f>> \in StripForView(execution)
                      \/ said \in Drafts /\ <<i, f>> \in said.quotes
               PROVE  execution[i]
    BY DEF HiddenDataStays
  <2>1. execution \in Seq(BOOLEAN)
    BY TutorAssumption DEF IInv, TypeOK
  <2>2. CASE <<i, f>> \in StripForView(execution)
    BY <2>1, <2>2, ViewTheorem
  <2>3. CASE said \in Drafts /\ <<i, f>> \in said.quotes
    <3>1. <<i, f>> \in Prompt
      BY <2>3 DEF IInv, TurnInv
    <3>2. <<i, f>> \in SummarizeForTutor(execution)
      BY <3>1 DEF Prompt
    <3> QED BY <2>1, <3>2, SummaryTheorem
  <2> QED BY <2>2, <2>3
<1> QED BY <1>1, TurnInvariance, PTL

-----------------------------------------------------------------------------
(* The turn implements TutorPromise *)

Tries == regenerations + (IF pc = "verifying" \/ said \in Drafts THEN 1 ELSE 0)

\* What passes the rules is fit.
LEMMA PassedIsFit ==
  ASSUME IInv, pc = "verifying"
  PROVE  /\ phase = "LOGIC" /\ ~LogicRejects(text) => text \in FitTexts[phase]
         /\ (phase = "CODE" /\ at > Len(text.lines) /\ ~CodeRejects(text, longest))
              => text \in FitTexts[phase]
<1>1. text \in Drafts
  BY DEF IInv, TypeOK
<1>2. /\ text.lines \in Seq(LineKinds) /\ Len(text.lines) \in Nat /\ text.words \in Nat
      /\ at \in Nat /\ longest \in Nat /\ at <= Len(text.lines) + 1
  BY <1>1, DraftShape DEF IInv, TypeOK
<1>3. ASSUME phase = "LOGIC", ~LogicRejects(text) PROVE FitInLogic(text)
  <2>1. text.words <= MAX_WORDS_LOGIC
    BY <1>2, <1>3, TutorAssumption DEF LogicRejects
  <2>2. \A i \in DOMAIN text.lines : text.lines[i] \in LineKinds
    BY <1>2
  <2>3. \A i \in DOMAIN text.lines :
          text.lines[i] \notin {"fence", "inline", "named"} \cup StatementLines
    BY <1>3 DEF LogicRejects, Has
  <2>4. \A i \in DOMAIN text.lines : text.lines[i] \in {"blank", "prose", "mention", "index"}
    BY <2>2, <2>3 DEF LineKinds, StatementLines
  <2> QED BY <1>3, <2>1, <2>4 DEF LogicRejects, FitInLogic
<1>4. ASSUME phase = "CODE", at > Len(text.lines), ~CodeRejects(text, longest)
      PROVE  FitInCode(text)
  <2>1. text.words <= MAX_WORDS_CODE
    BY <1>2, <1>4, TutorAssumption DEF CodeRejects
  <2>2. at - 1 = Len(text.lines) /\ DOMAIN text.lines = 1 .. Len(text.lines)
    BY <1>2, <1>4
  <2>3. IsLongest(text.lines, Len(text.lines), longest)
    BY <1>4, <2>2 DEF IInv, ScanInv, Scanned
  <2>4. longest <= MAX_CODE_BLOCK_LINES
    BY <1>2, <1>4, TutorAssumption DEF CodeRejects
  <2>5. ASSUME NEW a \in DOMAIN text.lines, NEW b \in DOMAIN text.lines,
               Unbroken(text.lines, a, b)
        PROVE  CodeIn(text.lines, a, b) <= MAX_CODE_BLOCK_LINES
    <3>1. CodeIn(text.lines, a, b) <= longest
      BY <2>2, <2>3, <2>5 DEF IsLongest
    <3>2. CodeIn(text.lines, a, b) \in Nat
      <4>1. a \in Int /\ b \in Int
        BY <2>2
      <4> QED BY <4>1, CodeInType
    <3> QED BY <1>2, <2>4, <3>1, <3>2, TutorAssumption
  <2> QED BY <1>4, <2>1, <2>5 DEF CodeRejects, FitInCode
<1> QED BY <1>1, <1>3, <1>4 DEF FitTexts

LEMMA InitMaps == Init => Promise!Init
<1> SUFFICES ASSUME Init PROVE Promise!Init
  OBVIOUS
<1>1. phase \in DOMAIN FitTexts
  BY DEF Init, FitTexts
<1>2. Tries = 0
  BY NoDrafts DEF Init, Tries
<1> QED BY <1>1, <1>2 DEF Init, Promise!Init, Tries

\* The verdict: a rejected draft was one try, the last one is followed by the canned
\* text; a draft that is said was fit.
LEMMA VerdictMaps ==
  ASSUME IInv, VerifierReturns, pc = "verifying", NEW f,
         f = [LOGIC |-> LogicFallback, CODE |-> CodeFallback][phase],
         Reject(f) \/ (Deliver /\ text \in FitTexts[phase])
  PROVE  Promise!Next \/ UNCHANGED <<phase, Tries, said>>
<1>1. /\ text \in Drafts /\ regenerations \in Nat /\ regenerations <= MaxRegenerations
      /\ said = None /\ phase \in {"LOGIC", "CODE"} /\ phase' = phase
      /\ MaxRegenerations \in Nat
  BY TutorAssumption DEF IInv, TypeOK, TurnInv, VerifierReturns
<1>2. f \notin Drafts
  BY <1>1, NoDrafts
<1>3. Tries = regenerations + 1
  BY DEF Tries
<1>4. CASE Deliver /\ text \in FitTexts[phase]
  <2>1. Tries' = Tries /\ said' = text
    BY <1>1, <1>3, <1>4 DEF Deliver, Tries
  <2>2. Promise!Say
    BY <1>1, <1>3, <1>4, <2>1 DEF Promise!Say, Tries
  <2> QED BY <2>2 DEF Promise!Next
<1>5. CASE Reject(f)
  <2>1. regenerations' = regenerations + 1
    BY <1>5 DEF Reject
  <2>2. CASE regenerations' > MaxRegenerations
    <3>1. pc' = "over" /\ said' = f
      BY <1>5, <2>2 DEF Reject
    <3>2. Tries' = Tries /\ Tries = MaxRegenerations + 1
      BY <1>1, <1>2, <1>3, <2>1, <2>2, <3>1 DEF Tries
    <3>3. Promise!FallBack
      BY <1>1, <3>1, <3>2 DEF Promise!FallBack, Tries
    <3> QED BY <3>3 DEF Promise!Next
  <2>3. CASE ~(regenerations' > MaxRegenerations)
    <3>1. pc' = "drafting" /\ said' = None
      BY <1>1, <1>5, <2>3 DEF Reject
    <3>2. Tries' = Tries
      BY <1>1, <1>3, <2>1, <3>1, NoDrafts DEF Tries
    <3> QED BY <1>1, <3>1, <3>2
  <2> QED BY <2>2, <2>3
<1> QED BY <1>4, <1>5

LEMMA StepMaps ==
  IInv /\ [Next]_vars => Promise!Next \/ UNCHANGED <<phase, Tries, said>>
<1> SUFFICES ASSUME IInv, [Next]_vars
             PROVE  Promise!Next \/ UNCHANGED <<phase, Tries, said>>
  OBVIOUS
<1>1. CASE Tutor
  <2>1. said = None /\ said' = None /\ regenerations' = regenerations
        /\ regenerations \in Nat /\ regenerations <= MaxRegenerations
    BY <1>1 DEF Tutor, IInv, TypeOK, TurnInv
  <2>2. Tries = regenerations /\ Tries' = regenerations + 1
    BY <1>1, <2>1, NoDrafts DEF Tutor, Tries
  <2>3. Promise!Ask
    BY <1>1, <2>1, <2>2, TutorAssumption DEF Tutor, Promise!Ask, Tries
  <2> QED BY <2>3 DEF Promise!Next
<1>2. CASE TutorFails
  <2>1. said = None /\ said' = Failure /\ UNCHANGED <<phase, regenerations>>
    BY <1>2 DEF TutorFails, IInv, TurnInv
  <2>2. Tries' = Tries
    BY <1>2, <2>1, NoDrafts DEF TutorFails, Tries
  <2>3. Promise!Fail
    BY <2>1, <2>2 DEF Promise!Fail, Tries
  <2> QED BY <2>3 DEF Promise!Next
<1>3. CASE ScanLine \/ UNCHANGED vars
  BY <1>3 DEF ScanLine, vars, Tries
<1>4. CASE VerifyLogic
  <2>1. LogicFallback = [LOGIC |-> LogicFallback, CODE |-> CodeFallback][phase]
    BY <1>4 DEF VerifyLogic
  <2>2. Reject(LogicFallback) \/ (Deliver /\ text \in FitTexts[phase])
    BY <1>4, PassedIsFit DEF VerifyLogic
  <2> QED BY <1>4, <2>1, <2>2, VerdictMaps DEF VerifyLogic
<1>5. CASE VerifyCode
  <2>1. CodeFallback = [LOGIC |-> LogicFallback, CODE |-> CodeFallback][phase]
    BY <1>5 DEF VerifyCode
  <2>2. Reject(CodeFallback) \/ (Deliver /\ text \in FitTexts[phase])
    BY <1>5, PassedIsFit DEF VerifyCode
  <2> QED BY <1>5, <2>1, <2>2, VerdictMaps DEF VerifyCode
<1> QED BY <1>1, <1>2, <1>3, <1>4, <1>5 DEF Next

\* A turn says one text, fit for its phase or canned after the last try, for texts of
\* any length and every bound on the tries.
THEOREM TurnTheorem == Spec => KeepsTutorPromise
<1>1. IInv /\ [Next]_vars => [Promise!Next]_<<phase, Tries, said>>
  BY StepMaps
<1> QED BY <1>1, InitMaps, TurnInvariance, PTL
        DEF Spec, KeepsTutorPromise, Promise!Spec, Tries
=============================================================================
