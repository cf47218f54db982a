----------------------------- MODULE TutorTurn -----------------------------
(***************************************************************************)
(* One tutor turn with the text taken seriously: the draft of the model    *)
(* (nodes/logic_tutor.py, nodes/code_tutor.py), the rules the verifier     *)
(* applies to it, line by line in the code phase (app/verifier.py), the    *)
(* regenerations and the canned text after them, and what of the test      *)
(* results the model and the student get to see (app/redact.py).  In       *)
(* SessionGraph the same turn is two nodes and two sets of leaking drafts. *)
(*                                                                         *)
(* A text is the sequence of the kinds of its lines, as the regular        *)
(* expressions tell them apart:                                            *)
(*   fence      starts with ```       blank   white space only             *)
(*   statement  opens a block, bare return or import, assigns an empty     *)
(*              container, has "in range(" or ".get("                      *)
(*   signature  "def" and the entrypoint, a statement                      *)
(*   mention    the same inside a sentence                                 *)
(*   index      assigns or compares an element, seen[x] = i                *)
(*   inline     ``` inside a sentence                                      *)
(*   named      prose with a forbidden term of the rubric                  *)
(*   prose      anything else                                              *)
(* A datum of the test results is <<test, field>>.  The model can quote    *)
(* only data of its prompt.                                                *)
(***************************************************************************)
EXTENDS Naturals, Sequences, FiniteSets

CONSTANTS
  Drafts,               \* what the tutor model may answer
  Executions,           \* for each run of the tests, which tests are public
  MaxRegenerations,     \* config.MAX_REGENERATIONS, 2 in production
  MAX_CODE_BLOCK_LINES, \* 3
  MAX_WORDS_LOGIC,      \* 120
  MAX_WORDS_CODE,       \* 160
  LogicFallback,        \* the misconception's counter question, or the generic one
  CodeFallback,         \* GENERIC_CODE_FALLBACK
  None,                 \* nothing said
  Failure               \* the request ends in an error

LineKinds == {"fence", "blank", "statement", "signature", "mention", "index",
              "inline", "named", "prose"}
Fields    == {"label", "passed", "status", "time", "stderr", "stdin", "expected", "stdout"}
Data      == (Nat \ {0}) \X Fields

ASSUME TutorAssumption ==
  /\ MaxRegenerations \in Nat /\ MAX_CODE_BLOCK_LINES \in Nat
  /\ MAX_WORDS_LOGIC \in Nat /\ MAX_WORDS_CODE \in Nat
  /\ Drafts \subseteq [lines : Seq(LineKinds), words : Nat, quotes : SUBSET Data]
  /\ Executions \subseteq Seq(BOOLEAN)
  /\ {None, Failure, LogicFallback, CodeFallback} \cap Drafts = {}
  /\ Failure # None /\ {None, Failure} \cap {LogicFallback, CodeFallback} = {}

VARIABLES
  phase,         \* LOGIC or CODE
  execution,     \* the last run of the tests: which are public
  pc,            \* where the turn is
  text,          \* the draft being verified
  at,            \* the line _longest_code_run is at
  run, longest, in_fence,  \* its three locals
  regenerations, \* drafts rejected
  said           \* the message added to the transcript

scan == <<at, run, longest, in_fence>>
vars == <<phase, execution, pc, text, scan, regenerations, said>>
-----------------------------------------------------------------------------
(* Redaction *)

Hidden == {"stdin", "expected", "stdout"}

\* Mutant: the row of a test has everything.
ViewRowInFull(public) == Fields

\* The row of one test in the view: the data is added to it when the test is public.
ViewRow(public) == (Fields \ Hidden) \cup (IF public THEN Hidden ELSE {})

StripForView(e) == {d \in (DOMAIN e) \X Fields : d[2] \in ViewRow(e[d[1]])}

\* Mutant: the summary does not ask whether a test is public.
TutorLinesInFull(public) == {"label", "passed", "status", "stderr"} \cup Hidden

\* The lines on one test in the prompt: of two forms, the public one has the data.
TutorLines(public) ==
  IF public THEN {"label", "passed", "status", "stdin", "expected", "stdout", "stderr"}
            ELSE {"label", "passed", "status", "stderr"}

SummarizeForTutor(e) == {d \in (DOMAIN e) \X Fields : d[2] \in TutorLines(e[d[1]])}

\* A logic turn comes before any code was run.
Prompt == IF phase = "CODE" THEN SummarizeForTutor(execution) ELSE {}
-----------------------------------------------------------------------------
(* The rules *)

StatementLines == {"statement", "signature"}
CodeLines      == StatementLines \cup {"index"}

Has(lines, kinds) == \E i \in DOMAIN lines : lines[i] \in kinds

LogicRejects(d) ==
  \/ ~Has(d.lines, LineKinds \ {"blank"})
  \/ Has(d.lines, {"fence", "inline", "named"} \cup StatementLines)
  \/ d.words > MAX_WORDS_LOGIC

\* The length is that of the longest run of code lines, found by the scan below.
CodeRejects(d, length) ==
  \/ ~Has(d.lines, LineKinds \ {"blank"})
  \/ Has(d.lines, {"signature", "mention"})
  \/ length > MAX_CODE_BLOCK_LINES
  \/ d.words > MAX_WORDS_CODE
-----------------------------------------------------------------------------
(* The turn *)

Init ==
  /\ phase \in {"LOGIC", "CODE"}
  /\ execution \in Executions
  /\ pc = "drafting" /\ text = None
  /\ at = 1 /\ run = 0 /\ longest = 0 /\ in_fence = FALSE
  /\ regenerations = 0 /\ said = None

Tutor ==
  /\ pc = "drafting"
  /\ text' \in Drafts /\ text'.quotes \subseteq Prompt
  /\ pc' = "verifying"
  /\ UNCHANGED <<phase, execution, scan, regenerations, said>>

\* The model call fails, or its answer is empty.
TutorFails ==
  /\ pc = "drafting"
  /\ pc' = "over" /\ said' = Failure
  /\ UNCHANGED <<phase, execution, text, scan, regenerations>>

Larger(m, n) == IF m < n THEN n ELSE m

Counted(n) == /\ run' = run + n
              /\ longest' = Larger(longest, run + n)
              /\ UNCHANGED in_fence

\* Mutant: a closing fence does not end the run.
FenceKeepsRun ==
  /\ in_fence' = ~in_fence
  /\ UNCHANGED <<run, longest>>

\* An opening fence does not end the run before it, a closing one does.
Fence ==
  /\ in_fence' = ~in_fence
  /\ run' = IF in_fence THEN 0 ELSE run
  /\ longest' = IF in_fence THEN Larger(longest, run) ELSE longest

\* One line of _longest_code_run.
ScanLine ==
  /\ pc = "verifying" /\ phase = "CODE" /\ at <= Len(text.lines)
  /\ LET kind == text.lines[at] IN
       \/ kind = "fence" /\ Fence
       \/ kind # "fence" /\ in_fence /\ Counted(IF kind = "blank" THEN 0 ELSE 1)
       \/ kind \in CodeLines /\ ~in_fence /\ Counted(1)
       \/ kind \notin CodeLines \cup {"fence"} /\ ~in_fence
            /\ run' = 0 /\ UNCHANGED <<longest, in_fence>>
  /\ at' = at + 1
  /\ UNCHANGED <<phase, execution, pc, text, regenerations, said>>

\* Mutant: the count from before this rejection is compared.
RejectLate(fallback) ==
  /\ regenerations' = regenerations + 1
  /\ IF regenerations > MaxRegenerations
     THEN pc' = "over" /\ said' = fallback
     ELSE pc' = "drafting" /\ UNCHANGED said

Reject(fallback) ==
  /\ regenerations' = regenerations + 1
  /\ IF regenerations' > MaxRegenerations
     THEN pc' = "over" /\ said' = fallback
     ELSE pc' = "drafting" /\ UNCHANGED said

Deliver == /\ pc' = "over" /\ said' = text
           /\ UNCHANGED regenerations

\* The verifier's locals end with it.
VerifierReturns ==
  /\ text' = None /\ at' = 1 /\ run' = 0 /\ longest' = 0 /\ in_fence' = FALSE
  /\ UNCHANGED <<phase, execution>>

VerifyLogic ==
  /\ pc = "verifying" /\ phase = "LOGIC"
  /\ IF LogicRejects(text) THEN Reject(LogicFallback) ELSE Deliver
  /\ VerifierReturns

\* Mutant: the run the text ends with is taken for the longest.
VerifyLastRun ==
  /\ pc = "verifying" /\ phase = "CODE" /\ at > Len(text.lines)
  /\ IF CodeRejects(text, run) THEN Reject(CodeFallback) ELSE Deliver
  /\ VerifierReturns

VerifyCode ==
  /\ pc = "verifying" /\ phase = "CODE" /\ at > Len(text.lines)
  /\ IF CodeRejects(text, longest) THEN Reject(CodeFallback) ELSE Deliver
  /\ VerifierReturns

Next == Tutor \/ TutorFails \/ ScanLine \/ VerifyLogic \/ VerifyCode

Spec == Init /\ [][Next]_vars
-----------------------------------------------------------------------------
(* What a run of code lines is, without a scan *)

FencesUpTo(lines, i) == Cardinality({j \in 1 .. i : lines[j] = "fence"})
Inside(lines, i)     == FencesUpTo(lines, i) % 2 = 1

\* A line outside a fence that is no code ends a run, and so does a closing fence.
Breaks(lines, i) == ~Inside(lines, i) /\ lines[i] \notin CodeLines
IsCode(lines, i) == IF Inside(lines, i) THEN lines[i] \notin {"fence", "blank"}
                                        ELSE lines[i] \in CodeLines

Unbroken(lines, a, b) == \A i \in a .. b : ~Breaks(lines, i)
CodeIn(lines, a, b)   == Cardinality({i \in a .. b : IsCode(lines, i)})

\* n is the most code in an unbroken stretch of the first k lines.
IsLongest(lines, k, n) ==
  /\ \A a, b \in 1 .. k : Unbroken(lines, a, b) => CodeIn(lines, a, b) <= n
  /\ \/ n = 0
     \/ \E a, b \in 1 .. k : Unbroken(lines, a, b) /\ CodeIn(lines, a, b) = n
-----------------------------------------------------------------------------
(* Properties *)

TypeOK ==
  /\ phase \in {"LOGIC", "CODE"} /\ execution \in Executions
  /\ pc \in {"drafting", "verifying", "over"}
  /\ (IF pc = "verifying" THEN text \in Drafts ELSE text = None)
  /\ at \in Nat \ {0} /\ run \in Nat /\ longest \in Nat /\ in_fence \in BOOLEAN
  /\ (pc = "verifying" => at <= Len(text.lines) + 1)
  /\ regenerations \in 0 .. MaxRegenerations + 1
  /\ (said \in Drafts \/ said \in {None, Failure, LogicFallback, CodeFallback})

\* However fences, blank lines, prose and code follow on each other, the scan of
\* verifier.py:87-120 holds, after every line, the length of the longest stretch
\* of code read so far: no longer code gets past it, no shorter one is refused.
ScanIsExact ==
  pc = "verifying" /\ phase = "CODE" => IsLongest(text.lines, at - 1, longest)

\* No input, expected output or output of a hidden test is in the view or in what
\* the tutor says, also after regenerations: the model never had them
\* (redact.py:30-102, code_tutor.py:19-21).
HiddenDataStays ==
  LET shown == StripForView(execution) \cup IF said \in Drafts THEN said.quotes ELSE {}
  IN  \A i \in DOMAIN execution, f \in Hidden : <<i, f>> \in shown => execution[i]

\* What may be said in each phase, from the texts alone.
FitInCode(d) ==
  /\ Has(d.lines, LineKinds \ {"blank"}) /\ ~Has(d.lines, {"signature", "mention"})
  /\ d.words <= MAX_WORDS_CODE
  /\ \A a, b \in DOMAIN d.lines :
       Unbroken(d.lines, a, b) => CodeIn(d.lines, a, b) <= MAX_CODE_BLOCK_LINES
FitInLogic(d) ==
  /\ Has(d.lines, LineKinds \ {"blank"}) /\ d.words <= MAX_WORDS_LOGIC
  /\ \A i \in DOMAIN d.lines : d.lines[i] \in {"blank", "prose", "mention", "index"}
FitTexts == [LOGIC |-> {d \in Drafts : FitInLogic(d)}, CODE |-> {d \in Drafts : FitInCode(d)}]

\* The turn is one of TutorPromise: it says one text, fit for its phase or canned,
\* the canned one only after MaxRegenerations + 1 drafts (verifier.py:3-6).
Promise == INSTANCE TutorPromise WITH
  Fit <- FitTexts, Canned <- [LOGIC |-> LogicFallback, CODE |-> CodeFallback],
  MaxTries <- MaxRegenerations + 1, Nothing <- None,
  tries <- regenerations + (IF pc = "verifying" \/ said \in Drafts THEN 1 ELSE 0),
  outcome <- said
KeepsTutorPromise == Promise!Spec
=============================================================================
