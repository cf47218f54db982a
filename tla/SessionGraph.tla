---------------------------- MODULE SessionGraph ----------------------------
(***************************************************************************)
(* The pure part of the tutoring graph: the checkpointed session state     *)
(* (orchestrator/app/state.py), what each node writes (app/nodes/), and    *)
(* the edges that choose the next node (app/graph.py).  A node is an       *)
(* operator from the old state (and the answer of the language model or of *)
(* the sandbox) to the new state; nothing here is a step by itself.        *)
(*                                                                         *)
(* Data abstraction.  A student's text is a member of Texts, taken up to   *)
(* the normalisation of app/cache.py; a tutor draft is a member of Drafts, *)
(* and the deterministic verifier of each phase rejects some of them: a    *)
(* quoted line of code is a leak in LOGIC only, the name of the function   *)
(* to write, in the middle of a sentence, in CODE only.  Left out:         *)
(* problem_id, user_id and thread_id (fixed for a session), node_path and  *)
(* the rejection reasons (debug panel and prompt wording only).            *)
(***************************************************************************)
EXTENDS Naturals, Sequences

CONSTANTS
  Texts,            \* what a student may type, as logic, chat or code
  Blank,            \* the empty text (whitespace counts as empty)
  Drafts,           \* what the tutor model may answer
  LogicLeaks,       \* the drafts verify_logic_draft rejects
  CodeLeaks,        \* the drafts verify_code_draft rejects
  LogicFallback,    \* canned tutor turn of the LOGIC phase
  CodeFallback,     \* canned tutor turn of the CODE phase
  MaxRegenerations, \* config.MAX_REGENERATIONS, 2 in production
  None              \* Python's None

-----------------------------------------------------------------------------
(* The state *)

Phases     == {"LOGIC", "CODE", "DONE"}
Statuses   == {"LOGIC_WRITE", "LOGIC_CHAT", "CODE_WRITE", "CODE_CHAT", "SUCCESS"}
EventTypes == {"logic", "chat", "code"}
Verdicts   == {"PASS", "FAIL", "FLAGGED"}
Buckets    == {"ACCEPTED", "WRONG_ANSWER", "RUNTIME_ERROR", "TLE",
               "COMPILE_ERROR", "INFRA_ERROR"}

LogicNodes == {"evaluate_logic", "logic_tutor", "verify_logic", "summarize_logic"}
CodeNodes  == {"execute_code", "code_tutor", "verify_code", "finish"}
Nodes      == {"await_input", "END"} \cup LogicNodes \cup CodeNodes

Events  == [type : EventTypes, text : Texts \cup {Blank}]

\* A summary: the accepted wording, which the summariser chooses, and the earlier
\* attempts whose misconceptions it lists (misconceptions_corrected).
Summaries == [final : Texts, earlier : SUBSET Texts]

\* What the transcript can hold besides student texts and drafts.
SystemTexts == {"UNLOCK", "INFRA", "SUCCESS"} \cup Buckets
Replies     == Drafts \cup {LogicFallback, CodeFallback}
Messages    == [role : {"student", "tutor", "system"},
                kind : {"logic", "chat", "code", "hint", "info", "result"},
                text : Texts \cup {Blank} \cup Replies \cup SystemTexts]

\* What the proofs need of the constants: None is not a value of its own kind.
ASSUME GraphAssumption ==
  /\ MaxRegenerations \in Nat
  /\ LogicLeaks \subseteq Drafts
  /\ CodeLeaks \subseteq Drafts
  /\ None \notin Texts \cup Drafts \cup Summaries
  /\ Blank \notin Texts

SessionStates ==
  [phase : Phases, status : Statuses, pending_event : Events \cup {None},
   user_logic : Texts \cup {Blank}, user_code : Texts \cup {Blank},
   accepted_logic : Texts \cup {None}, logic_summary : Summaries \cup {None},
   last_eval : Verdicts \cup {None}, last_execution : Buckets \cup {None},
   attempts : [logic : Nat, code : Nat], draft : Drafts \cup {None},
   regenerations : Nat, fallback_used : BOOLEAN, messages : Seq(Messages)]

InitialState ==
  [phase |-> "LOGIC", status |-> "LOGIC_WRITE", pending_event |-> None,
   user_logic |-> Blank, user_code |-> Blank,
   accepted_logic |-> None, logic_summary |-> None,
   last_eval |-> None, last_execution |-> None,
   attempts |-> [logic |-> 0, code |-> 0], draft |-> None,
   regenerations |-> 0, fallback_used |-> FALSE, messages |-> << >>]

Message(role, kind, text) == [role |-> role, kind |-> kind, text |-> text]

\* The notices of summarize_logic, execute_code and finish.
UNLOCK_MESSAGE  == Message("system", "info", "UNLOCK")
INFRA_MESSAGE   == Message("system", "info", "INFRA")
SUCCESS_MESSAGE == Message("system", "info", "SUCCESS")
ResultMessage(bucket) == Message("system", "result", bucket)

\* The one channel with a reducer: what a node returns is appended.
Say(s, m) == [s EXCEPT !.messages = Append(@, m)]

-----------------------------------------------------------------------------
(* Accepting a student event *)

AllowedIn(phase) == CASE phase = "LOGIC" -> {"logic", "chat"}
                      [] phase = "CODE"  -> {"code", "chat"}
                      [] OTHER           -> {}

\* The status the event endpoint answers with, before anything runs.
ValidateEvent(s, e) ==
  CASE e.text = Blank                -> 422
    [] e.type \notin AllowedIn(s.phase) -> 409
    [] OTHER                         -> 200

StatusOnInput(type, phase) ==
  CASE type = "logic" -> "LOGIC_WRITE"
    [] type = "code"  -> "CODE_WRITE"
    [] OTHER -> IF phase = "LOGIC" THEN "LOGIC_CHAT" ELSE "CODE_CHAT"

\* A submission replaces the last one of its kind and leaves the other alone.
Submitted(kind, e, last) == IF e.type = kind THEN e.text ELSE last

\* Mutant: the rejections of the last turn are still counted.
AwaitInputKeepsCount(s, e) ==
  [s EXCEPT !.pending_event = e, !.fallback_used = FALSE, !.draft = None,
            !.user_logic = Submitted("logic", e, @),
            !.user_code  = Submitted("code", e, @),
            !.status     = StatusOnInput(e.type, s.phase),
            !.messages   = Append(@, Message("student", e.type, e.text))]

AwaitInput(s, e) ==
  [s EXCEPT !.pending_event = e,
            !.regenerations = 0, !.fallback_used = FALSE, !.draft = None,
            !.user_logic = Submitted("logic", e, @),
            !.user_code  = Submitted("code", e, @),
            !.status     = StatusOnInput(e.type, s.phase),
            !.messages   = Append(@, Message("student", e.type, e.text))]

RouteAfterInput(type, phase) ==
  CASE type = "logic" /\ phase = "LOGIC" -> "evaluate_logic"
    [] type = "chat"  /\ phase = "LOGIC" -> "logic_tutor"
    [] type = "code"  /\ phase = "CODE"  -> "execute_code"
    [] type = "chat"  /\ phase = "CODE"  -> "code_tutor"
    [] OTHER                             -> "await_input"

-----------------------------------------------------------------------------
(* LOGIC phase *)

Passing == {"PASS", "FLAGGED"}

\* What the rules below look at in the evaluator's parsed answer: its
\* verdict, whether it names a matched approach, whether it lists a violated
\* invariant, and whether confidence reaches FLAG_CONFIDENCE_THRESHOLD.
Evaluations == [verdict : {"PASS", "FAIL"}, matched : BOOLEAN,
                violated : BOOLEAN, confident : BOOLEAN]

ApplyFlaggedRule(e) ==
  IF ~e.matched /\ ~e.violated /\ ~e.confident THEN "FLAGGED" ELSE e.verdict

EvaluateLogic(s, verdict) ==
  [s EXCEPT !.last_eval = verdict, !.attempts.logic = @ + 1]

\* Mutant: only a flagged description is sent back.
RouteAfterEvalLenient(verdict) ==
  IF verdict # "FLAGGED" THEN "summarize_logic" ELSE "logic_tutor"

RouteAfterEval(verdict) ==
  IF verdict \in Passing THEN "summarize_logic" ELSE "logic_tutor"

\* The student's other logic submissions, which the summariser is shown.
EarlierAttempts(s) ==
  {s.messages[i].text : i \in {j \in DOMAIN s.messages :
      s.messages[j].role = "student" /\ s.messages[j].kind = "logic"}} \ {s.user_logic}

SummarizeLogic(s, summary) ==
  Say([s EXCEPT !.logic_summary = summary, !.accepted_logic = summary.final,
                !.phase = "CODE", !.status = "CODE_WRITE"],
      UNLOCK_MESSAGE)

-----------------------------------------------------------------------------
(* The two tutors and the verification loop they share in shape *)

LogicTutor(s, draft) == [s EXCEPT !.draft = draft]
CodeTutor(s, draft)  == [s EXCEPT !.draft = draft]

Deliver(s, text, status) ==
  Say([s EXCEPT !.draft = None, !.status = status], Message("tutor", "hint", text))

\* Mutant: a rejection is not counted.
RejectUncounted(s) == s

Reject(s) == [s EXCEPT !.regenerations = @ + 1]

DeliverFallback(s, text, status) ==
  Deliver([Reject(s) EXCEPT !.fallback_used = TRUE], text, status)

Exhausted(s) == s.regenerations + 1 > MaxRegenerations

VerifyLogic(s) ==
  CASE s.draft \notin LogicLeaks -> Deliver(s, s.draft, "LOGIC_CHAT")
    [] s.draft \in LogicLeaks /\ Exhausted(s) -> DeliverFallback(s, LogicFallback, "LOGIC_CHAT")
    [] OTHER -> Reject(s)

RouteAfterVerifyLogic(s) == IF s.draft # None THEN "logic_tutor" ELSE "await_input"

\* Mutant: the status is the one of verify_logic.
VerifyCodeWrongPane(s) ==
  CASE s.draft \notin CodeLeaks -> Deliver(s, s.draft, "LOGIC_CHAT")
    [] s.draft \in CodeLeaks /\ Exhausted(s) -> DeliverFallback(s, CodeFallback, "CODE_CHAT")
    [] OTHER -> Reject(s)

\* Mutant: when the attempts are used up, the last draft has to do.
VerifyCodeGivesUp(s) ==
  IF s.draft \notin CodeLeaks \/ Exhausted(s)
  THEN Deliver(s, s.draft, "CODE_CHAT") ELSE Reject(s)

VerifyCode(s) ==
  CASE s.draft \notin CodeLeaks -> Deliver(s, s.draft, "CODE_CHAT")
    [] s.draft \in CodeLeaks /\ Exhausted(s) -> DeliverFallback(s, CodeFallback, "CODE_CHAT")
    [] OTHER -> Reject(s)

RouteAfterVerifyCode(s) == IF s.draft # None THEN "code_tutor" ELSE "await_input"

-----------------------------------------------------------------------------
(* CODE phase *)

\* Mutant: only failed runs are counted.
ExecuteCodeCountsFailures(s, bucket) ==
  CASE bucket = "INFRA_ERROR" -> Say([s EXCEPT !.last_execution = bucket], INFRA_MESSAGE)
    [] bucket = "ACCEPTED" -> Say([s EXCEPT !.last_execution = bucket], ResultMessage(bucket))
    [] OTHER -> Say([s EXCEPT !.last_execution = bucket, !.attempts.code = @ + 1],
                    ResultMessage(bucket))

\* Mutant: a failure of the infrastructure costs the student an attempt.
ExecuteCodeCountsInfra(s, bucket) ==
  Say([s EXCEPT !.last_execution = bucket, !.attempts.code = @ + 1],
      IF bucket = "INFRA_ERROR" THEN INFRA_MESSAGE ELSE ResultMessage(bucket))

ExecuteCode(s, bucket) ==
  IF bucket = "INFRA_ERROR"
  THEN Say([s EXCEPT !.last_execution = bucket], INFRA_MESSAGE)
  ELSE Say([s EXCEPT !.last_execution = bucket, !.attempts.code = @ + 1],
           ResultMessage(bucket))

\* Mutant: a run that could not be judged is waved through.
RouteAfterExecuteWavesThrough(bucket) ==
  IF bucket \in {"ACCEPTED", "INFRA_ERROR"} THEN "finish" ELSE "code_tutor"

RouteAfterExecute(bucket) ==
  CASE bucket = "ACCEPTED"    -> "finish"
    [] bucket = "INFRA_ERROR" -> "await_input"
    [] OTHER                  -> "code_tutor"

\* Mutant: the phase is written to the status as well.
FinishWrongStatus(s) ==
  Say([s EXCEPT !.phase = "DONE", !.status = "DONE"], SUCCESS_MESSAGE)

Finish(s) ==
  Say([s EXCEPT !.phase = "DONE", !.status = "SUCCESS"],
      SUCCESS_MESSAGE)

=============================================================================
