------------------------- MODULE OrchestratorProofs -------------------------
(***************************************************************************)
(* Proofs about Orchestrator for every set of workers, texts and drafts    *)
(* and every bound: the invariants that hold however requests interleave,  *)
(* fail and are cut off by restarts.                                       *)
(*                                                                         *)
(* They rest on one idea: everything a worker or the store ever holds is a *)
(* checkpoint that is Sound, a property of one checkpoint by itself, and   *)
(* every node takes a sound checkpoint to a sound one.  Interleavings then *)
(* only decide which sound checkpoint is where.                            *)
(***************************************************************************)
EXTENDS Orchestrator, SequenceTheorems, TLAPS

-----------------------------------------------------------------------------
(* The inductive invariant *)

\* What a node may rely on when it is the next to run.
NodeReady(c) ==
  /\ c.next \in LogicNodes => c.st.phase = "LOGIC"
  /\ c.next \in CodeNodes => c.st.phase = "CODE"
  /\ c.next \in {"evaluate_logic", "summarize_logic"} => c.st.user_logic \in Texts
  /\ c.next = "summarize_logic" => c.st.last_eval \in Passing
  /\ c.next \in {"verify_logic", "verify_code"} => c.st.draft \in Drafts
  /\ c.next = "finish" => c.st.last_execution = "ACCEPTED" /\ c.st.attempts.code > 0

GateHeld(c) ==
  /\ c.st.phase # "LOGIC" <=> c.st.accepted_logic # None
  /\ c.st.phase # "LOGIC" => c.st.last_eval \in Passing /\ c.st.logic_summary # None
  /\ c.st.phase = "DONE" =>
       c.st.last_execution = "ACCEPTED" /\ c.st.attempts.code > 0 /\ c.next = "END"

TutorNodes == {"logic_tutor", "verify_logic", "code_tutor", "verify_code"}

\* The verification loop: a turn that has not delivered yet has rejections left.
LoopHeld(c) ==
  /\ c.st.regenerations <= MaxRegenerations + 1
  /\ c.st.fallback_used <=> c.st.regenerations = MaxRegenerations + 1
  /\ c.next \in LogicNodes \cup CodeNodes => c.st.regenerations <= MaxRegenerations
  /\ c.st.draft # None => c.next \in TutorNodes

\* Transcripts: the gates show, what the tutor says is verified or canned, and
\* what the student says is never blank (the event endpoint answers 422 before
\* a turn starts).
Speech(log) ==
  /\ LawfulTranscript(log)
  /\ VerifiedSpeech(log)
  /\ \A i \in DOMAIN log : log[i].role = "student" => log[i].text \in Texts

\* Which messages a transcript can be extended with.
MayFollow(log, m) ==
  /\ m = UNLOCK_MESSAGE => log # << >> /\ IsStudent(log[Len(log)], "logic")
  /\ m = SUCCESS_MESSAGE => log # << >> /\ log[Len(log)] = ResultMessage("ACCEPTED")
  /\ IsResult(m) => UnlockedBefore(log, Len(log) + 1)
  /\ IsHint(m) => \/ m.text \in LogicSpeech
                  \/ m.text \in CodeSpeech /\ UnlockedBefore(log, Len(log) + 1)
  /\ m.role = "student" => m.text \in Texts

\* The transcript of a session past LOGIC: it was unlocked, and since then the
\* tutor of the CODE phase has spoken.
CodeSide(log) == UnlockedBefore(log, Len(log) + 1) /\ CodeSpeechSinceUnlock(log)

\* What the next node may rely on in the transcript: the notices of
\* summarize_logic and finish answer its last message, and a session past
\* LOGIC was told so.
Told(c) ==
  LET log == c.st.messages
  IN  /\ c.next \in {"evaluate_logic", "summarize_logic"} =>
           log # << >> /\ IsStudent(log[Len(log)], "logic")
      /\ c.next = "finish" => log # << >> /\ log[Len(log)] = ResultMessage("ACCEPTED")
      /\ c.st.phase # "LOGIC" => CodeSide(log)

Sound(c) ==
  /\ c \in Checkpoints
  /\ NodeReady(c)
  /\ GateHeld(c)
  /\ LoopHeld(c)
  /\ Speech(c.st.messages)
  /\ Told(c)

\* What each worker's request has already established.
WorkerInv(w) ==
  /\ run[w] # NoSession => Sound(run[w])
  /\ pc[w] = "running" => run[w] # NoSession
  /\ dirty[w] \/ resume[w] => pc[w] = "running"
  /\ Serves(w, "admitted", EventTypes) \/ resume[w] =>
       req[w] \in Events /\ req[w].text \in Texts

IInv ==
  /\ TypeOK
  /\ store # NoSession => Sound(store)
  /\ \A w \in Workers : WorkerInv(w)

-----------------------------------------------------------------------------
(* Transcripts *)

\* A message that may follow a transcript keeps it lawful.
LEMMA SpeechAppend ==
  ASSUME NEW log \in Seq(Messages), Speech(log), NEW m \in Messages, MayFollow(log, m)
  PROVE  /\ Append(log, m) \in Seq(Messages)
         /\ Append(log, m) # << >> /\ Append(log, m)[Len(Append(log, m))] = m
         /\ Speech(Append(log, m))
         /\ m = UNLOCK_MESSAGE => CodeSide(Append(log, m))
         /\ CodeSide(log) /\ (IsHint(m) => m.text \in CodeSpeech) => CodeSide(Append(log, m))
<1> DEFINE new == Append(log, m)
<1>1. /\ new \in Seq(Messages) /\ Len(log) \in Nat
      /\ Len(new) = Len(log) + 1 /\ DOMAIN new = 1 .. Len(log) + 1
      /\ new # << >> /\ new[Len(log) + 1] = m
  OBVIOUS
<1>2. \A i \in 1 .. Len(log) : new[i] = log[i] /\ i \in DOMAIN log
  OBVIOUS
<1> HIDE DEF new
<1>3. \A i \in 1 .. Len(log) + 1 : UnlockedBefore(new, i) <=> UnlockedBefore(log, i)
  BY <1>1, <1>2 DEF UnlockedBefore
<1>4. ASSUME NEW i \in DOMAIN new
      PROVE  /\ new[i] = UNLOCK_MESSAGE => i > 1 /\ IsStudent(new[i - 1], "logic")
             /\ IsResult(new[i]) => UnlockedBefore(new, i)
             /\ new[i] = SUCCESS_MESSAGE => i > 1 /\ new[i - 1] = ResultMessage("ACCEPTED")
             /\ IsHint(new[i]) => \/ new[i].text \in LogicSpeech
                                  \/ new[i].text \in CodeSpeech /\ UnlockedBefore(new, i)
             /\ new[i].role = "student" => new[i].text \in Texts
  <2>1. CASE i \in 1 .. Len(log)
    <3>1. new[i] = log[i] /\ i \in DOMAIN log /\ (UnlockedBefore(new, i) <=> UnlockedBefore(log, i))
      BY <1>1, <1>2, <1>3, <2>1
    <3>2. i > 1 => new[i - 1] = log[i - 1]
      BY <1>1, <1>2, <2>1
    <3> QED
      BY <3>1, <3>2 DEF Speech, LawfulTranscript, VerifiedSpeech
  <2>2. CASE i = Len(log) + 1
    <3>1. new[i] = m /\ (UnlockedBefore(new, i) <=> UnlockedBefore(log, Len(log) + 1))
      BY <1>1, <1>3, <2>2
    <3>2. log # << >> => i > 1 /\ new[i - 1] = log[Len(log)]
      BY <1>1, <1>2, <2>2
    <3> QED
      BY <3>1, <3>2 DEF MayFollow
  <2> QED
    BY <1>1, <2>1, <2>2
<1>5. Speech(new)
  BY <1>4 DEF Speech, LawfulTranscript, VerifiedSpeech
<1>6. m = UNLOCK_MESSAGE \/ UnlockedBefore(log, Len(log) + 1) =>
        UnlockedBefore(new, Len(new) + 1)
  BY <1>1, <1>2 DEF UnlockedBefore
<1>7. ASSUME m = UNLOCK_MESSAGE PROVE CodeSpeechSinceUnlock(new)
  <2>1. ~IsHint(m)
    BY <1>7 DEF IsHint, UNLOCK_MESSAGE, Message
  <2>2. ASSUME NEW i \in DOMAIN new, IsHint(new[i]) PROVE UnlockedAfter(new, i)
    BY <1>1, <1>7, <2>1, <2>2 DEF UnlockedAfter
  <2> QED
    BY <2>2 DEF CodeSpeechSinceUnlock
<1>8. ASSUME CodeSpeechSinceUnlock(log), IsHint(m) => m.text \in CodeSpeech
      PROVE  CodeSpeechSinceUnlock(new)
  <2>1. ASSUME NEW i \in DOMAIN new, IsHint(new[i])
        PROVE  new[i].text \in CodeSpeech \/ UnlockedAfter(new, i)
    <3>1. CASE i \in 1 .. Len(log)
      <4>1. log[i].text \in CodeSpeech \/ UnlockedAfter(log, i)
        BY <1>2, <1>8, <2>1, <3>1 DEF CodeSpeechSinceUnlock
      <4>2. UnlockedAfter(log, i) => UnlockedAfter(new, i)
        BY <1>1, <1>2 DEF UnlockedAfter
      <4> QED
        BY <1>2, <3>1, <4>1, <4>2
    <3>2. CASE i = Len(log) + 1
      BY <1>1, <1>8, <2>1, <3>2
    <3> QED
      BY <1>1, <3>1, <3>2
  <2> QED
    BY <2>1 DEF CodeSpeechSinceUnlock
<1> QED
  BY <1>1, <1>5, <1>6, <1>7, <1>8 DEF new, CodeSide

-----------------------------------------------------------------------------
(* Every node takes a sound checkpoint to a sound one *)

LEMMA InitialStateSound ==
  ASSUME NEW log \in Seq(Messages), Speech(log)
  PROVE  Sound([st |-> [InitialState EXCEPT !.messages = log], next |-> "await_input"])
<1> DEFINE s == [InitialState EXCEPT !.messages = log]
<1>1. s \in SessionStates
  BY GraphAssumption
  DEF InitialState, SessionStates, Phases, Statuses
<1> QED
  BY <1>1, GraphAssumption
  DEF Sound, Told, NodeReady, GateHeld, LoopHeld, Checkpoints, Nodes, LogicNodes, CodeNodes, InitialState

LEMMA AwaitInputSound ==
  ASSUME NEW c, Sound(c), c.next = "await_input",
         NEW e \in Events, e.text \in Texts
  PROVE  Sound([st |-> AwaitInput(c.st, e), next |-> RouteAfterInput(e.type, c.st.phase)])
<1> DEFINE s == c.st
           m == Message("student", e.type, e.text)
           t == AwaitInput(s, e)
           n == RouteAfterInput(e.type, s.phase)
<1>1. s \in SessionStates /\ Speech(s.messages)
  BY DEF Sound, Checkpoints
<1>2. m \in Messages /\ IsStudent(m, e.type) /\ ~IsHint(m) /\ MayFollow(s.messages, m)
  BY DEF MayFollow, Message, Messages, IsHint, IsResult, IsStudent, Events, EventTypes,
         UNLOCK_MESSAGE, SUCCESS_MESSAGE
<1> DEFINE log == Append(s.messages, m)
<1>3. /\ log \in Seq(Messages) /\ Speech(log) /\ log # << >> /\ log[Len(log)] = m
      /\ CodeSide(s.messages) => CodeSide(log)
  BY <1>1, <1>2, SpeechAppend DEF SessionStates
<1>4. /\ StatusOnInput(e.type, s.phase) \in Statuses
      /\ Submitted("logic", e, s.user_logic) \in Texts \cup {Blank}
      /\ Submitted("code", e, s.user_code) \in Texts \cup {Blank}
      /\ e.type = "logic" => Submitted("logic", e, s.user_logic) \in Texts
  BY <1>1 DEF StatusOnInput, Statuses, Submitted, SessionStates, Events
<1>5. t \in SessionStates
  BY <1>1, <1>3, <1>4, GraphAssumption DEF AwaitInput, SessionStates
<1>6. /\ t.phase = s.phase /\ t.accepted_logic = s.accepted_logic
      /\ t.last_eval = s.last_eval /\ t.logic_summary = s.logic_summary
      /\ t.last_execution = s.last_execution /\ t.attempts = s.attempts
      /\ t.draft = None /\ t.regenerations = 0 /\ ~t.fallback_used
      /\ t.messages = log
      /\ t.user_logic = Submitted("logic", e, s.user_logic)
  BY <1>1 DEF AwaitInput, SessionStates
<1>7. /\ n \in {"await_input", "evaluate_logic", "logic_tutor", "execute_code", "code_tutor"}
      /\ n = "evaluate_logic" => e.type = "logic"
      /\ n \in LogicNodes => s.phase = "LOGIC"
      /\ n \in CodeNodes => s.phase = "CODE"
  BY DEF RouteAfterInput, LogicNodes, CodeNodes
<1>8. s.phase # "DONE"
  BY DEF Sound, GateHeld
<1> HIDE DEF t, n, m, log
<1> DEFINE d == [st |-> t, next |-> n]
<1>9. d \in Checkpoints
  BY <1>5, <1>7 DEF Checkpoints, Nodes, LogicNodes, CodeNodes
<1>10. NodeReady(d)
  BY <1>4, <1>6, <1>7 DEF NodeReady
<1>11. GateHeld(d)
  BY <1>6, <1>8 DEF Sound, GateHeld
<1>12. LoopHeld(d)
  BY <1>6, GraphAssumption DEF LoopHeld
<1>13. Told(d)
  BY <1>2, <1>3, <1>6, <1>7 DEF Sound, Told
<1> QED
  BY <1>3, <1>6, <1>9, <1>10, <1>11, <1>12, <1>13 DEF Sound, t, n

LEMMA EvaluateLogicSound ==
  ASSUME NEW c, Sound(c), c.next = "evaluate_logic", NEW verdict \in Verdicts
  PROVE  Sound([st |-> EvaluateLogic(c.st, verdict), next |-> RouteAfterEval(verdict)])
<1> DEFINE s == c.st
           t == EvaluateLogic(s, verdict)
           n == RouteAfterEval(verdict)
<1>1. s \in SessionStates /\ Speech(s.messages)
  BY DEF Sound, Checkpoints
<1>2. s.phase = "LOGIC" /\ s.accepted_logic = None /\ s.user_logic \in Texts
  BY DEF Sound, NodeReady, GateHeld, LogicNodes
<1>3. s.regenerations <= MaxRegenerations /\ s.draft = None
  BY DEF Sound, LoopHeld, LogicNodes, TutorNodes
<1>4. t \in SessionStates
  <2> DEFINE a == [s.attempts EXCEPT !.logic = @ + 1]
  <2>1. a \in [logic : Nat, code : Nat]
    BY <1>1 DEF SessionStates
  <2>2. t = [s EXCEPT !.last_eval = verdict, !.attempts = a]
    BY <1>1 DEF EvaluateLogic, SessionStates
  <2> HIDE DEF a
  <2> QED
    BY <1>1, <2>1, <2>2 DEF SessionStates
<1>5. /\ t.phase = s.phase /\ t.accepted_logic = s.accepted_logic
      /\ t.last_eval = verdict /\ t.user_logic = s.user_logic
      /\ t.draft = s.draft /\ t.regenerations = s.regenerations
      /\ t.fallback_used = s.fallback_used /\ t.messages = s.messages
  BY <1>1 DEF EvaluateLogic, SessionStates
<1>6. n \in {"summarize_logic", "logic_tutor"} /\ (n = "summarize_logic" => verdict \in Passing)
  BY DEF RouteAfterEval
<1> HIDE DEF t, n
<1> DEFINE d == [st |-> t, next |-> n]
<1>7. d \in Checkpoints
  BY <1>4, <1>6 DEF Checkpoints, Nodes, LogicNodes, CodeNodes
<1>8. NodeReady(d)
  BY <1>2, <1>5, <1>6 DEF NodeReady, CodeNodes
<1>9. GateHeld(d)
  BY <1>2, <1>5 DEF GateHeld
<1>10. LoopHeld(d)
  BY <1>3, <1>5 DEF Sound, LoopHeld
<1>11. Told(d)
  BY <1>2, <1>5, <1>6 DEF Sound, Told
<1> QED
  BY <1>1, <1>5, <1>7, <1>8, <1>9, <1>10, <1>11 DEF Sound, t, n

LEMMA SummarizeLogicSound ==
  ASSUME NEW c, Sound(c), c.next = "summarize_logic", NEW summary \in Summaries
  PROVE  Sound([st |-> SummarizeLogic(c.st, summary), next |-> "await_input"])
<1> DEFINE s == c.st
           t == SummarizeLogic(s, summary)
<1>1. s \in SessionStates /\ Speech(s.messages)
  BY DEF Sound, Checkpoints
<1>2. s.last_eval \in Passing /\ s.draft = None
  BY DEF Sound, NodeReady, LoopHeld, TutorNodes
<1> DEFINE log == Append(s.messages, UNLOCK_MESSAGE)
<1>3. UNLOCK_MESSAGE \in Messages /\ MayFollow(s.messages, UNLOCK_MESSAGE)
  BY DEF Sound, Told, MayFollow, UNLOCK_MESSAGE, SUCCESS_MESSAGE, Message, Messages,
         IsHint, IsResult, SystemTexts
<1>4. log \in Seq(Messages) /\ Speech(log) /\ CodeSide(log)
  BY <1>1, <1>3, SpeechAppend DEF SessionStates
<1>5. summary.final \in Texts
  BY DEF Summaries
<1>6. t \in SessionStates
  BY <1>1, <1>4, <1>5 DEF SummarizeLogic, Say, SessionStates, Phases, Statuses
<1>7. /\ t.phase = "CODE" /\ t.accepted_logic = summary.final /\ t.logic_summary = summary
      /\ t.last_eval = s.last_eval /\ t.draft = s.draft
      /\ t.regenerations = s.regenerations /\ t.fallback_used = s.fallback_used
      /\ t.messages = log
  BY <1>1 DEF SummarizeLogic, Say, SessionStates
<1> HIDE DEF t, log
<1> DEFINE d == [st |-> t, next |-> "await_input"]
<1>8. d \in Checkpoints
  BY <1>6 DEF Checkpoints, Nodes
<1>9. NodeReady(d)
  BY DEF NodeReady, LogicNodes, CodeNodes
<1>10. GateHeld(d)
  BY <1>2, <1>5, <1>7, GraphAssumption DEF GateHeld
<1>11. LoopHeld(d)
  BY <1>2, <1>7 DEF Sound, LoopHeld, LogicNodes, CodeNodes
<1>12. Told(d)
  BY <1>4, <1>7 DEF Told
<1> QED
  BY <1>4, <1>7, <1>8, <1>9, <1>10, <1>11, <1>12 DEF Sound, t

\* The two tutors write the same thing: a draft, and nothing else.
LEMMA DraftSound ==
  ASSUME NEW c, Sound(c), NEW draft \in Drafts, NEW n,
         \/ c.next = "logic_tutor" /\ n = "verify_logic"
         \/ c.next = "code_tutor" /\ n = "verify_code"
  PROVE  Sound([st |-> [c.st EXCEPT !.draft = draft], next |-> n])
<1> DEFINE s == c.st
           t == [s EXCEPT !.draft = draft]
<1>1. s \in SessionStates
  BY DEF Sound, Checkpoints
<1>2. t \in SessionStates
  BY <1>1 DEF SessionStates
<1>3. /\ t.phase = s.phase /\ t.accepted_logic = s.accepted_logic
      /\ t.logic_summary = s.logic_summary /\ t.last_eval = s.last_eval
      /\ t.draft = draft /\ t.regenerations = s.regenerations
      /\ t.fallback_used = s.fallback_used /\ t.messages = s.messages
  BY <1>1 DEF SessionStates
<1>4. /\ s.regenerations <= MaxRegenerations
      /\ n = "verify_logic" => s.phase = "LOGIC"
      /\ n = "verify_code" => s.phase = "CODE"
  BY DEF Sound, LoopHeld, NodeReady, LogicNodes, CodeNodes
<1> HIDE DEF t
<1> DEFINE d == [st |-> t, next |-> n]
<1>5. d \in Checkpoints
  BY <1>2 DEF Checkpoints, Nodes, LogicNodes, CodeNodes
<1>6. NodeReady(d)
  BY <1>3, <1>4 DEF NodeReady, LogicNodes, CodeNodes
<1>7. GateHeld(d)
  BY <1>3, <1>4 DEF Sound, GateHeld
<1>8. LoopHeld(d)
  BY <1>3, <1>4 DEF Sound, LoopHeld, TutorNodes
<1>9. Told(d)
  BY <1>3 DEF Sound, Told
<1> QED
  BY <1>3, <1>5, <1>6, <1>7, <1>8, <1>9 DEF Sound, t

\* Handing a text to the student ends the turn; it is the only way the tutor
\* gets a message into the transcript.
LEMMA DeliverSound ==
  ASSUME NEW s \in SessionStates, Speech(s.messages), s.phase \in {"LOGIC", "CODE"},
         GateHeld([st |-> s, next |-> "await_input"]),
         s.regenerations <= MaxRegenerations + 1,
         s.fallback_used <=> s.regenerations = MaxRegenerations + 1,
         Told([st |-> s, next |-> "await_input"]),
         NEW text, text \in IF s.phase = "LOGIC" THEN LogicSpeech ELSE CodeSpeech,
         NEW status \in Statuses
  PROVE  Sound([st |-> Deliver(s, text, status), next |-> "await_input"])
<1> DEFINE m == Message("tutor", "hint", text)
           t == Deliver(s, text, status)
<1> DEFINE log == Append(s.messages, m)
<1>1. m \in Messages
  BY DEF Message, Messages, Replies, LogicSpeech, CodeSpeech
<1>9. MayFollow(s.messages, m)
  BY DEF MayFollow, Told, CodeSide, Message, UNLOCK_MESSAGE, SUCCESS_MESSAGE, IsResult
<1>2. /\ log \in Seq(Messages) /\ Speech(log)
      /\ s.phase # "LOGIC" => CodeSide(log)
  <2>1. s.phase # "LOGIC" => CodeSide(s.messages) /\ m.text \in CodeSpeech
    BY DEF Told, Message
  <2> QED
    BY <1>1, <1>9, <2>1, SpeechAppend DEF SessionStates
<1>3. t \in SessionStates
  BY <1>2 DEF Deliver, Say, SessionStates
<1>4. /\ t.phase = s.phase /\ t.accepted_logic = s.accepted_logic
      /\ t.last_eval = s.last_eval /\ t.logic_summary = s.logic_summary
      /\ t.draft = None /\ t.regenerations = s.regenerations
      /\ t.fallback_used = s.fallback_used /\ t.messages = log
  BY DEF Deliver, Say, SessionStates
<1> HIDE DEF t, m, log
<1> DEFINE d == [st |-> t, next |-> "await_input"]
<1>5. d \in Checkpoints
  BY <1>3 DEF Checkpoints, Nodes
<1>6. NodeReady(d)
  BY DEF NodeReady, LogicNodes, CodeNodes
<1>7. GateHeld(d)
  BY <1>4 DEF GateHeld
<1>8. LoopHeld(d)
  BY <1>4 DEF LoopHeld, LogicNodes, CodeNodes
<1>10. Told(d)
  BY <1>2, <1>4 DEF Told
<1> QED
  BY <1>2, <1>4, <1>5, <1>6, <1>7, <1>8, <1>10 DEF Sound, t

\* What a verifier node starts from.
LEMMA AtVerifier ==
  ASSUME NEW c, Sound(c), c.next \in {"verify_logic", "verify_code"}
  PROVE  /\ c.st \in SessionStates /\ Speech(c.st.messages)
         /\ c.st.phase = IF c.next = "verify_logic" THEN "LOGIC" ELSE "CODE"
         /\ GateHeld([st |-> c.st, next |-> "await_input"])
         /\ Told([st |-> c.st, next |-> "await_input"])
         /\ c.st.draft \in Drafts /\ c.st.draft # None
         /\ c.st.regenerations \in Nat /\ c.st.regenerations <= MaxRegenerations
         /\ ~c.st.fallback_used
<1>1. c.st \in SessionStates /\ Speech(c.st.messages) /\ c.st.regenerations \in Nat
  BY DEF Sound, Checkpoints, SessionStates
<1>2. c.st.phase = IF c.next = "verify_logic" THEN "LOGIC" ELSE "CODE"
  BY DEF Sound, NodeReady, LogicNodes, CodeNodes
<1>3. GateHeld([st |-> c.st, next |-> "await_input"])
  BY <1>2 DEF Sound, GateHeld
<1>4. c.st.draft \in Drafts /\ c.st.draft # None
  BY GraphAssumption DEF Sound, NodeReady
<1>5. c.st.regenerations <= MaxRegenerations
  BY DEF Sound, LoopHeld, LogicNodes, CodeNodes
<1>6. ~c.st.fallback_used
  BY <1>1, <1>5, GraphAssumption DEF Sound, LoopHeld
<1>7. Told([st |-> c.st, next |-> "await_input"])
  BY DEF Sound, Told
<1> QED
  BY <1>1, <1>2, <1>3, <1>4, <1>5, <1>6, <1>7

\* The canned reply is only used with the last rejection spent.
LEMMA FallbackSound ==
  ASSUME NEW c, Sound(c), c.next \in {"verify_logic", "verify_code"}, Exhausted(c.st),
         NEW text,
         text = IF c.next = "verify_logic" THEN LogicFallback ELSE CodeFallback,
         NEW status \in Statuses
  PROVE  Sound([st |-> DeliverFallback(c.st, text, status), next |-> "await_input"])
<1> DEFINE s == c.st
           t == [Reject(s) EXCEPT !.fallback_used = TRUE]
<1>1. /\ s \in SessionStates /\ s.regenerations \in Nat
      /\ s.regenerations <= MaxRegenerations
  BY AtVerifier
<1>2. s.regenerations = MaxRegenerations /\ s.regenerations + 1 \in Nat
  BY <1>1, GraphAssumption DEF Exhausted
<1>3. t \in SessionStates
  BY <1>1, <1>2 DEF Reject, SessionStates
<1>4. /\ t.phase = s.phase /\ t.accepted_logic = s.accepted_logic
      /\ t.last_eval = s.last_eval /\ t.logic_summary = s.logic_summary
      /\ t.regenerations = s.regenerations + 1
      /\ t.fallback_used /\ t.messages = s.messages
  BY <1>1 DEF Reject, SessionStates
<1>5. t.phase \in {"LOGIC", "CODE"} /\ Speech(t.messages)
  BY <1>4, AtVerifier
<1> HIDE DEF t
<1>6. /\ GateHeld([st |-> t, next |-> "await_input"])
      /\ Told([st |-> t, next |-> "await_input"])
  BY <1>4, <1>5, AtVerifier DEF GateHeld, Told
<1>8. text \in IF t.phase = "LOGIC" THEN LogicSpeech ELSE CodeSpeech
  BY <1>4, AtVerifier DEF LogicSpeech, CodeSpeech
<1>7. Sound([st |-> Deliver(t, text, status), next |-> "await_input"])
  BY <1>2, <1>3, <1>4, <1>5, <1>6, <1>8, GraphAssumption, DeliverSound
<1> QED
  BY <1>7 DEF DeliverFallback, t

\* A rejected draft stays pending and goes back to the tutor that wrote it.
LEMMA RejectSound ==
  ASSUME NEW c, Sound(c), ~Exhausted(c.st), NEW n,
         \/ c.next = "verify_logic" /\ n = "logic_tutor"
         \/ c.next = "verify_code" /\ n = "code_tutor"
  PROVE  Sound([st |-> Reject(c.st), next |-> n])
<1> DEFINE s == c.st
           t == Reject(s)
<1>1. /\ s \in SessionStates /\ s.regenerations \in Nat
      /\ s.draft # None /\ ~s.fallback_used
  BY AtVerifier
<1>2. s.regenerations + 1 <= MaxRegenerations
  BY <1>1, GraphAssumption DEF Exhausted
<1>3. t \in SessionStates
  BY <1>1 DEF Reject, SessionStates
<1>4. /\ t.phase = s.phase /\ t.accepted_logic = s.accepted_logic
      /\ t.last_eval = s.last_eval /\ t.logic_summary = s.logic_summary
      /\ t.regenerations = s.regenerations + 1 /\ t.draft = s.draft
      /\ t.fallback_used = s.fallback_used /\ t.messages = s.messages
  BY <1>1 DEF Reject, SessionStates
<1> HIDE DEF t
<1> DEFINE d == [st |-> t, next |-> n]
<1>5. d \in Checkpoints
  BY <1>3 DEF Checkpoints, Nodes, LogicNodes, CodeNodes
<1>6. NodeReady(d)
  BY <1>4, AtVerifier DEF NodeReady, LogicNodes, CodeNodes
<1>7. GateHeld(d)
  BY <1>4, AtVerifier DEF GateHeld
<1>8. LoopHeld(d)
  BY <1>1, <1>2, <1>4, GraphAssumption DEF LoopHeld, TutorNodes
<1>9. Speech(d.st.messages)
  BY <1>4, AtVerifier
<1>10. Told(d)
  BY <1>4, AtVerifier DEF Told
<1> QED
  BY <1>5, <1>6, <1>7, <1>8, <1>9, <1>10 DEF Sound, t

LEMMA VerifyLogicSound ==
  ASSUME NEW c, Sound(c), c.next = "verify_logic"
  PROVE  LET t == VerifyLogic(c.st)
         IN  Sound([st |-> t, next |-> RouteAfterVerifyLogic(t)])
<1> DEFINE s == c.st
           t == VerifyLogic(s)
<1>0. /\ s \in SessionStates /\ Speech(s.messages) /\ s.phase = "LOGIC"
      /\ GateHeld([st |-> s, next |-> "await_input"])
      /\ Told([st |-> s, next |-> "await_input"]) /\ s.draft \in Drafts /\ s.draft # None
      /\ s.regenerations \in Nat /\ s.regenerations <= MaxRegenerations /\ ~s.fallback_used
  BY AtVerifier
<1>1. CASE s.draft \notin LogicLeaks
  <2>1. t = Deliver(s, s.draft, "LOGIC_CHAT")
    BY <1>1 DEF VerifyLogic
  <2>2. t.draft = None
    BY <1>0, <2>1 DEF Deliver, Say, SessionStates
  <2>3. /\ s.regenerations <= MaxRegenerations + 1
        /\ s.regenerations # MaxRegenerations + 1
        /\ s.draft \in LogicSpeech
    BY <1>0, <1>1, GraphAssumption DEF LogicSpeech
  <2>4. Sound([st |-> t, next |-> "await_input"])
    BY <1>0, <2>1, <2>3, DeliverSound DEF Statuses
  <2> QED
    BY <2>2, <2>4 DEF RouteAfterVerifyLogic
<1>2. CASE s.draft \in LogicLeaks /\ Exhausted(s)
  <2>1. t = DeliverFallback(s, LogicFallback, "LOGIC_CHAT")
    BY <1>2 DEF VerifyLogic
  <2>2. t.draft = None
    BY <1>0, <2>1 DEF DeliverFallback, Reject, Deliver, Say, SessionStates
  <2>3. Sound([st |-> t, next |-> "await_input"])
    BY <1>2, <2>1, FallbackSound DEF Statuses
  <2> QED
    BY <2>2, <2>3 DEF RouteAfterVerifyLogic
<1>3. CASE s.draft \in LogicLeaks /\ ~Exhausted(s)
  <2>1. t = Reject(s)
    BY <1>3 DEF VerifyLogic
  <2>2. t.draft # None
    BY <1>0, <2>1 DEF Reject, SessionStates
  <2>3. Sound([st |-> t, next |-> "logic_tutor"])
    BY <1>3, <2>1, RejectSound
  <2> QED
    BY <2>2, <2>3 DEF RouteAfterVerifyLogic
<1> QED
  BY <1>1, <1>2, <1>3

LEMMA VerifyCodeSound ==
  ASSUME NEW c, Sound(c), c.next = "verify_code"
  PROVE  LET t == VerifyCode(c.st)
         IN  Sound([st |-> t, next |-> RouteAfterVerifyCode(t)])
<1> DEFINE s == c.st
           t == VerifyCode(s)
<1>0. /\ s \in SessionStates /\ Speech(s.messages) /\ s.phase = "CODE"
      /\ GateHeld([st |-> s, next |-> "await_input"])
      /\ Told([st |-> s, next |-> "await_input"]) /\ s.draft \in Drafts /\ s.draft # None
      /\ s.regenerations \in Nat /\ s.regenerations <= MaxRegenerations /\ ~s.fallback_used
  BY AtVerifier
<1>1. CASE s.draft \notin CodeLeaks
  <2>1. t = Deliver(s, s.draft, "CODE_CHAT")
    BY <1>1 DEF VerifyCode
  <2>2. t.draft = None
    BY <1>0, <2>1 DEF Deliver, Say, SessionStates
  <2>3. /\ s.regenerations <= MaxRegenerations + 1
        /\ s.regenerations # MaxRegenerations + 1
        /\ s.draft \in CodeSpeech
    BY <1>0, <1>1, GraphAssumption DEF CodeSpeech
  <2>4. Sound([st |-> t, next |-> "await_input"])
    BY <1>0, <2>1, <2>3, DeliverSound DEF Statuses
  <2> QED
    BY <2>2, <2>4 DEF RouteAfterVerifyCode
<1>2. CASE s.draft \in CodeLeaks /\ Exhausted(s)
  <2>1. t = DeliverFallback(s, CodeFallback, "CODE_CHAT")
    BY <1>2 DEF VerifyCode
  <2>2. t.draft = None
    BY <1>0, <2>1 DEF DeliverFallback, Reject, Deliver, Say, SessionStates
  <2>3. Sound([st |-> t, next |-> "await_input"])
    BY <1>2, <2>1, FallbackSound DEF Statuses
  <2> QED
    BY <2>2, <2>3 DEF RouteAfterVerifyCode
<1>3. CASE s.draft \in CodeLeaks /\ ~Exhausted(s)
  <2>1. t = Reject(s)
    BY <1>3 DEF VerifyCode
  <2>2. t.draft # None
    BY <1>0, <2>1 DEF Reject, SessionStates
  <2>3. Sound([st |-> t, next |-> "code_tutor"])
    BY <1>3, <2>1, RejectSound
  <2> QED
    BY <2>2, <2>3 DEF RouteAfterVerifyCode
<1> QED
  BY <1>1, <1>2, <1>3

LEMMA ExecuteCodeSound ==
  ASSUME NEW c, Sound(c), c.next = "execute_code", NEW bucket \in Buckets
  PROVE  Sound([st |-> ExecuteCode(c.st, bucket), next |-> RouteAfterExecute(bucket)])
<1> DEFINE s == c.st
           t == ExecuteCode(s, bucket)
           m == IF bucket = "INFRA_ERROR" THEN INFRA_MESSAGE ELSE ResultMessage(bucket)
           n == RouteAfterExecute(bucket)
<1>1. s \in SessionStates /\ Speech(s.messages)
  BY DEF Sound, Checkpoints
<1>2. /\ s.phase = "CODE" /\ s.accepted_logic # None /\ s.logic_summary # None
      /\ s.last_eval \in Passing /\ s.draft = None /\ s.regenerations <= MaxRegenerations
  BY DEF Sound, NodeReady, GateHeld, LoopHeld, CodeNodes, TutorNodes
<1> DEFINE log == Append(s.messages, m)
<1>3. m \in Messages /\ ~IsHint(m) /\ MayFollow(s.messages, m)
  BY <1>2 DEF Sound, Told, CodeSide, MayFollow, INFRA_MESSAGE, ResultMessage, UNLOCK_MESSAGE,
     SUCCESS_MESSAGE, Message, Messages, IsHint, IsResult, SystemTexts, Buckets
<1>4. /\ log \in Seq(Messages) /\ Speech(log) /\ log # << >> /\ log[Len(log)] = m
      /\ CodeSide(s.messages) => CodeSide(log)
  BY <1>1, <1>3, SpeechAppend DEF SessionStates
<1> DEFINE a == IF bucket = "INFRA_ERROR" THEN s.attempts
                ELSE [s.attempts EXCEPT !.code = @ + 1]
<1>5. a \in [logic : Nat, code : Nat] /\ (bucket = "ACCEPTED" => a.code > 0)
  BY <1>1 DEF SessionStates
<1>6. t = [s EXCEPT !.last_execution = bucket, !.attempts = a,
                    !.messages = log]
  <2>1. CASE bucket = "INFRA_ERROR"
    BY <1>1, <2>1 DEF ExecuteCode, Say, SessionStates
  <2>2. CASE bucket # "INFRA_ERROR"
    BY <1>1, <2>2 DEF ExecuteCode, Say, SessionStates
  <2> QED
    BY <2>1, <2>2
<1>14. bucket = "ACCEPTED" => m = ResultMessage("ACCEPTED")
  OBVIOUS
<1> HIDE DEF t, m, a, log
<1>7. t \in SessionStates
  BY <1>1, <1>4, <1>5, <1>6 DEF SessionStates
<1>8. /\ t.phase = s.phase /\ t.accepted_logic = s.accepted_logic
      /\ t.logic_summary = s.logic_summary /\ t.last_eval = s.last_eval
      /\ t.draft = s.draft /\ t.regenerations = s.regenerations
      /\ t.fallback_used = s.fallback_used /\ t.last_execution = bucket
      /\ t.attempts = a /\ t.messages = log
  BY <1>1, <1>6 DEF SessionStates
<1>9. n \in {"finish", "await_input", "code_tutor"} /\ (n = "finish" => bucket = "ACCEPTED")
  BY DEF RouteAfterExecute
<1> HIDE DEF n
<1> DEFINE d == [st |-> t, next |-> n]
<1>10. d \in Checkpoints
  BY <1>7, <1>9 DEF Checkpoints, Nodes, CodeNodes
<1>11. NodeReady(d)
  BY <1>2, <1>5, <1>8, <1>9 DEF NodeReady, LogicNodes
<1>12. GateHeld(d)
  BY <1>2, <1>8 DEF GateHeld
<1>13. LoopHeld(d)
  BY <1>2, <1>8 DEF Sound, LoopHeld
<1>15. Told(d)
  BY <1>2, <1>4, <1>8, <1>9, <1>14 DEF Sound, Told
<1> QED
  BY <1>4, <1>8, <1>10, <1>11, <1>12, <1>13, <1>15 DEF Sound, t, n

LEMMA FinishSound ==
  ASSUME NEW c, Sound(c), c.next = "finish"
  PROVE  Sound([st |-> Finish(c.st), next |-> "END"])
<1> DEFINE s == c.st
           t == Finish(s)
<1>1. s \in SessionStates /\ Speech(s.messages)
  BY DEF Sound, Checkpoints
<1>2. /\ s.phase = "CODE" /\ s.accepted_logic # None /\ s.logic_summary # None
      /\ s.last_eval \in Passing /\ s.draft = None
      /\ s.last_execution = "ACCEPTED" /\ s.attempts.code > 0
  BY DEF Sound, NodeReady, GateHeld, LoopHeld, CodeNodes, TutorNodes
<1> DEFINE log == Append(s.messages, SUCCESS_MESSAGE)
<1>3. /\ SUCCESS_MESSAGE \in Messages /\ ~IsHint(SUCCESS_MESSAGE)
      /\ MayFollow(s.messages, SUCCESS_MESSAGE)
  BY DEF Sound, Told, MayFollow, SUCCESS_MESSAGE, UNLOCK_MESSAGE, Message, Messages,
         IsHint, IsResult, SystemTexts
<1>4. /\ log \in Seq(Messages) /\ Speech(log)
      /\ CodeSide(s.messages) => CodeSide(log)
  BY <1>1, <1>3, SpeechAppend DEF SessionStates
<1>5. t \in SessionStates
  BY <1>1, <1>4 DEF Finish, Say, SessionStates, Phases, Statuses
<1>6. /\ t.phase = "DONE" /\ t.accepted_logic = s.accepted_logic
      /\ t.logic_summary = s.logic_summary /\ t.last_eval = s.last_eval
      /\ t.draft = s.draft /\ t.regenerations = s.regenerations
      /\ t.fallback_used = s.fallback_used /\ t.last_execution = s.last_execution
      /\ t.attempts = s.attempts /\ t.messages = log
  BY <1>1 DEF Finish, Say, SessionStates
<1> HIDE DEF t, log
<1> DEFINE d == [st |-> t, next |-> "END"]
<1>7. d \in Checkpoints
  BY <1>5 DEF Checkpoints, Nodes
<1>8. NodeReady(d)
  BY DEF NodeReady, LogicNodes, CodeNodes
<1>9. GateHeld(d)
  BY <1>2, <1>6 DEF GateHeld
<1>10. LoopHeld(d)
  BY <1>2, <1>6 DEF Sound, LoopHeld, LogicNodes, CodeNodes
<1>11. Told(d)
  BY <1>2, <1>4, <1>6 DEF Sound, Told
<1> QED
  BY <1>4, <1>6, <1>7, <1>8, <1>9, <1>10, <1>11 DEF Sound, t

-----------------------------------------------------------------------------
(* Steps of the specification *)

LEMMA InitIInv == Init => IInv
<1> SUFFICES ASSUME Init PROVE IInv
  OBVIOUS
<1>1. TypeOK
  <2>1. [type |-> "reset", text |-> Blank] \in Requests
    BY DEF Requests
  <2>2. req \in [Workers -> Requests]
    BY <2>1 DEF Init
  <2>3. << >> \in Seq(Messages)
    OBVIOUS
  <2> QED
    BY <2>2, <2>3, OrchestratorAssumption DEF Init, TypeOK
<1>2. store = NoSession
  BY DEF Init
<1>3. \A w \in Workers : WorkerInv(w)
  BY DEF Init, WorkerInv, Serves, EventTypes
<1> QED
  BY <1>1, <1>2, <1>3 DEF IInv

\* A superstep: the worker's copy becomes another sound checkpoint.
LEMMA AdvanceInv ==
  ASSUME IInv, NEW w \in Workers, pc[w] = "running",
         NEW s, NEW n, Sound([st |-> s, next |-> n]), Advance(w, s, n),
         verdictCache' \in [Texts -> Verdicts \cup {None}],
         summaryCache' \in [Texts -> Summaries \cup {None}],
         ctxCached' \in BOOLEAN
  PROVE  IInv'
<1> DEFINE d == [st |-> s, next |-> n]
<1>1. d \in Checkpoints /\ d # NoSession
  BY OrchestratorAssumption DEF Sound
<1>2. /\ run' = [run EXCEPT ![w] = d] /\ dirty' = [dirty EXCEPT ![w] = TRUE]
      /\ resume' = [resume EXCEPT ![w] = FALSE]
      /\ store' = store /\ seen' = seen /\ pc' = pc /\ req' = req /\ reply' = reply
      /\ calls' = calls /\ crashes' = crashes
  BY DEF Advance, thread, request, budget
<1> HIDE DEF d
<1>3. TypeOK'
  <2>1. /\ run' \in [Workers -> Checkpoints \cup {NoSession}]
        /\ dirty' \in [Workers -> BOOLEAN] /\ resume' \in [Workers -> BOOLEAN]
    BY <1>1, <1>2 DEF IInv, TypeOK
  <2>2. pc' \in [Workers -> {"idle", "called", "admitted", "running"}]
    BY <1>2 DEF IInv, TypeOK
  <2> QED
    BY <1>2, <2>1, <2>2 DEF IInv, TypeOK
<1>4. ASSUME NEW v \in Workers PROVE WorkerInv(v)'
  <2>1. CASE v = w
    BY <1>1, <1>2, <2>1 DEF IInv, TypeOK, WorkerInv, Serves, d
  <2>2. CASE v # w
    BY <1>2, <2>2 DEF IInv, TypeOK, WorkerInv, Serves
  <2> QED
    BY <2>1, <2>2
<1>5. (store # NoSession => Sound(store))'
  BY <1>2 DEF IInv
<1> QED
  BY <1>3, <1>4, <1>5 DEF IInv

\* The end of a request: the worker forgets its copy.
LEMMA AnswerInv ==
  ASSUME IInv, NEW w \in Workers, NEW code \in {200, 404, 409, 422, 500}, Answer(w, code),
         store' = store \/ store' = NoSession,
         seen' \in Seq(Messages), ctxCached' \in BOOLEAN,
         UNCHANGED <<caches, budget>>
  PROVE  IInv'
<1>1. /\ pc' = [pc EXCEPT ![w] = "idle"] /\ reply' = [reply EXCEPT ![w] = code]
      /\ run' = [run EXCEPT ![w] = NoSession] /\ resume' = [resume EXCEPT ![w] = FALSE]
      /\ dirty' = [dirty EXCEPT ![w] = FALSE] /\ req' = req
      /\ verdictCache' = verdictCache /\ summaryCache' = summaryCache
      /\ calls' = calls /\ crashes' = crashes
  BY DEF Answer, caches, budget
<1>2. TypeOK'
  BY <1>1 DEF IInv, TypeOK
<1>3. ASSUME NEW v \in Workers PROVE WorkerInv(v)'
  <2>1. CASE v = w
    BY <1>1, <2>1 DEF IInv, TypeOK, WorkerInv, Serves
  <2>2. CASE v # w
    BY <1>1, <2>2 DEF IInv, TypeOK, WorkerInv, Serves
  <2> QED
    BY <2>1, <2>2
<1>4. (store # NoSession => Sound(store))'
  BY DEF IInv
<1> QED
  BY <1>2, <1>3, <1>4 DEF IInv

\* A request goes on to its invoke, or to the graph.
LEMMA AdmitInv ==
  ASSUME IInv, NEW w \in Workers, pc[w] = "called", Admit(w),
         req[w].type \in EventTypes => req[w] \in Events /\ req[w].text \in Texts,
         UNCHANGED <<thread, caches, ctxCached, budget>>
  PROVE  IInv'
<1>1. /\ pc' = [pc EXCEPT ![w] = "admitted"]
      /\ run' = run /\ resume' = resume /\ dirty' = dirty /\ req' = req /\ reply' = reply
      /\ store' = store /\ seen' = seen
      /\ verdictCache' = verdictCache /\ summaryCache' = summaryCache
      /\ ctxCached' = ctxCached /\ calls' = calls /\ crashes' = crashes
  BY DEF Admit, turn, thread, caches, budget
<1>2. TypeOK'
  BY <1>1 DEF IInv, TypeOK
<1>3. ASSUME NEW v \in Workers PROVE WorkerInv(v)'
  <2>1. CASE v = w
    BY <1>1, <2>1 DEF IInv, TypeOK, WorkerInv, Serves
  <2>2. CASE v # w
    BY <1>1, <2>2 DEF IInv, TypeOK, WorkerInv, Serves
  <2> QED
    BY <2>1, <2>2
<1> QED
  BY <1>1, <1>2, <1>3 DEF IInv

LEMMA InvokeInv ==
  ASSUME IInv, NEW w \in Workers, NEW c, Sound(c), NEW resuming \in BOOLEAN,
         Invoke(w, c, resuming),
         resuming => Serves(w, "admitted", EventTypes),
         UNCHANGED <<thread, caches, ctxCached, budget>>
  PROVE  IInv'
<1>1. c \in Checkpoints /\ c # NoSession
  BY OrchestratorAssumption DEF Sound
<1>2. /\ pc' = [pc EXCEPT ![w] = "running"] /\ run' = [run EXCEPT ![w] = c]
      /\ resume' = [resume EXCEPT ![w] = resuming]
      /\ dirty' = [dirty EXCEPT ![w] = ~resuming] /\ req' = req /\ reply' = reply
      /\ store' = store /\ seen' = seen
      /\ verdictCache' = verdictCache /\ summaryCache' = summaryCache
      /\ ctxCached' = ctxCached /\ calls' = calls /\ crashes' = crashes
  BY DEF Invoke, thread, caches, budget
<1>3. TypeOK'
  <2>1. /\ run' \in [Workers -> Checkpoints \cup {NoSession}]
        /\ dirty' \in [Workers -> BOOLEAN] /\ resume' \in [Workers -> BOOLEAN]
    BY <1>1, <1>2 DEF IInv, TypeOK
  <2>2. pc' \in [Workers -> {"idle", "called", "admitted", "running"}]
    BY <1>2 DEF IInv, TypeOK
  <2> QED
    BY <1>2, <2>1, <2>2 DEF IInv, TypeOK
<1>4. ASSUME NEW v \in Workers PROVE WorkerInv(v)'
  <2>1. CASE v = w
    BY <1>1, <1>2, <2>1 DEF IInv, TypeOK, WorkerInv, Serves
  <2>2. CASE v # w
    BY <1>2, <2>2 DEF IInv, TypeOK, WorkerInv, Serves
  <2> QED
    BY <2>1, <2>2
<1> QED
  BY <1>2, <1>3, <1>4 DEF IInv

\* The transcript a view shows is that of a sound checkpoint.
LEMMA ViewTyped == IInv => Transcript \in Seq(Messages) /\ Speech(Transcript)
<1> SUFFICES ASSUME IInv PROVE Transcript \in Seq(Messages) /\ Speech(Transcript)
  OBVIOUS
<1>1. CASE store = NoSession
  BY <1>1 DEF Transcript, Speech, LawfulTranscript, VerifiedSpeech
<1>2. CASE store # NoSession
  BY <1>2 DEF IInv, Sound, Checkpoints, SessionStates, Transcript
<1> QED
  BY <1>1, <1>2

\* What the node of a running worker finds.
LEMMA AtNode ==
  ASSUME IInv, NEW w \in Workers, NEW node, At(w, node)
  PROVE  pc[w] = "running" /\ Sound(run[w]) /\ run[w].next = node
  BY DEF IInv, WorkerInv, At

\* The caches hold what they are typed to hold.
LEMMA AfterPutTyped ==
  ASSUME NEW S, NEW table \in [Texts -> S \cup {None}], NEW key \in Texts, NEW value \in S,
         NEW table2 \in AfterPut(table, key, value)
  PROVE  table2 \in [Texts -> S \cup {None}]
  BY DEF AfterPut, PutIfAbsent

LEMMA RunNodeInv ==
  ASSUME IInv, NEW w \in Workers, RunNode(w)
  PROVE  IInv'
<1> DEFINE c == run[w]
           s == run[w].st
<1> USE DEF caches
<1>0. /\ verdictCache \in [Texts -> Verdicts \cup {None}]
      /\ summaryCache \in [Texts -> Summaries \cup {None}] /\ ctxCached \in BOOLEAN
  BY DEF IInv, TypeOK
<1>1. CASE AwaitInputNode(w)
  <2>1. Sound(c) /\ c.next = "await_input" /\ req[w] \in Events /\ req[w].text \in Texts
    BY <1>1, AtNode DEF AwaitInputNode, IInv, WorkerInv
  <2> QED
    BY <1>0, <1>1, <2>1, AtNode, AwaitInputSound, AdvanceInv DEF AwaitInputNode
<1>2. CASE EvaluateLogicNode(w)
  <2>1. Sound(c) /\ c.next = "evaluate_logic" /\ s.user_logic \in Texts /\ pc[w] = "running"
    BY <1>2, AtNode DEF EvaluateLogicNode, Sound, NodeReady
  <2>2. PICK verdict \in Verdicts :
          /\ Advance(w, EvaluateLogic(s, verdict), RouteAfterEval(verdict))
          /\ verdictCache' \in [Texts -> Verdicts \cup {None}]
    <3>1. CASE verdictCache[s.user_logic] # None /\ UNCHANGED verdictCache
               /\ Advance(w, EvaluateLogic(s, verdictCache[s.user_logic]),
                             RouteAfterEval(verdictCache[s.user_logic]))
      BY <1>0, <2>1, <3>1
    <3>2. ASSUME NEW e \in Evaluations,
                 Advance(w, EvaluateLogic(s, ApplyFlaggedRule(e)),
                            RouteAfterEval(ApplyFlaggedRule(e))),
                 verdictCache' \in AfterPut(verdictCache, s.user_logic, ApplyFlaggedRule(e))
          PROVE  \E verdict \in Verdicts :
                    /\ Advance(w, EvaluateLogic(s, verdict), RouteAfterEval(verdict))
                    /\ verdictCache' \in [Texts -> Verdicts \cup {None}]
      <4>1. ApplyFlaggedRule(e) \in Verdicts
        BY DEF ApplyFlaggedRule, Evaluations, Verdicts
      <4> QED
        BY <1>0, <2>1, <3>2, <4>1, AfterPutTyped
    <3> QED
      BY <1>2, <3>1, <3>2 DEF EvaluateLogicNode
  <2> QED
    BY <1>0, <1>2, <2>1, <2>2, EvaluateLogicSound, AdvanceInv DEF EvaluateLogicNode
<1>3. CASE SummarizeLogicNode(w)
  <2>1. Sound(c) /\ c.next = "summarize_logic" /\ s.user_logic \in Texts /\ pc[w] = "running"
    BY <1>3, AtNode DEF SummarizeLogicNode, Sound, NodeReady
  <2>2. \A text \in Texts : [final |-> text, earlier |-> EarlierAttempts(s)] \in Summaries
    <3>1. EarlierAttempts(s) \subseteq Texts
      BY <2>1 DEF EarlierAttempts, Sound, Speech
    <3> QED
      BY <2>1, <3>1 DEF Summaries
  <2>3. [final |-> s.user_logic, earlier |-> {}] \in Summaries
    BY <2>1 DEF Summaries
  <2>4. PICK summary \in Summaries :
          /\ Advance(w, SummarizeLogic(s, summary), "await_input")
          /\ summaryCache' \in [Texts -> Summaries \cup {None}]
    BY <1>0, <1>3, <2>1, <2>2, <2>3, AfterPutTyped DEF SummarizeLogicNode
  <2> QED
    BY <1>0, <1>3, <2>1, <2>4, SummarizeLogicSound, AdvanceInv DEF SummarizeLogicNode
<1>4. CASE LogicTutorNode(w)
  <2>1. PICK draft \in Drafts : Advance(w, [s EXCEPT !.draft = draft], "verify_logic")
    BY <1>4 DEF LogicTutorNode, LogicTutor
  <2>2. Sound([st |-> [s EXCEPT !.draft = draft], next |-> "verify_logic"])
    BY <1>4, AtNode, DraftSound DEF LogicTutorNode
  <2> QED
    BY <1>0, <1>4, <2>1, <2>2, AtNode, AdvanceInv DEF LogicTutorNode
<1>5. CASE VerifyLogicNode(w)
  BY <1>0, <1>5, AtNode, VerifyLogicSound, AdvanceInv DEF VerifyLogicNode
<1>6. CASE ExecuteCodeNode(w)
  BY <1>0, <1>6, AtNode, ExecuteCodeSound, AdvanceInv, OrchestratorAssumption
  DEF ExecuteCodeNode
<1>7. CASE CodeTutorNode(w)
  <2>1. PICK draft \in Drafts : Advance(w, [s EXCEPT !.draft = draft], "verify_code")
    BY <1>7 DEF CodeTutorNode, CodeTutor
  <2>2. Sound([st |-> [s EXCEPT !.draft = draft], next |-> "verify_code"])
    BY <1>7, AtNode, DraftSound DEF CodeTutorNode
  <2> QED
    BY <1>0, <1>7, <2>1, <2>2, AtNode, AdvanceInv DEF CodeTutorNode
<1>8. CASE VerifyCodeNode(w)
  BY <1>0, <1>8, AtNode, VerifyCodeSound, AdvanceInv DEF VerifyCodeNode
<1>9. CASE FinishNode(w)
  BY <1>0, <1>9, AtNode, FinishSound, AdvanceInv DEF FinishNode
<1> QED
  BY <1>1, <1>2, <1>3, <1>4, <1>5, <1>6, <1>7, <1>8, <1>9 DEF RunNode

\* An event that is validated is one of the student's and is not blank.
LEMMA ValidatedEvent ==
  ASSUME NEW s, NEW r \in Requests, r.type \in EventTypes, ValidateEvent(s, r) = 200
  PROVE  r \in Events /\ r.text \in Texts
<1>1. r \in Events
  BY DEF Requests, EventTypes
<1>2. r.text # Blank
  BY DEF ValidateEvent
<1> QED
  BY <1>1, <1>2 DEF Events

LEMMA ServeInv ==
  ASSUME IInv, NEW w \in Workers, Serve(w)
  PROVE  IInv'
<1>0. /\ Transcript \in Seq(Messages) /\ seen \in Seq(Messages) /\ ctxCached \in BOOLEAN
      /\ store # NoSession => Sound(store)
      /\ req[w] \in Requests
  BY ViewTyped DEF IInv, TypeOK
<1>1. CASE StartLookup(w)
  <2>1. CASE store # NoSession /\ AnswerView(w)
    BY <1>0, <1>1, <2>1, AnswerInv DEF StartLookup, AnswerView, caches, budget
  <2>2. CASE Admit(w) /\ UNCHANGED seen
    BY <1>1, <2>2, AdmitInv DEF StartLookup, Serves, EventTypes, thread
  <2> QED
    BY <1>1, <2>1, <2>2 DEF StartLookup
<1>2. CASE StartInvoke(w)
  <2> DEFINE c == [st |-> [InitialState EXCEPT !.messages = Transcript],
                   next |-> "await_input"]
  <2>1. Sound(c)
    BY ViewTyped, InitialStateSound
  <2>2. Invoke(w, c, FALSE)
    BY <1>2 DEF StartInvoke
  <2> HIDE DEF c
  <2> QED
    BY <1>2, <2>1, <2>2, InvokeInv DEF StartInvoke
<1>3. CASE EventAdmit(w)
  <2> DEFINE code == IF store = NoSession THEN 404 ELSE ValidateEvent(store.st, req[w])
  <2>1. code \in {200, 404, 409, 422}
    BY DEF ValidateEvent
  <2>2. CASE code = 200
    <3>1. req[w] \in Events /\ req[w].text \in Texts
      BY <1>0, <1>3, <2>2, ValidatedEvent DEF EventAdmit, Serves
    <3> QED
      BY <1>3, <2>2, <3>1, AdmitInv DEF EventAdmit, Serves
  <2>3. CASE code # 200
    BY <1>0, <1>3, <2>1, <2>3, AnswerInv DEF EventAdmit, thread, caches, budget
  <2> QED
    BY <2>2, <2>3
<1>4. CASE EventInvoke(w)
  <2>1. CASE store # NoSession /\ Invoke(w, store, TRUE)
    BY <1>0, <1>4, <2>1, InvokeInv DEF EventInvoke
  <2>2. CASE Answer(w, 500)
    BY <1>0, <1>4, <2>2, AnswerInv DEF EventInvoke, thread, caches, budget
  <2> QED
    BY <1>4, <2>1, <2>2 DEF EventInvoke
<1>5. CASE Reset(w)
  BY <1>0, <1>5, AnswerInv DEF Reset, caches, budget
<1>6. CASE RunNode(w)
  BY <1>6, RunNodeInv
<1>7. CASE NodeFails(w)
  <2>1. ctxCached' \in BOOLEAN
    BY <1>0, <1>7 DEF NodeFails
  <2>2. Answer(w, 500) /\ store' = store /\ seen' = seen /\ UNCHANGED <<caches, budget>>
    BY <1>7 DEF NodeFails, thread, caches, budget
  <2> QED
    BY <1>0, <2>1, <2>2, AnswerInv
<1>8. CASE Save(w)
  <2>1. Sound(run[w]) /\ run[w] \in Checkpoints
    BY <1>8 DEF Save, IInv, WorkerInv, Sound
  <2>2. /\ store' = run[w] /\ dirty' = [dirty EXCEPT ![w] = FALSE]
        /\ seen' = seen /\ run' = run /\ resume' = resume
        /\ pc' = pc /\ req' = req /\ reply' = reply
        /\ verdictCache' = verdictCache /\ summaryCache' = summaryCache
        /\ ctxCached' = ctxCached /\ calls' = calls /\ crashes' = crashes
    BY <1>8 DEF Save, caches, request, budget
  <2>3. TypeOK'
    BY <2>1, <2>2 DEF IInv, TypeOK
  <2>4. ASSUME NEW v \in Workers PROVE WorkerInv(v)'
    BY <2>2 DEF IInv, TypeOK, WorkerInv, Serves
  <2> QED
    BY <2>1, <2>2, <2>3, <2>4 DEF IInv
<1>9. CASE Respond(w)
  BY <1>0, <1>9, AnswerInv DEF Respond, AnswerView, caches, budget
<1> QED
  BY <1>1, <1>2, <1>3, <1>4, <1>5, <1>6, <1>7, <1>8, <1>9 DEF Serve

LEMMA NextIInv == IInv /\ [Next]_vars => IInv'
<1> SUFFICES ASSUME IInv, [Next]_vars PROVE IInv'
  OBVIOUS
<1>1. ASSUME NEW w \in Workers, Serve(w) PROVE IInv'
  BY <1>1, ServeInv
<1>2. ASSUME NEW w \in Workers, NEW r \in Requests, Call(w, r) PROVE IInv'
  <2>1. /\ pc[w] = "idle" /\ calls' \in Nat
        /\ pc' = [pc EXCEPT ![w] = "called"] /\ req' = [req EXCEPT ![w] = r]
        /\ reply' = [reply EXCEPT ![w] = 0]
        /\ store' = store /\ seen' = seen /\ run' = run /\ resume' = resume /\ dirty' = dirty
        /\ verdictCache' = verdictCache /\ summaryCache' = summaryCache
        /\ ctxCached' = ctxCached /\ crashes' = crashes
    BY <1>2 DEF Call, IInv, TypeOK, thread, caches, turn
  <2>2. TypeOK'
    BY <2>1 DEF IInv, TypeOK
  <2>3. ASSUME NEW v \in Workers PROVE WorkerInv(v)'
    <3>1. CASE v = w
      BY <2>1, <3>1 DEF IInv, TypeOK, WorkerInv, Serves
    <3>2. CASE v # w
      BY <2>1, <3>2 DEF IInv, TypeOK, WorkerInv, Serves
    <3> QED
      BY <3>1, <3>2
  <2> QED
    BY <2>1, <2>2, <2>3 DEF IInv
<1>3. ASSUME Crash PROVE IInv'
  <2>1. /\ pc' = [w \in Workers |-> "idle"] /\ run' = [w \in Workers |-> NoSession]
        /\ resume' = [w \in Workers |-> FALSE] /\ dirty' = [w \in Workers |-> FALSE]
        /\ ctxCached' = FALSE /\ crashes' \in Nat
        /\ store' = store /\ seen' = seen /\ req' = req /\ reply' = reply
        /\ verdictCache' = verdictCache /\ summaryCache' = summaryCache /\ calls' = calls
    BY <1>3 DEF Crash, IInv, TypeOK, thread, caches
  <2>2. TypeOK'
    BY <2>1 DEF IInv, TypeOK
  <2>3. ASSUME NEW v \in Workers PROVE WorkerInv(v)'
    BY <2>1 DEF WorkerInv, Serves
  <2> QED
    BY <2>1, <2>2, <2>3 DEF IInv
<1>4. ASSUME UNCHANGED vars PROVE IInv'
  <2>1. /\ store' = store /\ seen' = seen /\ pc' = pc /\ req' = req /\ reply' = reply
        /\ run' = run /\ resume' = resume /\ dirty' = dirty
        /\ verdictCache' = verdictCache /\ summaryCache' = summaryCache
        /\ ctxCached' = ctxCached /\ calls' = calls /\ crashes' = crashes
    BY <1>4 DEF vars
  <2>2. TypeOK'
    BY <2>1 DEF IInv, TypeOK
  <2>3. ASSUME NEW v \in Workers PROVE WorkerInv(v)'
    BY <2>1 DEF IInv, WorkerInv, Serves
  <2> QED
    BY <2>1, <2>2, <2>3 DEF IInv
<1> QED
  BY <1>1, <1>2, <1>3, <1>4 DEF Next

\* The inductive invariant holds of every behaviour of the orchestrator,
\* whatever the number of concurrent requests, failures and restarts.
THEOREM Invariance == Spec => []IInv
  BY InitIInv, NextIInv, PTL DEF Spec

\* The variables keep their types.
THEOREM TypeCorrect == Spec => []TypeOK
<1>1. IInv => TypeOK
  BY DEF IInv
<1> QED
  BY <1>1, Invariance, PTL

LEMMA LiveSound == IInv => \A c \in Live : Sound(c)
  BY DEF IInv, WorkerInv, Live

\* No interleaving of requests, no failure and no restart unlocks the editor
\* without a passing verdict and an accepted text.
THEOREM EditorGateHolds == Spec => []EditorGate
<1>1. IInv => EditorGate
  BY LiveSound DEF EditorGate, Sound, GateHeld
<1> QED
  BY <1>1, Invariance, PTL

\* A session is DONE only with an ACCEPTED run on record, counted as an attempt.
THEOREM SuccessGateHolds == Spec => []SuccessGate
<1>1. IInv => SuccessGate
  BY LiveSound DEF SuccessGate, Sound, GateHeld
<1> QED
  BY <1>1, Invariance, PTL

\* Every transcript bears the gates out: no unlock without a submission before
\* it, no test result before an unlock, no success without an ACCEPTED result.
THEOREM TranscriptBearsOut == Spec => []GatesInTranscript
<1>1. IInv => GatesInTranscript
  BY LiveSound DEF GatesInTranscript, Sound, Speech
<1> QED
  BY <1>1, Invariance, PTL

\* Text the verifier of its phase did not pass reaches no transcript: before the
\* unlock the LOGIC verifier's, and after it, in a session past LOGIC, the CODE
\* verifier's (verify_logic and verify_code gate every tutor turn).
THEOREM VerifiedOnly == Spec => []OnlyVerifiedTextDelivered
<1>1. IInv => OnlyVerifiedTextDelivered
  BY LiveSound DEF OnlyVerifiedTextDelivered, Sound, Speech, Told, CodeSide
<1> QED
  BY <1>1, Invariance, PTL

\* The verification loop rejects at most MAX_REGENERATIONS + 1 drafts in a turn
\* and falls back exactly when it has rejected that many.
THEOREM LedgerKept == Spec => []RegenerationLedger
<1>1. IInv => RegenerationLedger
  BY LiveSound DEF RegenerationLedger, Sound, LoopHeld, TutorNodes
<1> QED
  BY <1>1, Invariance, PTL

=============================================================================
