---------------------------- MODULE SessionProofs ----------------------------
(***************************************************************************)
(* Proofs about one session whose requests do not overlap: that it keeps   *)
(* what LearningSession promises, and that transcript, counters, pane and  *)
(* verdicts agree in every checkpoint, over failures and restarts.  The    *)
(* web client behaves like this (WebClient!BusyWhileAwaiting); a behaviour *)
(* in which nothing overlaps is one in which OneAtATime always holds,      *)
(* whatever the number of workers.  And, for any interleaving, how many    *)
(* supersteps a turn can take.                                             *)
(*                                                                         *)
(* The idea is that of OrchestratorProofs, one level up: what a checkpoint *)
(* must be is Orderly, a property of one checkpoint; how the checkpoint a  *)
(* turn works on relates to the stored one is TurnOf; and every node keeps *)
(* both.                                                                   *)
(***************************************************************************)
EXTENDS OrchestratorProofs, FiniteSetTheorems

-----------------------------------------------------------------------------
(* The inductive invariant *)

\* Requests for the session come one at a time.
OneAtATime == \A v, w \in Workers : pc[v] # "idle" /\ pc[w] # "idle" => v = w

\* How often a transcript has a message of the set M.
Occurs(log, M) == Cardinality({i \in DOMAIN log : log[i] \in M})

LogicSubmissions == {m \in Messages : IsStudent(m, "logic")}
CodeSubmissions  == {m \in Messages : IsStudent(m, "code")}
Results          == {m \in Messages : IsResult(m)}

\* The pane fits the phase.
Pane(c) ==
  /\ c.st.phase = "LOGIC" => c.st.status \in {"LOGIC_WRITE", "LOGIC_CHAT"}
  /\ c.st.phase = "CODE"  => c.st.status \in {"CODE_WRITE", "CODE_CHAT"}
  /\ c.st.phase = "DONE"  => c.st.status = "SUCCESS"

Alternates(log) ==
  \A i \in 1 .. Len(log) - 1 : ~(log[i].role = "student" /\ log[i + 1].role = "student")

\* A graph that waits has answered.
Answered(c) ==
  LET log == c.st.messages
  IN  /\ Alternates(log)
      /\ c.next \in {"await_input", "END"} /\ log # << >> => log[Len(log)].role # "student"

Waiting(c, node) == IF c.next = node THEN 1 ELSE 0

\* The counters are those of the transcript.
Counted(c) ==
  LET log == c.st.messages
  IN  /\ c.st.attempts.logic + Waiting(c, "evaluate_logic") = Occurs(log, LogicSubmissions)
      /\ c.st.attempts.code = Occurs(log, Results)
      /\ c.st.attempts.code + Waiting(c, "execute_code") + Occurs(log, {INFRA_MESSAGE}) =
           Occurs(log, CodeSubmissions)

Orderly(c) ==
  /\ Pane(c)
  /\ Answered(c)
  /\ Counted(c)
  /\ c.st.last_eval # None => c.st.user_logic \in Texts

Notices == {UNLOCK_MESSAGE, SUCCESS_MESSAGE}

\* What a turn begun at checkpoint old has made of it: more conversation, an
\* unlock, or a success, and nothing after one of the last two.
TurnOf(old, c) ==
  LET a == old.st.messages
      b == c.st.messages
  IN  /\ IsPrefix(a, b)
      /\ \/ /\ c.st.phase = old.st.phase
            /\ a # b => Last(b) \notin Notices /\ old.st.phase # "DONE"
         \/ /\ old.st.phase = "LOGIC" /\ c.st.phase = "CODE" /\ c.next = "await_input"
            /\ a # b /\ Last(b) = UNLOCK_MESSAGE
         \/ /\ old.st.phase = "CODE" /\ c.st.phase = "DONE"
            /\ a # b /\ Last(b) = SUCCESS_MESSAGE
            /\ b[Len(b) - 1] = ResultMessage("ACCEPTED")

FirstCheckpoint == [st |-> InitialState, next |-> "await_input"]

Validated(w) == store # NoSession /\ ValidateEvent(store.st, req[w]) = 200

\* The request in progress and the stored checkpoint.
TurnInv(w) ==
  /\ pc[w] # "running" => run[w] = NoSession
  /\ Serves(w, "admitted", {"start"}) => store = NoSession
  /\ Serves(w, "admitted", EventTypes) => Validated(w)
  /\ resume[w] => Validated(w) /\ run[w] = store
  /\ pc[w] = "running" =>
       /\ Orderly(run[w])
       /\ IF store = NoSession THEN run[w] = FirstCheckpoint ELSE TurnOf(store, run[w])

SInv ==
  /\ store # NoSession => Orderly(store)
  /\ \A w \in Workers : TurnInv(w)
  /\ IsPrefix(seen, Transcript)

-----------------------------------------------------------------------------
(* Sequences *)

LEMMA PrefixElements ==
  ASSUME NEW S, NEW s \in Seq(S), NEW t \in Seq(S)
  PROVE  IsPrefix(s, t) <=> Len(s) <= Len(t) /\ \A i \in 1 .. Len(s) : s[i] = t[i]
<1>1. Len(s) \in Nat /\ Len(t) \in Nat
  OBVIOUS
<1>2. SubSeq(s, 1, Len(s)) = s
  BY <1>1, SubSeqFull
<1>3. CASE Len(s) <= Len(t)
  <2> DEFINE u == SubSeq(t, 1, Len(s))
  <2>1. u \in Seq(S) /\ Len(u) = Len(s) /\ \A i \in 1 .. Len(s) : u[i] = t[i]
    BY <1>1, <1>3
  <2> HIDE DEF u
  <2>2. s = u <=> \A i \in 1 .. Len(s) : s[i] = t[i]
    BY <1>1, <2>1, SeqEqual
  <2> QED
    BY <1>2, <1>3, <2>2 DEF IsPrefix, u
<1> QED
  BY <1>3 DEF IsPrefix

LEMMA PrefixReflexive == ASSUME NEW S, NEW s \in Seq(S) PROVE IsPrefix(s, s)
  BY DEF IsPrefix

LEMMA PrefixTransitive ==
  ASSUME NEW S, NEW s \in Seq(S), NEW t \in Seq(S), NEW u \in Seq(S),
         IsPrefix(s, t), IsPrefix(t, u)
  PROVE  IsPrefix(s, u)
<1>1. Len(s) \in Nat /\ Len(t) \in Nat /\ Len(u) \in Nat
  OBVIOUS
<1>2. /\ Len(s) <= Len(t) /\ \A i \in 1 .. Len(s) : s[i] = t[i]
      /\ Len(t) <= Len(u) /\ \A i \in 1 .. Len(t) : t[i] = u[i]
  BY PrefixElements
<1>3. Len(s) <= Len(u) /\ \A i \in 1 .. Len(s) : s[i] = u[i]
  BY <1>1, <1>2
<1> QED
  BY <1>3, PrefixElements

\* What is appended to an extension makes a longer one.
LEMMA PrefixAppend ==
  ASSUME NEW S, NEW s \in Seq(S), NEW t \in Seq(S), IsPrefix(s, t), NEW m \in S
  PROVE  IsPrefix(s, Append(t, m)) /\ s # Append(t, m) /\ Last(Append(t, m)) = m
<1> DEFINE u == Append(t, m)
<1>1. /\ Len(s) \in Nat /\ Len(t) \in Nat /\ u \in Seq(S) /\ Len(u) = Len(t) + 1
      /\ u[Len(t) + 1] = m /\ \A i \in 1 .. Len(t) : u[i] = t[i]
  OBVIOUS
<1> HIDE DEF u
<1>2. Len(s) <= Len(t) /\ \A i \in 1 .. Len(s) : s[i] = t[i]
  BY PrefixElements
<1>3. Len(s) <= Len(u) /\ \A i \in 1 .. Len(s) : s[i] = u[i]
  BY <1>1, <1>2
<1>4. IsPrefix(s, u)
  BY <1>1, <1>3, PrefixElements
<1>5. s # u
  BY <1>1, <1>2
<1> QED
  BY <1>1, <1>4, <1>5 DEF Last, u

LEMMA OccursAppend ==
  ASSUME NEW log \in Seq(Messages), NEW m, NEW M
  PROVE  /\ Occurs(log, M) \in Nat
         /\ Occurs(Append(log, m), M) = Occurs(log, M) + IF m \in M THEN 1 ELSE 0
<1> DEFINE new == Append(log, m)
           n   == Len(log) + 1
           I   == {i \in DOMAIN log : log[i] \in M}
           J   == {i \in DOMAIN new : new[i] \in M}
<1>1. /\ Len(log) \in Nat /\ DOMAIN log = 1 .. Len(log) /\ DOMAIN new = 1 .. n
      /\ new[n] = m /\ \A i \in 1 .. Len(log) : new[i] = log[i]
  OBVIOUS
<1> HIDE DEF new
<1>2. IsFiniteSet(I) /\ Cardinality(I) \in Nat
  <2>1. IsFiniteSet(1 .. Len(log)) /\ I \subseteq 1 .. Len(log)
    BY <1>1, FS_Interval
  <2>2. IsFiniteSet(I)
    BY <2>1, FS_Subset
  <2> QED
    BY <2>2, FS_CardinalityType
<1>3. n \notin I /\ J = IF m \in M THEN I \cup {n} ELSE I
  BY <1>1
<1> HIDE DEF I, J, n
<1>4. Cardinality(J) = Cardinality(I) + IF m \in M THEN 1 ELSE 0
  <2>1. CASE m \in M
    BY <1>2, <1>3, <2>1, FS_AddElement
  <2>2. CASE m \notin M
    BY <1>2, <1>3, <2>2
  <2> QED
    BY <2>1, <2>2
<1> QED
  BY <1>2, <1>4 DEF Occurs, I, J, new

LEMMA OccursEmpty == ASSUME NEW M PROVE Occurs(<< >>, M) = 0
  BY FS_EmptySet DEF Occurs

-----------------------------------------------------------------------------
(* Nodes *)

\* What a node does to the transcript, and with it to the phase.
NodeWrites(c, d) ==
  LET a == c.st.messages
      b == d.st.messages
  IN  \/ d.st.phase = c.st.phase /\ b = a
      \/ d.st.phase = c.st.phase /\ \E m \in Messages \ Notices : b = Append(a, m)
      \/ /\ c.st.phase = "LOGIC" /\ d.st.phase = "CODE" /\ d.next = "await_input"
         /\ b = Append(a, UNLOCK_MESSAGE)
      \/ /\ c.st.phase = "CODE" /\ d.st.phase = "DONE"
         /\ a # << >> /\ Last(a) = ResultMessage("ACCEPTED")
         /\ b = Append(a, SUCCESS_MESSAGE)

\* Only evaluate_logic changes what is known of the text under evaluation.
KeepsVerdict(c, d) ==
  d.next = "evaluate_logic" \/ ( /\ d.st.last_eval = c.st.last_eval
                                 /\ d.st.user_logic = c.st.user_logic )

\* A message may follow unless it and the last one are both the student's.
LEMMA AlternatesAppend ==
  ASSUME NEW log \in Seq(Messages), Alternates(log), NEW m,
         m.role = "student" /\ log # << >> => log[Len(log)].role # "student"
  PROVE  Alternates(Append(log, m))
<1> DEFINE new == Append(log, m)
<1>1. /\ Len(log) \in Nat /\ Len(new) = Len(log) + 1 /\ new[Len(log) + 1] = m
      /\ \A i \in 1 .. Len(log) : new[i] = log[i]
  OBVIOUS
<1> HIDE DEF new
<1>2. ASSUME NEW i \in 1 .. Len(log)
      PROVE  ~(new[i].role = "student" /\ new[i + 1].role = "student")
  <2>1. CASE i = Len(log)
    BY <1>1, <2>1
  <2>2. CASE i # Len(log)
    <3>1. i \in 1 .. Len(log) - 1 /\ new[i] = log[i] /\ new[i + 1] = log[i + 1]
      BY <1>1, <2>2
    <3> QED
      BY <3>1 DEF Alternates
  <2> QED
    BY <2>1, <2>2
<1> QED
  BY <1>1, <1>2 DEF Alternates, new

\* A node that says nothing and neither asks for an evaluation nor a run.
LEMMA Silent ==
  ASSUME NEW c \in Checkpoints, Orderly(c), NEW d,
         d.next \notin {"await_input", "END", "evaluate_logic", "execute_code"},
         c.next # "execute_code",
         d.st.messages = c.st.messages, d.st.phase = c.st.phase, d.st.status = c.st.status,
         d.st.attempts.logic = c.st.attempts.logic + Waiting(c, "evaluate_logic"),
         d.st.attempts.code = c.st.attempts.code,
         d.st.user_logic = c.st.user_logic,
         d.st.last_eval # None => d.st.user_logic \in Texts
  PROVE  Orderly(d)
<1>1. c.st.attempts.logic \in Nat /\ c.st.attempts.code \in Nat /\ c.st.messages \in Seq(Messages)
  BY DEF Checkpoints, SessionStates
<1>2. Pane(d) /\ Answered(d)
  BY DEF Orderly, Pane, Answered
<1>3. Counted(d)
  <2>1. Waiting(d, "evaluate_logic") = 0 /\ Waiting(d, "execute_code") = 0
        /\ Waiting(c, "execute_code") = 0 /\ Waiting(c, "evaluate_logic") \in {0, 1}
    BY DEF Waiting
  <2>2. \A M : Occurs(c.st.messages, M) \in Nat
    BY <1>1, OccursAppend
  <2> QED
    BY <1>1, <2>1, <2>2 DEF Orderly, Counted
<1> QED
  BY <1>2, <1>3 DEF Orderly

\* A node that answers: a hint, a notice or a result.
LEMMA Replied ==
  ASSUME NEW c \in Checkpoints, Orderly(c), NEW d, NEW m \in Messages, m.role # "student",
         d.next \notin {"evaluate_logic", "execute_code"}, c.next # "evaluate_logic",
         d.st.messages = Append(c.st.messages, m), Pane(d),
         d.st.attempts.logic = c.st.attempts.logic,
         d.st.attempts.code = c.st.attempts.code + IF IsResult(m) THEN 1 ELSE 0,
         c.next = "execute_code" <=> IsResult(m) \/ m = INFRA_MESSAGE,
         d.st.user_logic = c.st.user_logic, d.st.last_eval = c.st.last_eval
  PROVE  Orderly(d)
<1> DEFINE log == c.st.messages
           new == d.st.messages
<1>1. c.st.attempts.logic \in Nat /\ c.st.attempts.code \in Nat /\ log \in Seq(Messages)
  BY DEF Checkpoints, SessionStates
<1>2. /\ Len(log) \in Nat /\ Len(new) = Len(log) + 1 /\ new[Len(new)] = m
      /\ \A i \in 1 .. Len(log) : new[i] = log[i]
  BY <1>1
<1>3. Answered(d)
  <2>1. Alternates(log)
    BY DEF Orderly, Answered
  <2>2. Alternates(new)
    BY <1>1, <2>1, AlternatesAppend
  <2> QED
    BY <1>2, <2>2 DEF Answered
<1>4. Counted(d)
  <2>1. /\ Waiting(d, "evaluate_logic") = 0 /\ Waiting(d, "execute_code") = 0
        /\ Waiting(c, "evaluate_logic") = 0
        /\ Waiting(c, "execute_code") = IF IsResult(m) \/ m = INFRA_MESSAGE THEN 1 ELSE 0
    BY DEF Waiting
  <2>2. m \notin LogicSubmissions /\ m \notin CodeSubmissions /\ (m \in Results <=> IsResult(m))
    BY DEF LogicSubmissions, CodeSubmissions, Results, IsStudent
  <2>3. ~(IsResult(m) /\ m = INFRA_MESSAGE)
    BY DEF IsResult, INFRA_MESSAGE, Message
  <2>4. ASSUME NEW M
        PROVE  /\ Occurs(log, M) \in Nat
               /\ Occurs(new, M) = Occurs(log, M) + IF m \in M THEN 1 ELSE 0
    <3>1. new = Append(log, m)
      OBVIOUS
    <3> HIDE DEF log, new
    <3> QED
      BY <1>1, <3>1, OccursAppend
  <2>5. /\ Occurs(new, LogicSubmissions) = Occurs(log, LogicSubmissions)
        /\ Occurs(new, CodeSubmissions) = Occurs(log, CodeSubmissions)
        /\ Occurs(new, Results) = Occurs(log, Results) + IF IsResult(m) THEN 1 ELSE 0
        /\ Occurs(new, {INFRA_MESSAGE}) =
             Occurs(log, {INFRA_MESSAGE}) + IF m = INFRA_MESSAGE THEN 1 ELSE 0
    BY <2>2, <2>4
  <2>6. /\ c.st.attempts.logic + Waiting(c, "evaluate_logic") = Occurs(log, LogicSubmissions)
        /\ c.st.attempts.code = Occurs(log, Results)
        /\ c.st.attempts.code + Waiting(c, "execute_code") + Occurs(log, {INFRA_MESSAGE}) =
             Occurs(log, CodeSubmissions)
    BY DEF Orderly, Counted
  <2> HIDE DEF log, new
  <2>7. /\ d.st.attempts.logic + Waiting(d, "evaluate_logic") = Occurs(new, LogicSubmissions)
        /\ d.st.attempts.code = Occurs(new, Results)
        /\ d.st.attempts.code + Waiting(d, "execute_code") + Occurs(new, {INFRA_MESSAGE}) =
             Occurs(new, CodeSubmissions)
    BY <1>1, <2>1, <2>3, <2>4, <2>5, <2>6
  <2> QED
    BY <2>7 DEF Counted, new
<1> QED
  BY <1>3, <1>4 DEF Orderly

\* A validated event is taken in by a graph that has answered the last one.
LEMMA AwaitInputTurn ==
  ASSUME NEW c, Sound(c), Orderly(c), c.next = "await_input",
         NEW e \in Events, e.text \in Texts, ValidateEvent(c.st, e) = 200
  PROVE  LET d == [st |-> AwaitInput(c.st, e), next |-> RouteAfterInput(e.type, c.st.phase)]
         IN  Orderly(d) /\ NodeWrites(c, d) /\ KeepsVerdict(c, d)
<1> DEFINE s == c.st
           t == AwaitInput(s, e)
           n == RouteAfterInput(e.type, s.phase)
           m == Message("student", e.type, e.text)
           log == s.messages
<1>1. /\ s \in SessionStates /\ log \in Seq(Messages) /\ Len(log) \in Nat
      /\ s.attempts.logic \in Nat /\ s.attempts.code \in Nat
  BY DEF Sound, Checkpoints, SessionStates
<1>2. \/ e.type = "logic" /\ s.phase = "LOGIC" /\ n = "evaluate_logic"
      \/ e.type = "chat" /\ s.phase = "LOGIC" /\ n = "logic_tutor"
      \/ e.type = "chat" /\ s.phase = "CODE" /\ n = "code_tutor"
      \/ e.type = "code" /\ s.phase = "CODE" /\ n = "execute_code"
  BY <1>1 DEF ValidateEvent, AllowedIn, RouteAfterInput, SessionStates, Phases, Events, EventTypes
<1>3. /\ t.phase = s.phase /\ t.attempts = s.attempts /\ t.last_eval = s.last_eval
      /\ t.messages = Append(log, m) /\ t.status = StatusOnInput(e.type, s.phase)
      /\ t.user_logic = IF e.type = "logic" THEN e.text ELSE s.user_logic
  BY <1>1 DEF AwaitInput, SessionStates, Submitted
<1>4. /\ m \in Messages \ Notices /\ m.role = "student"
      /\ m \in LogicSubmissions <=> e.type = "logic"
      /\ m \in CodeSubmissions <=> e.type = "code"
      /\ m \notin Results /\ m # INFRA_MESSAGE
  BY DEF Message, Messages, Notices, UNLOCK_MESSAGE, SUCCESS_MESSAGE, INFRA_MESSAGE, Events,
         EventTypes, LogicSubmissions, CodeSubmissions, Results, IsStudent, IsResult
<1> DEFINE new == Append(log, m)
<1>5. /\ Len(new) = Len(log) + 1 /\ new[Len(new)] = m
      /\ \A i \in 1 .. Len(log) : new[i] = log[i]
  BY <1>1
<1> HIDE DEF t, n, m, new
<1> DEFINE d == [st |-> t, next |-> n]
<1>6. Pane(d)
  BY <1>2, <1>3 DEF Pane, StatusOnInput
<1>7. Answered(d)
  <2>1. Alternates(log) /\ (log # << >> => log[Len(log)].role # "student")
    BY DEF Orderly, Answered
  <2>2. Alternates(new)
    BY <1>1, <2>1, AlternatesAppend DEF new
  <2> QED
    BY <1>2, <1>3, <2>2 DEF Answered, new
<1>8. Counted(d)
  <2>1. /\ Occurs(new, LogicSubmissions) =
             Occurs(log, LogicSubmissions) + IF e.type = "logic" THEN 1 ELSE 0
        /\ Occurs(new, CodeSubmissions) =
             Occurs(log, CodeSubmissions) + IF e.type = "code" THEN 1 ELSE 0
        /\ Occurs(new, Results) = Occurs(log, Results)
        /\ Occurs(new, {INFRA_MESSAGE}) = Occurs(log, {INFRA_MESSAGE})
        /\ Occurs(log, {INFRA_MESSAGE}) \in Nat /\ Occurs(log, CodeSubmissions) \in Nat
    <3>1. \A M : /\ Occurs(log, M) \in Nat
                 /\ Occurs(new, M) = Occurs(log, M) + IF m \in M THEN 1 ELSE 0
      <4> HIDE DEF log
      <4> QED
        BY <1>1, OccursAppend DEF new
    <3> QED
      BY <1>4, <3>1
  <2>2. /\ s.attempts.logic = Occurs(log, LogicSubmissions)
        /\ s.attempts.code = Occurs(log, Results)
        /\ s.attempts.code + Occurs(log, {INFRA_MESSAGE}) = Occurs(log, CodeSubmissions)
    BY <1>1, <2>1 DEF Orderly, Counted, Waiting
  <2>3. /\ Waiting(d, "evaluate_logic") = IF e.type = "logic" THEN 1 ELSE 0
        /\ Waiting(d, "execute_code") = IF e.type = "code" THEN 1 ELSE 0
    BY <1>2 DEF Waiting
  <2>4. /\ s.attempts.logic + Waiting(d, "evaluate_logic") = Occurs(new, LogicSubmissions)
        /\ s.attempts.code = Occurs(new, Results)
        /\ s.attempts.code + Waiting(d, "execute_code") + Occurs(new, {INFRA_MESSAGE}) =
             Occurs(new, CodeSubmissions)
    BY <1>1, <2>1, <2>2, <2>3
  <2> QED
    BY <1>3, <2>4 DEF Counted, new
<1>9. Orderly(d)
  BY <1>3, <1>6, <1>7, <1>8 DEF Orderly
<1>10. NodeWrites(c, d)
  BY <1>3, <1>4 DEF NodeWrites
<1>11. KeepsVerdict(c, d)
  BY <1>2, <1>3 DEF KeepsVerdict
<1> QED
  BY <1>9, <1>10, <1>11 DEF t, n

LEMMA EvaluateLogicTurn ==
  ASSUME NEW c, Sound(c), Orderly(c), c.next = "evaluate_logic", NEW verdict \in Verdicts
  PROVE  LET d == [st |-> EvaluateLogic(c.st, verdict), next |-> RouteAfterEval(verdict)]
         IN  /\ Orderly(d) /\ NodeWrites(c, d)
             /\ d.st.last_eval = verdict /\ d.st.user_logic = c.st.user_logic
<1> DEFINE s == c.st
           t == EvaluateLogic(s, verdict)
           n == RouteAfterEval(verdict)
<1>1. c \in Checkpoints /\ s \in SessionStates /\ s.user_logic \in Texts
  BY DEF Sound, Checkpoints, NodeReady
<1>2. /\ t.phase = s.phase /\ t.status = s.status /\ t.messages = s.messages
      /\ t.attempts.logic = s.attempts.logic + 1 /\ t.attempts.code = s.attempts.code
      /\ t.last_eval = verdict /\ t.user_logic = s.user_logic
  BY <1>1 DEF EvaluateLogic, SessionStates
<1>3. n \in {"summarize_logic", "logic_tutor"}
  BY DEF RouteAfterEval
<1> HIDE DEF t, n
<1> DEFINE d == [st |-> t, next |-> n]
<1>4. Orderly(d)
  BY <1>1, <1>2, <1>3, Silent DEF Waiting
<1> QED
  BY <1>2, <1>4 DEF NodeWrites, t, n

LEMMA SummarizeLogicTurn ==
  ASSUME NEW c, Sound(c), Orderly(c), c.next = "summarize_logic", NEW summary \in Summaries
  PROVE  LET d == [st |-> SummarizeLogic(c.st, summary), next |-> "await_input"]
         IN  Orderly(d) /\ NodeWrites(c, d) /\ KeepsVerdict(c, d)
<1> DEFINE s == c.st
           t == SummarizeLogic(s, summary)
<1>1. c \in Checkpoints /\ s \in SessionStates /\ s.phase = "LOGIC"
      /\ s.attempts.code \in Nat
  BY DEF Sound, Checkpoints, NodeReady, LogicNodes, SessionStates
<1>2. /\ t.phase = "CODE" /\ t.status = "CODE_WRITE"
      /\ t.messages = Append(s.messages, UNLOCK_MESSAGE)
      /\ t.attempts = s.attempts /\ t.last_eval = s.last_eval /\ t.user_logic = s.user_logic
  BY <1>1 DEF SummarizeLogic, Say, SessionStates
<1>3. /\ UNLOCK_MESSAGE \in Messages /\ UNLOCK_MESSAGE.role = "system"
      /\ ~IsResult(UNLOCK_MESSAGE) /\ UNLOCK_MESSAGE # INFRA_MESSAGE
  BY DEF UNLOCK_MESSAGE, INFRA_MESSAGE, Message, Messages, IsResult, SystemTexts
<1> HIDE DEF t
<1> DEFINE d == [st |-> t, next |-> "await_input"]
<1>4. Pane(d)
  BY <1>2 DEF Pane
<1>6. t.attempts.code = s.attempts.code + IF IsResult(UNLOCK_MESSAGE) THEN 1 ELSE 0
  BY <1>1, <1>2, <1>3
<1>5. Orderly(d)
  BY <1>1, <1>2, <1>3, <1>4, <1>6, Replied
<1> QED
  BY <1>1, <1>2, <1>5 DEF NodeWrites, KeepsVerdict, t

LEMMA DraftTurn ==
  ASSUME NEW c, Sound(c), Orderly(c), NEW draft \in Drafts, NEW n,
         \/ c.next = "logic_tutor" /\ n = "verify_logic"
         \/ c.next = "code_tutor" /\ n = "verify_code"
  PROVE  LET d == [st |-> [c.st EXCEPT !.draft = draft], next |-> n]
         IN  Orderly(d) /\ NodeWrites(c, d) /\ KeepsVerdict(c, d)
<1> DEFINE s == c.st
           t == [s EXCEPT !.draft = draft]
<1>1. /\ c \in Checkpoints /\ s \in SessionStates /\ s.attempts.logic \in Nat
      /\ s.last_eval # None => s.user_logic \in Texts
  BY DEF Sound, Checkpoints, SessionStates, Orderly
<1>2. /\ t.phase = s.phase /\ t.status = s.status /\ t.messages = s.messages
      /\ t.attempts = s.attempts /\ t.last_eval = s.last_eval /\ t.user_logic = s.user_logic
  BY <1>1 DEF SessionStates
<1> HIDE DEF t
<1> DEFINE d == [st |-> t, next |-> n]
<1>3. Orderly(d)
  BY <1>1, <1>2, Silent DEF Waiting
<1> QED
  BY <1>2, <1>3 DEF NodeWrites, KeepsVerdict, t

\* The end of a turn that a tutor answers, by a draft or by the canned reply.
LEMMA DeliverTurn ==
  ASSUME NEW c, Sound(c), Orderly(c), c.next \in {"verify_logic", "verify_code"},
         NEW s \in SessionStates, NEW text \in Replies,
         s.phase = c.st.phase, s.messages = c.st.messages, s.attempts = c.st.attempts,
         s.last_eval = c.st.last_eval, s.user_logic = c.st.user_logic,
         NEW status, status = IF c.next = "verify_logic" THEN "LOGIC_CHAT" ELSE "CODE_CHAT"
  PROVE  LET d == [st |-> Deliver(s, text, status), next |-> "await_input"]
         IN  Orderly(d) /\ NodeWrites(c, d) /\ KeepsVerdict(c, d) /\ d.st.draft = None
<1> DEFINE t == Deliver(s, text, status)
           m == Message("tutor", "hint", text)
<1>1. c \in Checkpoints /\ c.st.attempts.code \in Nat
  BY DEF Sound, Checkpoints, SessionStates
<1>2. c.st.phase = IF c.next = "verify_logic" THEN "LOGIC" ELSE "CODE"
  BY AtVerifier
<1>3. /\ t.phase = s.phase /\ t.status = status /\ t.messages = Append(s.messages, m)
      /\ t.attempts = s.attempts /\ t.last_eval = s.last_eval /\ t.user_logic = s.user_logic
      /\ t.draft = None
  BY DEF Deliver, Say, SessionStates
<1>4. /\ m \in Messages \ Notices /\ m.role = "tutor" /\ ~IsResult(m) /\ m # INFRA_MESSAGE
  BY DEF Message, Messages, Notices, UNLOCK_MESSAGE, SUCCESS_MESSAGE, INFRA_MESSAGE, IsResult
<1> HIDE DEF t, m
<1> DEFINE d == [st |-> t, next |-> "await_input"]
<1>5. Pane(d)
  BY <1>2, <1>3 DEF Pane
<1>8. t.attempts.code = c.st.attempts.code + IF IsResult(m) THEN 1 ELSE 0
  BY <1>1, <1>3, <1>4
<1>6. Orderly(d)
  BY <1>1, <1>3, <1>4, <1>5, <1>8, Replied
<1>7. NodeWrites(c, d)
  BY <1>3, <1>4 DEF NodeWrites
<1> QED
  BY <1>3, <1>6, <1>7 DEF KeepsVerdict, t

LEMMA RejectTurn ==
  ASSUME NEW c, Sound(c), Orderly(c), NEW n,
         \/ c.next = "verify_logic" /\ n = "logic_tutor"
         \/ c.next = "verify_code" /\ n = "code_tutor"
  PROVE  LET d == [st |-> Reject(c.st), next |-> n]
         IN  Orderly(d) /\ NodeWrites(c, d) /\ KeepsVerdict(c, d)
<1> DEFINE s == c.st
           t == Reject(s)
<1>1. /\ c \in Checkpoints /\ s \in SessionStates /\ s.attempts.logic \in Nat
      /\ s.last_eval # None => s.user_logic \in Texts
  BY DEF Sound, Checkpoints, SessionStates, Orderly
<1>2. /\ t.phase = s.phase /\ t.status = s.status /\ t.messages = s.messages
      /\ t.attempts = s.attempts /\ t.last_eval = s.last_eval /\ t.user_logic = s.user_logic
  BY <1>1 DEF Reject, SessionStates
<1> HIDE DEF t
<1> DEFINE d == [st |-> t, next |-> n]
<1>3. Orderly(d)
  BY <1>1, <1>2, Silent DEF Waiting
<1> QED
  BY <1>2, <1>3 DEF NodeWrites, KeepsVerdict, t

LEMMA VerifyLogicTurn ==
  ASSUME NEW c, Sound(c), Orderly(c), c.next = "verify_logic"
  PROVE  LET t == VerifyLogic(c.st)
             d == [st |-> t, next |-> RouteAfterVerifyLogic(t)]
         IN  Orderly(d) /\ NodeWrites(c, d) /\ KeepsVerdict(c, d)
<1> DEFINE s == c.st
           t == VerifyLogic(s)
<1>1. /\ s \in SessionStates /\ s.draft \in Drafts /\ s.draft # None
      /\ s.regenerations \in Nat
  BY AtVerifier
<1>2. CASE s.draft \notin LogicLeaks
  <2>1. t = Deliver(s, s.draft, "LOGIC_CHAT")
    BY <1>2 DEF VerifyLogic
  <2>2. s.draft \in Replies
    BY <1>1 DEF Replies
  <2>3. LET d == [st |-> t, next |-> "await_input"]
        IN  Orderly(d) /\ NodeWrites(c, d) /\ KeepsVerdict(c, d) /\ d.st.draft = None
    BY <1>1, <2>1, <2>2, DeliverTurn
  <2> HIDE DEF t
  <2> QED
    BY <2>3 DEF RouteAfterVerifyLogic, t
<1>3. CASE s.draft \in LogicLeaks /\ Exhausted(s)
  <2> DEFINE r == [Reject(s) EXCEPT !.fallback_used = TRUE]
  <2>1. t = Deliver(r, LogicFallback, "LOGIC_CHAT")
    BY <1>3 DEF VerifyLogic, DeliverFallback
  <2>2. /\ r \in SessionStates /\ r.phase = s.phase /\ r.messages = s.messages
        /\ r.attempts = s.attempts /\ r.last_eval = s.last_eval /\ r.user_logic = s.user_logic
    <3>1. s.regenerations + 1 \in Nat
      BY <1>1
    <3> QED
      BY <1>1, <3>1 DEF Reject, SessionStates
  <2>3. LogicFallback \in Replies
    BY DEF Replies
  <2> HIDE DEF r
  <2>4. LET d == [st |-> t, next |-> "await_input"]
        IN  Orderly(d) /\ NodeWrites(c, d) /\ KeepsVerdict(c, d) /\ d.st.draft = None
    BY <2>1, <2>2, <2>3, DeliverTurn
  <2> HIDE DEF t
  <2> QED
    BY <2>4 DEF RouteAfterVerifyLogic, t
<1>4. CASE s.draft \in LogicLeaks /\ ~Exhausted(s)
  <2>1. t = Reject(s)
    BY <1>4 DEF VerifyLogic
  <2>2. t.draft # None
    BY <1>1, <2>1 DEF Reject, SessionStates
  <2> QED
    BY <2>1, <2>2, RejectTurn DEF RouteAfterVerifyLogic
<1> QED
  BY <1>2, <1>3, <1>4

LEMMA VerifyCodeTurn ==
  ASSUME NEW c, Sound(c), Orderly(c), c.next = "verify_code"
  PROVE  LET t == VerifyCode(c.st)
             d == [st |-> t, next |-> RouteAfterVerifyCode(t)]
         IN  Orderly(d) /\ NodeWrites(c, d) /\ KeepsVerdict(c, d)
<1> DEFINE s == c.st
           t == VerifyCode(s)
<1>1. /\ s \in SessionStates /\ s.draft \in Drafts /\ s.draft # None
      /\ s.regenerations \in Nat
  BY AtVerifier
<1>2. CASE s.draft \notin CodeLeaks
  <2>1. t = Deliver(s, s.draft, "CODE_CHAT")
    BY <1>2 DEF VerifyCode
  <2>2. s.draft \in Replies
    BY <1>1 DEF Replies
  <2>3. LET d == [st |-> t, next |-> "await_input"]
        IN  Orderly(d) /\ NodeWrites(c, d) /\ KeepsVerdict(c, d) /\ d.st.draft = None
    BY <1>1, <2>1, <2>2, DeliverTurn
  <2> HIDE DEF t
  <2> QED
    BY <2>3 DEF RouteAfterVerifyCode, t
<1>3. CASE s.draft \in CodeLeaks /\ Exhausted(s)
  <2> DEFINE r == [Reject(s) EXCEPT !.fallback_used = TRUE]
  <2>1. t = Deliver(r, CodeFallback, "CODE_CHAT")
    BY <1>3 DEF VerifyCode, DeliverFallback
  <2>2. /\ r \in SessionStates /\ r.phase = s.phase /\ r.messages = s.messages
        /\ r.attempts = s.attempts /\ r.last_eval = s.last_eval /\ r.user_logic = s.user_logic
    <3>1. s.regenerations + 1 \in Nat
      BY <1>1
    <3> QED
      BY <1>1, <3>1 DEF Reject, SessionStates
  <2>3. CodeFallback \in Replies
    BY DEF Replies
  <2> HIDE DEF r
  <2>4. LET d == [st |-> t, next |-> "await_input"]
        IN  Orderly(d) /\ NodeWrites(c, d) /\ KeepsVerdict(c, d) /\ d.st.draft = None
    BY <2>1, <2>2, <2>3, DeliverTurn
  <2> HIDE DEF t
  <2> QED
    BY <2>4 DEF RouteAfterVerifyCode, t
<1>4. CASE s.draft \in CodeLeaks /\ ~Exhausted(s)
  <2>1. t = Reject(s)
    BY <1>4 DEF VerifyCode
  <2>2. t.draft # None
    BY <1>1, <2>1 DEF Reject, SessionStates
  <2> QED
    BY <2>1, <2>2, RejectTurn DEF RouteAfterVerifyCode
<1> QED
  BY <1>2, <1>3, <1>4

LEMMA ExecuteCodeTurn ==
  ASSUME NEW c, Sound(c), Orderly(c), c.next = "execute_code", NEW bucket \in Buckets
  PROVE  LET d == [st |-> ExecuteCode(c.st, bucket), next |-> RouteAfterExecute(bucket)]
         IN  Orderly(d) /\ NodeWrites(c, d) /\ KeepsVerdict(c, d)
<1> DEFINE s == c.st
           t == ExecuteCode(s, bucket)
           m == IF bucket = "INFRA_ERROR" THEN INFRA_MESSAGE ELSE ResultMessage(bucket)
           n == RouteAfterExecute(bucket)
<1>1. /\ c \in Checkpoints /\ s \in SessionStates /\ s.phase = "CODE"
      /\ s.attempts.code \in Nat
  BY DEF Sound, Checkpoints, NodeReady, CodeNodes, SessionStates
<1>2. /\ m \in Messages \ Notices /\ m.role = "system"
      /\ IsResult(m) \/ m = INFRA_MESSAGE
      /\ IsResult(m) <=> bucket # "INFRA_ERROR"
  BY DEF Message, Messages, Notices, UNLOCK_MESSAGE, SUCCESS_MESSAGE, INFRA_MESSAGE,
         ResultMessage, IsResult, SystemTexts
<1>3. /\ t.phase = s.phase /\ t.status = s.status /\ t.messages = Append(s.messages, m)
      /\ t.attempts.logic = s.attempts.logic
      /\ t.attempts.code = s.attempts.code + IF bucket = "INFRA_ERROR" THEN 0 ELSE 1
      /\ t.last_eval = s.last_eval /\ t.user_logic = s.user_logic
  <2>1. CASE bucket = "INFRA_ERROR"
    BY <1>1, <2>1 DEF ExecuteCode, Say, SessionStates
  <2>2. CASE bucket # "INFRA_ERROR"
    BY <1>1, <2>2 DEF ExecuteCode, Say, SessionStates
  <2> QED
    BY <2>1, <2>2
<1>4. n \in {"finish", "await_input", "code_tutor"}
  BY DEF RouteAfterExecute
<1> HIDE DEF t, m, n
<1> DEFINE d == [st |-> t, next |-> n]
<1>5. Pane(d)
  BY <1>1, <1>3 DEF Orderly, Pane
<1>6. t.attempts.code = s.attempts.code + IF IsResult(m) THEN 1 ELSE 0
  BY <1>1, <1>2, <1>3
<1>7. Orderly(d)
  BY <1>1, <1>2, <1>3, <1>4, <1>5, <1>6, Replied
<1>8. NodeWrites(c, d)
  BY <1>2, <1>3 DEF NodeWrites
<1> QED
  BY <1>3, <1>7, <1>8 DEF KeepsVerdict, t, n

LEMMA FinishTurn ==
  ASSUME NEW c, Sound(c), Orderly(c), c.next = "finish"
  PROVE  LET d == [st |-> Finish(c.st), next |-> "END"]
         IN  Orderly(d) /\ NodeWrites(c, d) /\ KeepsVerdict(c, d)
<1> DEFINE s == c.st
           t == Finish(s)
<1>1. /\ c \in Checkpoints /\ s \in SessionStates /\ s.phase = "CODE"
      /\ s.attempts.code \in Nat
      /\ s.messages # << >> /\ Last(s.messages) = ResultMessage("ACCEPTED")
  BY DEF Sound, Checkpoints, NodeReady, CodeNodes, SessionStates, Told, Last
<1>2. /\ t.phase = "DONE" /\ t.status = "SUCCESS"
      /\ t.messages = Append(s.messages, SUCCESS_MESSAGE)
      /\ t.attempts = s.attempts /\ t.last_eval = s.last_eval /\ t.user_logic = s.user_logic
  BY <1>1 DEF Finish, Say, SessionStates
<1>3. /\ SUCCESS_MESSAGE \in Messages /\ SUCCESS_MESSAGE.role = "system"
      /\ ~IsResult(SUCCESS_MESSAGE) /\ SUCCESS_MESSAGE # INFRA_MESSAGE
  BY DEF SUCCESS_MESSAGE, INFRA_MESSAGE, Message, Messages, IsResult, SystemTexts
<1> HIDE DEF t
<1> DEFINE d == [st |-> t, next |-> "END"]
<1>4. Pane(d)
  BY <1>2 DEF Pane
<1>5. t.attempts.code = s.attempts.code + IF IsResult(SUCCESS_MESSAGE) THEN 1 ELSE 0
  BY <1>1, <1>2, <1>3
<1>6. Orderly(d)
  BY <1>1, <1>2, <1>3, <1>4, <1>5, Replied
<1> QED
  BY <1>1, <1>2, <1>6 DEF NodeWrites, KeepsVerdict, t

\* A turn stays a turn of the checkpoint it began at: its first node starts
\* from that checkpoint, and no node runs after an unlock or a success.
LEMMA TurnGoesOn ==
  ASSUME NEW old \in Checkpoints, NEW c \in Checkpoints, NEW d \in Checkpoints,
         c = old \/ TurnOf(old, c), GateHeld(c), NodeWrites(c, d),
         c.next # "END", c = old \/ c.next # "await_input"
  PROVE  TurnOf(old, d)
<1> DEFINE a == old.st.messages
           b == c.st.messages
           e == d.st.messages
<1>1. a \in Seq(Messages) /\ b \in Seq(Messages) /\ e \in Seq(Messages)
  BY DEF Checkpoints, SessionStates
<1>2. /\ IsPrefix(a, b) /\ c.st.phase = old.st.phase
      /\ a # b => Last(b) \notin Notices
      /\ old.st.phase # "DONE"
  <2>1. CASE c = old
    BY <1>1, <2>1, PrefixReflexive DEF GateHeld
  <2>2. CASE c # old
    BY <2>2 DEF TurnOf, GateHeld
  <2> QED
    BY <2>1, <2>2
<1>3. ASSUME NEW m \in Messages, e = Append(b, m)
      PROVE  IsPrefix(a, e) /\ a # e /\ Last(e) = m
  BY <1>1, <1>2, <1>3, PrefixAppend
<1>4. CASE d.st.phase = c.st.phase /\ e = b
  BY <1>2, <1>4 DEF TurnOf
<1>5. CASE d.st.phase = c.st.phase /\ \E m \in Messages \ Notices : e = Append(b, m)
  BY <1>2, <1>3, <1>5 DEF TurnOf
<1>6. CASE /\ c.st.phase = "LOGIC" /\ d.st.phase = "CODE" /\ d.next = "await_input"
           /\ e = Append(b, UNLOCK_MESSAGE)
  <2>1. UNLOCK_MESSAGE \in Messages
    BY DEF UNLOCK_MESSAGE, Message, Messages, SystemTexts
  <2> QED
    BY <1>2, <1>3, <1>6, <2>1 DEF TurnOf
<1>7. CASE /\ c.st.phase = "CODE" /\ d.st.phase = "DONE"
           /\ b # << >> /\ Last(b) = ResultMessage("ACCEPTED")
           /\ e = Append(b, SUCCESS_MESSAGE)
  <2>1. SUCCESS_MESSAGE \in Messages
    BY DEF SUCCESS_MESSAGE, Message, Messages, SystemTexts
  <2>2. e[Len(e) - 1] = ResultMessage("ACCEPTED")
    BY <1>1, <1>7 DEF Last
  <2> QED
    BY <1>2, <1>3, <1>7, <2>1, <2>2 DEF TurnOf
<1> QED
  BY <1>4, <1>5, <1>6, <1>7 DEF NodeWrites

-----------------------------------------------------------------------------
(* Supersteps *)

\* A row of the verdict cache that is there is never changed.
RowsStay == \A t \in Texts : verdictCache[t] # None => verdictCache'[t] = verdictCache[t]

\* What a superstep of a worker leaves it with.
NodeDoes(w, c, d) ==
  /\ Advance(w, d.st, d.next)
  /\ run'[w] = d
  /\ c.next # "END"
  /\ c.next = "await_input" => resume[w]
  /\ Orderly(d)
  /\ NodeWrites(c, d)
  /\ RowsStay
  /\ c.next # "evaluate_logic" => KeepsVerdict(c, d)
  /\ c.next = "evaluate_logic" /\ ~CacheMayFail =>
       d.st.user_logic \in Texts /\ verdictCache'[d.st.user_logic] = d.st.last_eval

\* A superstep of a node that leaves the verdicts alone.
LEMMA NodeDoesElse ==
  ASSUME IInv, NEW w \in Workers, NEW t, NEW n, Advance(w, t, n), UNCHANGED verdictCache,
         run[w].next \notin {"END", "evaluate_logic"},
         run[w].next = "await_input" => resume[w],
         LET d == [st |-> t, next |-> n]
         IN  Orderly(d) /\ NodeWrites(run[w], d) /\ KeepsVerdict(run[w], d)
  PROVE  NodeDoes(w, run[w], run'[w])
<1> DEFINE d == [st |-> t, next |-> n]
<1>1. run'[w] = d
  BY DEF Advance, IInv, TypeOK
<1>2. d.st = t /\ d.next = n
  OBVIOUS
<1>3. RowsStay
  BY DEF RowsStay
<1> HIDE DEF d
<1> QED
  BY <1>1, <1>2, <1>3 DEF NodeDoes, d

LEMMA NodeTurn ==
  ASSUME IInv, SInv, NEW w \in Workers, RunNode(w)
  PROVE  NodeDoes(w, run[w], run'[w])
<1> DEFINE c == run[w]
           s == run[w].st
<1>1. ASSUME NEW node, At(w, node)
      PROVE  Sound(c) /\ Orderly(c) /\ c.next = node
  BY <1>1, AtNode DEF SInv, TurnInv
<1>2. verdictCache \in [Texts -> Verdicts \cup {None}]
  BY DEF IInv, TypeOK
<1>3. CASE AwaitInputNode(w)
  <2>1. /\ Sound(c) /\ Orderly(c) /\ c.next = "await_input" /\ resume[w]
        /\ req[w] \in Events /\ req[w].text \in Texts
    BY <1>1, <1>3 DEF AwaitInputNode, IInv, WorkerInv
  <2>2. ValidateEvent(s, req[w]) = 200
    BY <2>1 DEF SInv, TurnInv, Validated
  <2>3. /\ Advance(w, AwaitInput(s, req[w]), RouteAfterInput(req[w].type, s.phase))
        /\ UNCHANGED verdictCache
    BY <1>3 DEF AwaitInputNode, caches
  <2>4. LET d == [st |-> AwaitInput(s, req[w]), next |-> RouteAfterInput(req[w].type, s.phase)]
        IN  Orderly(d) /\ NodeWrites(c, d) /\ KeepsVerdict(c, d)
    BY <2>1, <2>2, AwaitInputTurn
  <2> QED
    BY <2>1, <2>3, <2>4, NodeDoesElse
<1>4. CASE EvaluateLogicNode(w)
  <2>1. Sound(c) /\ Orderly(c) /\ c.next = "evaluate_logic" /\ s.user_logic \in Texts
    BY <1>1, <1>4 DEF EvaluateLogicNode, Sound, NodeReady
  <2>2. ASSUME NEW verdict \in Verdicts, RowsStay,
               Advance(w, EvaluateLogic(s, verdict), RouteAfterEval(verdict)),
               ~CacheMayFail => verdictCache'[s.user_logic] = verdict
        PROVE  NodeDoes(w, c, run'[w])
    <3> DEFINE d == [st |-> EvaluateLogic(s, verdict), next |-> RouteAfterEval(verdict)]
    <3>1. run'[w] = d
      BY <2>2 DEF Advance, IInv, TypeOK
    <3>2. /\ Orderly(d) /\ NodeWrites(c, d)
          /\ d.st.last_eval = verdict /\ d.st.user_logic = s.user_logic
      BY <2>1, EvaluateLogicTurn
    <3>3. Advance(w, d.st, d.next)
      BY <2>2
    <3> HIDE DEF d
    <3> QED
      BY <2>1, <2>2, <3>1, <3>2, <3>3 DEF NodeDoes
  <2>3. CASE /\ verdictCache[s.user_logic] # None /\ UNCHANGED verdictCache
             /\ Advance(w, EvaluateLogic(s, verdictCache[s.user_logic]),
                           RouteAfterEval(verdictCache[s.user_logic]))
    <3>1. verdictCache[s.user_logic] \in Verdicts /\ RowsStay
      BY <1>2, <2>1, <2>3 DEF RowsStay
    <3> QED
      BY <2>2, <2>3, <3>1
  <2>4. ASSUME NEW e \in Evaluations, MayMiss(verdictCache, s.user_logic),
               Advance(w, EvaluateLogic(s, ApplyFlaggedRule(e)),
                          RouteAfterEval(ApplyFlaggedRule(e))),
               verdictCache' \in AfterPut(verdictCache, s.user_logic, ApplyFlaggedRule(e))
        PROVE  NodeDoes(w, c, run'[w])
    <3>1. ApplyFlaggedRule(e) \in Verdicts
      BY DEF ApplyFlaggedRule, Evaluations, Verdicts
    <3>2. RowsStay /\ (~CacheMayFail => verdictCache'[s.user_logic] = ApplyFlaggedRule(e))
      BY <1>2, <2>1, <2>4 DEF RowsStay, MayMiss, AfterPut, PutIfAbsent
    <3> QED
      BY <2>2, <2>4, <3>1, <3>2
  <2> QED
    BY <1>4, <2>3, <2>4 DEF EvaluateLogicNode
<1>5. CASE SummarizeLogicNode(w)
  <2>1. Sound(c) /\ Orderly(c) /\ c.next = "summarize_logic" /\ s.user_logic \in Texts
    BY <1>1, <1>5 DEF SummarizeLogicNode, Sound, NodeReady
  <2>2. EarlierAttempts(s) \subseteq Texts
    BY <2>1 DEF EarlierAttempts, Sound, Speech
  <2>3. PICK summary \in Summaries : Advance(w, SummarizeLogic(s, summary), "await_input")
    <3>1. summaryCache \in [Texts -> Summaries \cup {None}]
      BY DEF IInv, TypeOK
    <3>2. /\ \A text \in Texts : [final |-> text, earlier |-> EarlierAttempts(s)] \in Summaries
          /\ [final |-> s.user_logic, earlier |-> {}] \in Summaries
          /\ summaryCache[s.user_logic] \in Summaries \cup {None}
      BY <2>1, <2>2, <3>1 DEF Summaries
    <3> QED
      BY <1>5, <3>2 DEF SummarizeLogicNode
  <2>4. UNCHANGED verdictCache
    BY <1>5 DEF SummarizeLogicNode
  <2> QED
    BY <2>1, <2>3, <2>4, SummarizeLogicTurn, NodeDoesElse
<1>6. CASE LogicTutorNode(w)
  <2>1. Sound(c) /\ Orderly(c) /\ c.next = "logic_tutor" /\ UNCHANGED verdictCache
    BY <1>1, <1>6 DEF LogicTutorNode, caches
  <2>2. PICK draft \in Drafts : Advance(w, [s EXCEPT !.draft = draft], "verify_logic")
    BY <1>6 DEF LogicTutorNode, LogicTutor
  <2> QED
    BY <2>1, <2>2, DraftTurn, NodeDoesElse
<1>7. CASE VerifyLogicNode(w)
  <2>1. Sound(c) /\ Orderly(c) /\ c.next = "verify_logic" /\ UNCHANGED verdictCache
    BY <1>1, <1>7 DEF VerifyLogicNode, caches
  <2>2. Advance(w, VerifyLogic(s), RouteAfterVerifyLogic(VerifyLogic(s)))
    BY <1>7 DEF VerifyLogicNode
  <2> QED
    BY <2>1, <2>2, VerifyLogicTurn, NodeDoesElse
<1>8. CASE ExecuteCodeNode(w)
  <2>1. Sound(c) /\ Orderly(c) /\ c.next = "execute_code" /\ UNCHANGED verdictCache
    BY <1>1, <1>8 DEF ExecuteCodeNode, caches
  <2>2. PICK bucket \in Buckets : Advance(w, ExecuteCode(s, bucket), RouteAfterExecute(bucket))
    BY <1>8, OrchestratorAssumption DEF ExecuteCodeNode
  <2> QED
    BY <2>1, <2>2, ExecuteCodeTurn, NodeDoesElse
<1>9. CASE CodeTutorNode(w)
  <2>1. Sound(c) /\ Orderly(c) /\ c.next = "code_tutor" /\ UNCHANGED verdictCache
    BY <1>1, <1>9 DEF CodeTutorNode, caches
  <2>2. PICK draft \in Drafts : Advance(w, [s EXCEPT !.draft = draft], "verify_code")
    BY <1>9 DEF CodeTutorNode, CodeTutor
  <2> QED
    BY <2>1, <2>2, DraftTurn, NodeDoesElse
<1>10. CASE VerifyCodeNode(w)
  <2>1. Sound(c) /\ Orderly(c) /\ c.next = "verify_code" /\ UNCHANGED verdictCache
    BY <1>1, <1>10 DEF VerifyCodeNode, caches
  <2>2. Advance(w, VerifyCode(s), RouteAfterVerifyCode(VerifyCode(s)))
    BY <1>10 DEF VerifyCodeNode
  <2> QED
    BY <2>1, <2>2, VerifyCodeTurn, NodeDoesElse
<1>11. CASE FinishNode(w)
  <2>1. Sound(c) /\ Orderly(c) /\ c.next = "finish" /\ UNCHANGED verdictCache
    BY <1>1, <1>11 DEF FinishNode, caches
  <2>2. Advance(w, Finish(s), "END")
    BY <1>11 DEF FinishNode
  <2> QED
    BY <2>1, <2>2, FinishTurn, NodeDoesElse
<1> QED
  BY <1>3, <1>4, <1>5, <1>6, <1>7, <1>8, <1>9, <1>10, <1>11 DEF RunNode

-----------------------------------------------------------------------------
(* Steps of the specification, when requests come one at a time *)

LEMMA InitSInv == Init => SInv
<1> SUFFICES ASSUME Init PROVE SInv
  OBVIOUS
<1>1. \A w \in Workers : TurnInv(w)
  BY DEF Init, TurnInv, Serves
<1>2. store = NoSession /\ seen = << >> /\ Transcript = << >>
  BY DEF Init, Transcript
<1>3. << >> \in Seq(Messages)
  OBVIOUS
<1>4. IsPrefix(seen, Transcript)
  BY <1>2, <1>3, PrefixReflexive
<1> QED
  BY <1>1, <1>2, <1>4 DEF SInv

\* While a worker serves a request, the others have nothing in hand.
LEMMA Alone ==
  ASSUME IInv, SInv, OneAtATime, NEW w \in Workers, pc[w] # "idle",
         NEW v \in Workers, v # w
  PROVE  pc[v] = "idle" /\ run[v] = NoSession /\ ~resume[v]
<1>1. pc[v] = "idle"
  BY DEF OneAtATime
<1> QED
  BY <1>1 DEF SInv, TurnInv, IInv, WorkerInv

\* So only the serving worker's part is to be shown.
LEMMA OthersRest ==
  ASSUME IInv, SInv, OneAtATime, NEW w \in Workers, pc[w] # "idle",
         \A v \in Workers \ {w} :
           pc'[v] = pc[v] /\ run'[v] = run[v] /\ resume'[v] = resume[v],
         TurnInv(w)'
  PROVE  \A v \in Workers : TurnInv(v)'
<1>1. ASSUME NEW v \in Workers, v # w PROVE TurnInv(v)'
  <2>1. pc'[v] = "idle" /\ run'[v] = NoSession /\ ~resume'[v]
    BY <1>1, Alone
  <2> QED
    BY <2>1 DEF TurnInv, Serves
<1> QED
  BY <1>1

LEMMA AnswerTurn ==
  ASSUME IInv, SInv, OneAtATime, NEW w \in Workers, pc[w] # "idle", NEW code, Answer(w, code),
         store' = store \/ store' = NoSession, IsPrefix(seen, Transcript)'
  PROVE  SInv'
<1>1. /\ pc' = [pc EXCEPT ![w] = "idle"] /\ run' = [run EXCEPT ![w] = NoSession]
      /\ resume' = [resume EXCEPT ![w] = FALSE]
  BY DEF Answer
<1>2. TurnInv(w)'
  BY <1>1 DEF TurnInv, Serves, IInv, TypeOK
<1>3. \A v \in Workers : TurnInv(v)'
  BY <1>1, <1>2, OthersRest DEF IInv, TypeOK
<1> QED
  BY <1>3 DEF SInv

LEMMA AdmitTurn ==
  ASSUME IInv, SInv, OneAtATime, NEW w \in Workers, pc[w] = "called", Admit(w),
         req[w].type = "start" => store = NoSession,
         req[w].type \in EventTypes => Validated(w),
         UNCHANGED thread
  PROVE  SInv'
<1>1. /\ pc' = [pc EXCEPT ![w] = "admitted"] /\ run' = run /\ resume' = resume /\ req' = req
      /\ store' = store /\ seen' = seen
  BY DEF Admit, turn, thread
<1>2. ~resume[w] /\ run[w] = NoSession
  BY DEF IInv, WorkerInv, SInv, TurnInv
<1>3. TurnInv(w)'
  BY <1>1, <1>2 DEF TurnInv, Serves, Validated, IInv, TypeOK
<1>4. \A v \in Workers : TurnInv(v)'
  BY <1>1, <1>3, OthersRest DEF IInv, TypeOK
<1> QED
  BY <1>1, <1>4 DEF SInv, Transcript

LEMMA InvokeTurn ==
  ASSUME IInv, SInv, OneAtATime, NEW w \in Workers, pc[w] = "admitted",
         NEW c, NEW resuming \in BOOLEAN, Invoke(w, c, resuming),
         IF resuming THEN Validated(w) /\ c = store
                     ELSE store = NoSession /\ c = FirstCheckpoint,
         Orderly(c),
         UNCHANGED thread
  PROVE  SInv'
<1>1. /\ pc' = [pc EXCEPT ![w] = "running"] /\ run' = [run EXCEPT ![w] = c]
      /\ resume' = [resume EXCEPT ![w] = resuming] /\ req' = req
      /\ store' = store /\ seen' = seen
  BY DEF Invoke, thread
<1>2. pc'[w] = "running" /\ run'[w] = c /\ resume'[w] = resuming
  BY <1>1 DEF IInv, TypeOK
<1>3. store # NoSession => TurnOf(store, store)
  <2>1. store # NoSession => store.st.messages \in Seq(Messages)
    BY DEF IInv, Sound, Checkpoints, SessionStates
  <2> QED
    BY <2>1, PrefixReflexive DEF TurnOf
<1>4. TurnInv(w)'
  BY <1>1, <1>2, <1>3 DEF TurnInv, Serves, Validated
<1>5. \A v \in Workers : TurnInv(v)'
  BY <1>1, <1>4, OthersRest DEF IInv, TypeOK
<1> QED
  BY <1>1, <1>5 DEF SInv, Transcript

LEMMA NodeStepTurn ==
  ASSUME IInv, SInv, OneAtATime, NEW w \in Workers, RunNode(w)
  PROVE  SInv'
<1> DEFINE c == run[w]
           d == run'[w]
<1>1. NodeDoes(w, c, d)
  BY NodeTurn
<1>2. /\ run' = [run EXCEPT ![w] = d] /\ resume' = [resume EXCEPT ![w] = FALSE]
      /\ store' = store /\ seen' = seen /\ pc' = pc /\ req' = req
  <2>1. d = [st |-> d.st, next |-> d.next]
    BY <1>1 DEF NodeDoes, Advance, IInv, TypeOK
  <2> QED
    BY <1>1, <2>1 DEF NodeDoes, Advance, thread, request
<1>3. pc[w] = "running" /\ Sound(c) /\ c \in Checkpoints
  <2>1. pc[w] = "running"
    BY DEF RunNode, At, AwaitInputNode, EvaluateLogicNode, SummarizeLogicNode, LogicTutorNode,
           VerifyLogicNode, ExecuteCodeNode, CodeTutorNode, VerifyCodeNode, FinishNode
  <2> QED
    BY <2>1 DEF IInv, WorkerInv, Sound
<1>4. d \in Checkpoints
  <2>1. IInv'
    BY RunNodeInv
  <2>2. pc'[w] = "running"
    BY <1>2, <1>3
  <2> QED
    BY <2>1, <2>2 DEF IInv, WorkerInv, Sound
<1> HIDE DEF c, d
<1>5. store # NoSession
  <2>1. CASE resume[w]
    BY <2>1 DEF SInv, TurnInv, Validated
  <2>2. CASE ~resume[w]
    <3>1. c.next # "await_input"
      BY <1>1, <2>2 DEF NodeDoes
    <3>2. c # FirstCheckpoint
      BY <3>1 DEF FirstCheckpoint
    <3> QED
      BY <1>3, <3>2 DEF SInv, TurnInv, c
  <2> QED
    BY <2>1, <2>2
<1>6. TurnOf(store, d)
  <2>1. store \in Checkpoints /\ TurnOf(store, c) /\ GateHeld(c) /\ NodeWrites(c, d)
    BY <1>1, <1>3, <1>5 DEF SInv, TurnInv, IInv, Sound, NodeDoes, c
  <2>2. c.next # "END" /\ (c = store \/ c.next # "await_input")
    BY <1>1 DEF NodeDoes, SInv, TurnInv, c
  <2> QED
    BY <1>3, <1>4, <2>1, <2>2, TurnGoesOn
<1>7. TurnInv(w)'
  <2>1. run'[w] = d /\ ~resume'[w] /\ pc'[w] = "running"
    BY <1>2, <1>3 DEF IInv, TypeOK
  <2> QED
    BY <1>1, <1>2, <1>5, <1>6, <2>1 DEF TurnInv, Serves, NodeDoes
<1>8. \A v \in Workers : TurnInv(v)'
  BY <1>2, <1>3, <1>7, OthersRest DEF IInv, TypeOK
<1> QED
  BY <1>2, <1>8 DEF SInv, Transcript

LEMMA SaveTurn ==
  ASSUME IInv, SInv, OneAtATime, NEW w \in Workers, Save(w)
  PROVE  SInv' /\ IsPrefix(Transcript, Transcript')
<1> DEFINE c == run[w]
<1>1. /\ pc[w] = "running" /\ store' = c
      /\ seen' = seen /\ run' = run /\ resume' = resume /\ pc' = pc /\ req' = req
  BY DEF Save, request
<1>2. /\ Sound(c) /\ Orderly(c) /\ c # NoSession /\ c.st.messages \in Seq(Messages)
      /\ IF store = NoSession THEN c = FirstCheckpoint ELSE TurnOf(store, c)
  BY <1>1 DEF IInv, WorkerInv, SInv, TurnInv, Sound, Checkpoints, SessionStates
<1>3. Transcript' = c.st.messages
  BY <1>1, <1>2 DEF Transcript
<1>4. Transcript \in Seq(Messages) /\ seen \in Seq(Messages) /\ IsPrefix(seen, Transcript)
  BY ViewTyped DEF IInv, TypeOK, SInv
<1>5. IsPrefix(Transcript, Transcript')
  <2>1. CASE store = NoSession
    <3>1. Transcript = << >> /\ Transcript' = << >>
      BY <1>2, <1>3, <2>1 DEF Transcript, FirstCheckpoint, InitialState
    <3> QED
      BY <1>4, <3>1, PrefixReflexive
  <2>2. CASE store # NoSession
    BY <1>2, <1>3, <2>2 DEF TurnOf, Transcript
  <2> QED
    BY <2>1, <2>2
<1>6. IsPrefix(seen, Transcript)'
  BY <1>1, <1>2, <1>3, <1>4, <1>5, PrefixTransitive
<1>7. TurnOf(c, c)
  BY <1>2, PrefixReflexive DEF TurnOf
<1> HIDE DEF c
<1>8. resume[w] => c = store
  BY DEF SInv, TurnInv, c
<1>9. TurnInv(w)'
  BY <1>1, <1>2, <1>7, <1>8 DEF SInv, TurnInv, Serves, Validated, c
<1>10. \A v \in Workers : TurnInv(v)'
  BY <1>1, <1>9, OthersRest
<1> QED
  BY <1>1, <1>2, <1>5, <1>6, <1>10 DEF SInv

LEMMA FirstOrderly == Orderly(FirstCheckpoint)
<1> DEFINE c == FirstCheckpoint
<1>1. c.next = "await_input" /\ c.st = InitialState
  BY DEF FirstCheckpoint
<1>2. /\ c.st.phase = "LOGIC" /\ c.st.status = "LOGIC_WRITE" /\ c.st.last_eval = None
      /\ c.st.messages = << >> /\ c.st.attempts.logic = 0 /\ c.st.attempts.code = 0
  BY <1>1 DEF InitialState
<1> HIDE DEF c
<1>3. Pane(c)
  BY <1>2 DEF Pane
<1>4. Answered(c)
  BY <1>2 DEF Answered, Alternates
<1>5. Counted(c)
  BY <1>1, <1>2, OccursEmpty DEF Counted, Waiting
<1> QED
  BY <1>2, <1>3, <1>4, <1>5 DEF Orderly, c

LEMMA ServeTurn ==
  ASSUME IInv, SInv, OneAtATime, NEW w \in Workers, Serve(w)
  PROVE  SInv'
<1>0. /\ Transcript \in Seq(Messages) /\ IsPrefix(Transcript, Transcript)
      /\ IsPrefix(seen, Transcript)
  BY ViewTyped, PrefixReflexive DEF SInv
<1>1. CASE StartLookup(w)
  <2>0. pc[w] = "called" /\ req[w].type = "start" /\ store' = store
    BY <1>1 DEF StartLookup, Serves
  <2>1. CASE AnswerView(w)
    BY <1>0, <2>0, <2>1, AnswerTurn DEF AnswerView, Transcript
  <2>2. CASE store = NoSession /\ Admit(w) /\ UNCHANGED seen
    BY <2>0, <2>2, AdmitTurn DEF EventTypes, thread
  <2> QED
    BY <1>1, <2>1, <2>2 DEF StartLookup
<1>2. CASE StartInvoke(w)
  <2>1. pc[w] = "admitted" /\ store = NoSession /\ UNCHANGED thread
    BY <1>2 DEF StartInvoke, Serves, SInv, TurnInv
  <2>2. [st |-> [InitialState EXCEPT !.messages = Transcript], next |-> "await_input"]
          = FirstCheckpoint
    <3>1. Transcript = << >>
      BY <2>1 DEF Transcript
    <3>2. InitialState \in SessionStates /\ InitialState.messages = << >>
      BY GraphAssumption DEF InitialState, SessionStates, Phases, Statuses
    <3>3. \A s \in SessionStates : s.messages = << >> => [s EXCEPT !.messages = << >>] = s
      BY DEF SessionStates
    <3> QED
      BY <3>1, <3>2, <3>3 DEF FirstCheckpoint
  <2>3. Invoke(w, FirstCheckpoint, FALSE)
    BY <1>2, <2>2 DEF StartInvoke
  <2> QED
    BY <2>1, <2>3, FirstOrderly, InvokeTurn
<1>3. CASE EventAdmit(w)
  <2> DEFINE code == IF store = NoSession THEN 404 ELSE ValidateEvent(store.st, req[w])
  <2>0. pc[w] = "called" /\ req[w].type \in EventTypes /\ UNCHANGED thread
        /\ store' = store /\ Transcript' = Transcript /\ seen' = seen
    BY <1>3 DEF EventAdmit, Serves, thread, Transcript
  <2>1. CASE code = 200
    <3>1. Validated(w) /\ Admit(w) /\ req[w].type # "start"
      BY <1>3, <2>0, <2>1 DEF EventAdmit, Validated, EventTypes
    <3> QED
      BY <2>0, <3>1, AdmitTurn
  <2>2. CASE code # 200
    <3>1. Answer(w, code)
      BY <1>3, <2>2 DEF EventAdmit
    <3> HIDE DEF code
    <3> QED
      BY <1>0, <2>0, <3>1, AnswerTurn
  <2> QED
    BY <2>1, <2>2
<1>4. CASE EventInvoke(w)
  <2>0. pc[w] = "admitted" /\ Validated(w) /\ UNCHANGED thread
        /\ store' = store /\ Transcript' = Transcript /\ seen' = seen
    BY <1>4 DEF EventInvoke, Serves, SInv, TurnInv, thread, Transcript
  <2>1. Invoke(w, store, TRUE)
    BY <1>4, <2>0 DEF EventInvoke, Validated
  <2>2. Orderly(store)
    BY <2>0 DEF Validated, SInv
  <2> QED
    BY <2>0, <2>1, <2>2, InvokeTurn
<1>5. CASE Reset(w)
  <2>1. pc[w] = "called" /\ Answer(w, 200) /\ store' = NoSession /\ seen' = << >>
    BY <1>5 DEF Reset, Serves
  <2>2. << >> \in Seq(Messages)
    OBVIOUS
  <2>3. IsPrefix(seen, Transcript)'
    BY <2>1, <2>2, PrefixReflexive DEF Transcript
  <2> QED
    BY <2>1, <2>3, AnswerTurn
<1>6. CASE RunNode(w)
  BY <1>6, NodeStepTurn
<1>7. CASE NodeFails(w)
  BY <1>0, <1>7, AnswerTurn DEF NodeFails, thread, Transcript
<1>8. CASE Save(w)
  BY <1>8, SaveTurn
<1>9. CASE Respond(w)
  BY <1>0, <1>9, AnswerTurn DEF Respond, TurnOver, AnswerView, Transcript
<1> QED
  BY <1>1, <1>2, <1>3, <1>4, <1>5, <1>6, <1>7, <1>8, <1>9 DEF Serve

LEMMA NextSInv == IInv /\ SInv /\ OneAtATime /\ [Next]_vars => SInv'
<1> SUFFICES ASSUME IInv, SInv, OneAtATime, [Next]_vars PROVE SInv'
  OBVIOUS
<1>1. ASSUME NEW w \in Workers, Serve(w) PROVE SInv'
  BY <1>1, ServeTurn
<1>2. ASSUME NEW w \in Workers, NEW r \in Requests, Call(w, r) PROVE SInv'
  <2>1. /\ pc[w] = "idle" /\ pc' = [pc EXCEPT ![w] = "called"] /\ req' = [req EXCEPT ![w] = r]
        /\ store' = store /\ seen' = seen /\ run' = run /\ resume' = resume
    BY <1>2 DEF Call, thread, turn
  <2>2. ASSUME NEW v \in Workers PROVE TurnInv(v)'
    <3>1. CASE v = w
      <4>1. run[w] = NoSession /\ ~resume[w]
        BY <2>1 DEF IInv, WorkerInv, SInv, TurnInv
      <4> QED
        BY <2>1, <3>1, <4>1 DEF TurnInv, Serves, IInv, TypeOK
    <3>2. CASE v # w
      <4>1. pc'[v] = pc[v] /\ req'[v] = req[v]
        BY <2>1, <3>2 DEF IInv, TypeOK
      <4> QED
        BY <2>1, <4>1 DEF SInv, TurnInv, Serves, Validated
    <3> QED
      BY <3>1, <3>2
  <2> QED
    BY <2>1, <2>2 DEF SInv, Transcript
<1>3. ASSUME Crash PROVE SInv'
  <2>1. /\ pc' = [w \in Workers |-> "idle"] /\ run' = [w \in Workers |-> NoSession]
        /\ resume' = [w \in Workers |-> FALSE] /\ store' = store /\ seen' = seen
    BY <1>3 DEF Crash, thread
  <2>2. \A w \in Workers : TurnInv(w)'
    BY <2>1 DEF TurnInv, Serves
  <2> QED
    BY <2>1, <2>2 DEF SInv, Transcript
<1>4. ASSUME UNCHANGED vars PROVE SInv'
  BY <1>4 DEF vars, SInv, TurnInv, Serves, Validated, Transcript
<1> QED
  BY <1>1, <1>2, <1>3, <1>4 DEF Next

\* While requests for a session come one at a time, every checkpoint is orderly
\* and every turn goes on from the stored one, over failures and restarts.
THEOREM SessionInvariance == Spec /\ []OneAtATime => []SInv
  BY InitSInv, NextSInv, Invariance, PTL DEF Spec

LEMMA LiveOrderly == IInv /\ SInv => \A c \in Live : Sound(c) /\ Orderly(c)
<1> SUFFICES ASSUME IInv, SInv, NEW c \in Live PROVE Orderly(c)
  BY LiveSound
<1>1. CASE c = store
  BY <1>1 DEF Live, SInv
<1>2. ASSUME NEW w \in Workers, c = run[w] PROVE Orderly(c)
  BY <1>2 DEF Live, SInv, TurnInv
<1> QED
  BY <1>1, <1>2 DEF Live

\* The pane the UI shows fits the phase, in every checkpoint.
THEOREM PaneFits == Spec /\ []OneAtATime => []StatusMatchesPhase
<1>1. IInv /\ SInv => StatusMatchesPhase
  BY LiveOrderly DEF StatusMatchesPhase, Orderly, Pane
<1> QED
  BY <1>1, SessionInvariance, Invariance, PTL

\* A student's message is never followed by another one, and a graph that waits
\* has answered: a turn that failed or was cut off is completed first.
THEOREM TurnsAnswered == Spec /\ []OneAtATime => []EveryTurnAnswered
<1>1. IInv /\ SInv => EveryTurnAnswered
  BY LiveOrderly DEF EveryTurnAnswered, Orderly, Answered, Alternates, Last
<1> QED
  BY <1>1, SessionInvariance, Invariance, PTL

\* The counters count the transcript.
LEMMA CountedMatches ==
  ASSUME NEW c, Sound(c), Orderly(c)
  PROVE  LET log == c.st.messages
         IN  /\ CountMessages(log, LAMBDA m : IsStudent(m, "logic")) = Occurs(log, LogicSubmissions)
             /\ CountMessages(log, LAMBDA m : IsStudent(m, "code")) = Occurs(log, CodeSubmissions)
             /\ CountMessages(log, IsResult) = Occurs(log, Results)
             /\ CountMessages(log, LAMBDA m : m = INFRA_MESSAGE) = Occurs(log, {INFRA_MESSAGE})
<1> DEFINE log == c.st.messages
<1>1. \A i \in DOMAIN log : log[i] \in Messages
  BY DEF Sound, Checkpoints, SessionStates
<1>2. /\ {i \in DOMAIN log : IsStudent(log[i], "logic")} = {i \in DOMAIN log : log[i] \in LogicSubmissions}
      /\ {i \in DOMAIN log : IsStudent(log[i], "code")} = {i \in DOMAIN log : log[i] \in CodeSubmissions}
      /\ {i \in DOMAIN log : IsResult(log[i])} = {i \in DOMAIN log : log[i] \in Results}
      /\ {i \in DOMAIN log : log[i] = INFRA_MESSAGE} = {i \in DOMAIN log : log[i] \in {INFRA_MESSAGE}}
  BY <1>1 DEF LogicSubmissions, CodeSubmissions, Results
<1> QED
  BY <1>2 DEF CountMessages, Occurs

\* Every evaluated submission is one attempt and every result one code attempt,
\* an infrastructure failure none, over failures, retries and restarts.
THEOREM AttemptsCounted == Spec /\ []OneAtATime => []AttemptsMatchTranscript
<1>1. IInv /\ SInv => AttemptsMatchTranscript
  <2> SUFFICES ASSUME IInv, SInv, NEW c \in Live
               PROVE  LET log == c.st.messages
                          waiting(node) == IF c.next = node THEN 1 ELSE 0
                      IN  /\ c.st.attempts.logic + waiting("evaluate_logic") =
                               CountMessages(log, LAMBDA m : IsStudent(m, "logic"))
                          /\ c.st.attempts.code = CountMessages(log, IsResult)
                          /\ CountMessages(log, LAMBDA m : IsStudent(m, "code")) =
                               c.st.attempts.code + waiting("execute_code")
                                 + CountMessages(log, LAMBDA m : m = INFRA_MESSAGE)
    BY DEF AttemptsMatchTranscript
  <2>1. Sound(c) /\ Orderly(c)
    BY LiveOrderly
  <2>2. Counted(c)
    BY <2>1 DEF Orderly
  <2> QED
    BY <2>1, <2>2, CountedMatches DEF Counted, Waiting
<1> QED
  BY <1>1, SessionInvariance, Invariance, PTL

\* What a view has shown is still there later, over failures and restarts.
THEOREM ShownSurvives == Spec /\ []OneAtATime => []ShownTranscriptSurvives
<1>1. SInv => ShownTranscriptSurvives
  BY DEF SInv, ShownTranscriptSurvives
<1> QED
  BY <1>1, SessionInvariance, PTL

-----------------------------------------------------------------------------
(* Verdicts *)

\* The state an invoke of start begins with.
Fresh(c) == c.st.last_eval = None /\ c.st.phase = "LOGIC"

\* A step is a superstep, or it leaves the caches alone and makes no checkpoint
\* but the first one of a session.
LEMMA StepsOutsideNodes ==
  ASSUME IInv, [Next]_vars
  PROVE  \/ \E w \in Workers : RunNode(w)
         \/ /\ UNCHANGED caches
            /\ \A c \in Live' : c \in Live \/ Fresh(c)
<1>1. ASSUME NEW w \in Workers, NEW code, Answer(w, code), store' \in {store, NoSession}
      PROVE  Live' \subseteq Live
  BY <1>1 DEF Answer, Live, IInv, TypeOK
<1>2. ASSUME store' = store, run' = run PROVE Live' \subseteq Live
  BY <1>2 DEF Live
<1>3. ASSUME NEW w \in Workers, NEW c, NEW r, Invoke(w, c, r), store' = store, c = store
      PROVE  Live' \subseteq Live
  BY <1>3 DEF Invoke, Live, IInv, TypeOK
<1>4. ASSUME NEW w \in Workers, Serve(w), ~RunNode(w)
      PROVE  /\ UNCHANGED caches
             /\ \A c \in Live' : c \in Live \/ Fresh(c)
  <2>1. CASE StartLookup(w)
    BY <1>1, <1>2, <2>1 DEF StartLookup, AnswerView, Admit, turn, caches
  <2>2. CASE StartInvoke(w)
    <3> DEFINE c == [st |-> [InitialState EXCEPT !.messages = Transcript], next |-> "await_input"]
    <3>1. run' = [run EXCEPT ![w] = c] /\ store' = store /\ UNCHANGED caches
      BY <2>2 DEF StartInvoke, Invoke, thread
    <3>2. Fresh(c)
      BY DEF InitialState, Fresh
    <3> HIDE DEF c
    <3>3. Live' \subseteq Live \cup {c}
      BY <3>1 DEF Live, IInv, TypeOK
    <3> QED
      BY <3>1, <3>2, <3>3
  <2>3. CASE EventAdmit(w)
    BY <1>1, <1>2, <2>3 DEF EventAdmit, Admit, turn, thread, caches
  <2>4. CASE EventInvoke(w)
    BY <1>1, <1>3, <2>4 DEF EventInvoke, thread, caches
  <2>5. CASE Reset(w)
    BY <1>1, <2>5 DEF Reset, caches
  <2>6. CASE NodeFails(w)
    BY <1>1, <2>6 DEF NodeFails, thread, caches
  <2>7. CASE Save(w)
    BY <2>7 DEF Save, caches, Live
  <2>8. CASE Respond(w)
    BY <1>1, <2>8 DEF Respond, AnswerView, caches
  <2> QED
    BY <1>4, <2>1, <2>2, <2>3, <2>4, <2>5, <2>6, <2>7, <2>8 DEF Serve
<1>5. ASSUME NEW w \in Workers, NEW r \in Requests, Call(w, r)
      PROVE  UNCHANGED caches /\ Live' \subseteq Live
  BY <1>2, <1>5 DEF Call, thread, caches, turn
<1>6. ASSUME Crash PROVE UNCHANGED caches /\ Live' \subseteq Live
  BY <1>6 DEF Crash, thread, caches, Live
<1>7. ASSUME UNCHANGED vars PROVE UNCHANGED caches /\ Live' \subseteq Live
  BY <1>2, <1>7 DEF vars, caches
<1> QED
  BY <1>4, <1>5, <1>6, <1>7 DEF Next

LEMMA NextVerdict ==
  ASSUME ~CacheMayFail, IInv, SInv, OneVerdictPerText, [Next]_vars
  PROVE  OneVerdictPerText'
<1> SUFFICES ASSUME NEW c \in Live', c.st.last_eval # None, c.next # "evaluate_logic"
             PROVE  verdictCache'[c.st.user_logic] = c.st.last_eval
  BY DEF OneVerdictPerText
<1>1. ASSUME c \in Live, RowsStay PROVE verdictCache'[c.st.user_logic] = c.st.last_eval
  <2>1. c.st.user_logic \in Texts
    BY <1>1, LiveOrderly DEF Orderly
  <2>2. verdictCache[c.st.user_logic] = c.st.last_eval
    BY <1>1 DEF OneVerdictPerText
  <2> QED
    BY <1>1, <2>1, <2>2 DEF RowsStay
<1>2. ASSUME NEW w \in Workers, RunNode(w)
      PROVE  verdictCache'[c.st.user_logic] = c.st.last_eval
  <2> DEFINE b == run[w]
             d == run'[w]
  <2>1. NodeDoes(w, b, d)
    BY <1>2, NodeTurn
  <2>2. store' = store /\ (\A v \in Workers \ {w} : run'[v] = run[v]) /\ RowsStay
    BY <2>1 DEF NodeDoes, Advance, thread, IInv, TypeOK
  <2>3. c \in Live \/ c = d
    BY <2>2 DEF Live
  <2>4. b \in Live
    <3>1. pc[w] = "running"
      BY <1>2 DEF RunNode, At, AwaitInputNode, EvaluateLogicNode, SummarizeLogicNode,
             LogicTutorNode, VerifyLogicNode, ExecuteCodeNode, CodeTutorNode, VerifyCodeNode,
             FinishNode
    <3> QED
      BY <3>1 DEF IInv, WorkerInv, Live
  <2> HIDE DEF b, d
  <2>5. CASE c = d /\ b.next = "evaluate_logic"
    BY <2>1, <2>5 DEF NodeDoes
  <2>6. CASE c = d /\ b.next # "evaluate_logic"
    <3>1. c.st.last_eval = b.st.last_eval /\ c.st.user_logic = b.st.user_logic
      BY <2>1, <2>6 DEF NodeDoes, KeepsVerdict
    <3>2. b.st.user_logic \in Texts
      BY <2>4, <3>1, LiveOrderly DEF Orderly
    <3>3. verdictCache[b.st.user_logic] = b.st.last_eval
      BY <2>4, <2>6, <3>1 DEF OneVerdictPerText
    <3> QED
      BY <2>2, <3>1, <3>2, <3>3 DEF RowsStay
  <2> QED
    BY <1>1, <2>2, <2>3, <2>5, <2>6
<1>3. CASE UNCHANGED caches /\ \A b \in Live' : b \in Live \/ Fresh(b)
  BY <1>1, <1>3 DEF RowsStay, Fresh, caches
<1> QED
  BY <1>2, <1>3, StepsOutsideNodes

\* With a cache that works, a text has one verdict for good: what a session was
\* told of its current submission is what the cache tells everybody after it.
THEOREM OneVerdict ==
  ASSUME ~CacheMayFail
  PROVE  Spec /\ []OneAtATime => []OneVerdictPerText
<1>1. Init => OneVerdictPerText
  BY DEF Init, OneVerdictPerText, Live
<1>2. IInv /\ SInv /\ OneVerdictPerText /\ [Next]_vars => OneVerdictPerText'
  BY NextVerdict
<1> QED
  BY <1>1, <1>2, SessionInvariance, Invariance, PTL DEF Spec

-----------------------------------------------------------------------------
(* The orchestrator keeps the promise of LearningSession *)

Phase == IF store = NoSession THEN "none" ELSE store.st.phase

\* A checkpoint written during a turn shows as a step of the promise, or not at
\* all: also when the writer lags behind and several supersteps show at once.
LEMMA SaveKeepsPromise ==
  ASSUME IInv, SInv, OneAtATime, NEW w \in Workers, Save(w)
  PROVE  Promise!Next \/ (Phase' = Phase /\ Transcript' = Transcript)
<1> DEFINE c == run[w]
<1>1. pc[w] = "running" /\ store' = c
  BY DEF Save
<1>2. /\ Sound(c) /\ c # NoSession
      /\ IF store = NoSession THEN c = FirstCheckpoint ELSE TurnOf(store, c)
  BY <1>1 DEF IInv, WorkerInv, SInv, TurnInv
<1> HIDE DEF c
<1>3. Transcript' = c.st.messages /\ Phase' = c.st.phase
  BY <1>1, <1>2 DEF Transcript, Phase
<1>4. CASE store = NoSession
  <2>1. /\ Phase = "none" /\ Transcript = << >>
        /\ Phase' = "LOGIC" /\ Transcript' = << >>
    BY <1>2, <1>3, <1>4 DEF Phase, Transcript, FirstCheckpoint, InitialState
  <2>2. Promise!Open
    BY <2>1 DEF Promise!Open, Phase
  <2> QED
    BY <2>2 DEF Promise!Next
<1>5. CASE store # NoSession
  <2>1. Phase = store.st.phase /\ Transcript = store.st.messages
    BY <1>5 DEF Phase, Transcript
  <2>2. Phase \in {"LOGIC", "CODE", "DONE"} /\ TurnOf(store, c)
    BY <1>2, <1>5, <2>1 DEF IInv, Sound, Checkpoints, SessionStates, Phases
  <2>3. IsPrefix(Transcript, Transcript')
    BY <1>3, <2>1, <2>2 DEF TurnOf
  <2>4. /\ Transcript' # Transcript => Promise!IsStrictPrefix(Transcript, Transcript')
        /\ Promise!Last(Transcript') = Last(Transcript')
    BY <2>3 DEF IsPrefix, Promise!IsStrictPrefix, Promise!IsPrefix, Last, Promise!Last
  <2>5. CASE /\ Phase' = Phase
             /\ Transcript # Transcript' => Last(Transcript') \notin Notices /\ Phase # "DONE"
    <3>1. CASE Transcript # Transcript'
      <4>1. Promise!Converse
        BY <2>2, <2>4, <2>5, <3>1 DEF Promise!Converse, Promise!Extends, Notices, Phase
      <4> QED
        BY <4>1 DEF Promise!Next
    <3> QED
      BY <2>5, <3>1
  <2>6. CASE /\ Phase = "LOGIC" /\ Phase' = "CODE" /\ Transcript # Transcript'
             /\ Last(Transcript') = UNLOCK_MESSAGE
    <3>1. Promise!Unlock
      BY <2>4, <2>6 DEF Promise!Unlock, Promise!Extends, Phase
    <3> QED
      BY <3>1 DEF Promise!Next
  <2>7. CASE /\ Phase = "CODE" /\ Phase' = "DONE" /\ Transcript # Transcript'
             /\ Last(Transcript') = SUCCESS_MESSAGE
             /\ Transcript'[Len(Transcript') - 1] = ResultMessage("ACCEPTED")
    <3>1. Promise!Complete
      BY <2>4, <2>7 DEF Promise!Complete, Promise!Extends, Phase
    <3> QED
      BY <3>1 DEF Promise!Next
  <2> QED
    BY <1>3, <2>1, <2>2, <2>5, <2>6, <2>7 DEF TurnOf
<1> QED
  BY <1>4, <1>5

\* Only a reset and the write of a checkpoint touch the stored session.
LEMMA StoreWriters ==
  ASSUME [Next]_vars
  PROVE  store' = store \/ \E w \in Workers : Reset(w) \/ Save(w)
<1>1. ASSUME NEW w \in Workers, Serve(w), ~Reset(w), ~Save(w) PROVE store' = store
  <2>1. CASE RunNode(w)
    BY <2>1 DEF RunNode, Advance, thread, AwaitInputNode, EvaluateLogicNode, SummarizeLogicNode,
           LogicTutorNode, VerifyLogicNode, ExecuteCodeNode, CodeTutorNode, VerifyCodeNode,
           FinishNode
  <2> QED
    BY <1>1, <2>1 DEF Serve, thread, StartLookup, StartInvoke, EventAdmit, EventInvoke,
           NodeFails, Respond
<1> QED
  BY <1>1 DEF Next, Call, Crash, thread, vars

LEMMA StepKeepsPromise ==
  IInv /\ SInv /\ OneAtATime /\ [Next]_vars => [Promise!Next]_<<Phase, Transcript>>
<1> SUFFICES ASSUME IInv, SInv, OneAtATime, [Next]_vars
             PROVE  Promise!Next \/ (Phase' = Phase /\ Transcript' = Transcript)
  OBVIOUS
<1>1. CASE store' = store
  BY <1>1 DEF Phase, Transcript
<1>2. ASSUME NEW w \in Workers, Reset(w) PROVE Promise!Close
  BY <1>2 DEF Reset, Transcript, Promise!Close
<1>3. ASSUME NEW w \in Workers, Save(w)
      PROVE  Promise!Next \/ (Phase' = Phase /\ Transcript' = Transcript)
  BY <1>3, SaveKeepsPromise
<1> QED
  BY <1>1, <1>2, <1>3, StoreWriters DEF Promise!Next

\* The stored session is a LearningSession: the phase only moves forward, by a
\* step whose last message says so, and the transcript only grows, until the
\* session is reset; over failures, restarts and any number of requests.
THEOREM PromiseKept == Spec /\ []OneAtATime => KeepsPromise
<1>1. Init => Phase = "none" /\ Transcript = << >>
  BY DEF Init, Phase, Transcript
<1>2. Phase = "none" /\ Transcript = << >> => Promise!Init
  BY DEF Promise!Init, Phase
<1>3. IInv /\ SInv /\ OneAtATime /\ [Next]_vars => [Promise!Next]_<<Phase, Transcript>>
  BY StepKeepsPromise
<1> QED
  BY <1>1, <1>2, <1>3, Invariance, SessionInvariance, PTL
  DEF Spec, KeepsPromise, Promise!Spec, Promise!vars, Phase

\* One worker serialises the requests by itself: with it the orchestrator keeps
\* the promise without a condition on its clients.
THEOREM OneWorkerSuffices ==
  ASSUME NEW w, Workers = {w}
  PROVE  Spec => /\ KeepsPromise
                 /\ [](StatusMatchesPhase /\ EveryTurnAnswered)
                 /\ [](AttemptsMatchTranscript /\ ShownTranscriptSurvives)
<1>1. OneAtATime
  BY DEF OneAtATime
<1> QED
  BY <1>1, PromiseKept, PaneFits, TurnsAnswered, AttemptsCounted, ShownSurvives, PTL

-----------------------------------------------------------------------------
(* How long a turn can be *)

\* The supersteps still ahead of a checkpoint, at most.
Fuel(c, resuming) ==
  LET left == MaxRegenerations - c.st.regenerations
  IN  CASE c.next = "await_input" -> IF resuming THEN 2 * MaxRegenerations + 4 ELSE 0
        [] c.next \in {"evaluate_logic", "execute_code"} -> 2 * left + 3
        [] c.next \in {"logic_tutor", "code_tutor"}      -> 2 * left + 2
        [] c.next \in {"verify_logic", "verify_code"}    -> 2 * left + 1
        [] c.next \in {"summarize_logic", "finish"}      -> 1
        [] OTHER -> 0

TurnFuel(w) == IF run[w] = NoSession THEN 0 ELSE Fuel(run[w], resume[w])

\* No turn ever has more supersteps ahead of it than a whole turn takes.
FuelBound == \A w \in Workers : TurnFuel(w) \in 0 .. 2 * MaxRegenerations + 4

\* While a turn goes on (nodes and edges of graph.py, whichever worker moves), no
\* step gives it fuel and every superstep takes some.
NodesBurnFuel ==
  [][\A w \in Workers :
       pc[w] = "running" /\ pc'[w] = "running" =>
         /\ TurnFuel(w)' <= TurnFuel(w)
         /\ RunNode(w) => TurnFuel(w)' < TurnFuel(w)]_vars

LEMMA FuelTyped ==
  ASSUME NEW c, Sound(c), NEW resuming
  PROVE  /\ c.st.regenerations \in Nat /\ Fuel(c, resuming) \in 0 .. 2 * MaxRegenerations + 4
         /\ c.next \in LogicNodes \cup CodeNodes => c.st.regenerations <= MaxRegenerations
<1>1. /\ c.next \in Nodes /\ c.st.regenerations \in Nat /\ MaxRegenerations \in Nat
      /\ c.next \in LogicNodes \cup CodeNodes => c.st.regenerations <= MaxRegenerations
  BY GraphAssumption DEF Sound, LoopHeld, Checkpoints, SessionStates
<1> DEFINE left == MaxRegenerations - c.st.regenerations
<1>2. c.next \in LogicNodes \cup CodeNodes => left \in 0 .. MaxRegenerations
  BY <1>1
<1> QED
  BY <1>1, <1>2 DEF Fuel, Nodes, LogicNodes, CodeNodes

LEMMA AwaitInputBurns ==
  ASSUME NEW c, Sound(c), c.next = "await_input", NEW e,
         NEW n, n = RouteAfterInput(e.type, c.st.phase)
  PROVE  Fuel([st |-> AwaitInput(c.st, e), next |-> n], FALSE) < Fuel(c, TRUE)
<1> DEFINE t == AwaitInput(c.st, e)
<1>1. t.regenerations = 0 /\ MaxRegenerations \in Nat
  BY GraphAssumption DEF AwaitInput, Sound, Checkpoints, SessionStates
<1>2. n \in {"evaluate_logic", "logic_tutor", "execute_code", "code_tutor", "await_input"}
  BY DEF RouteAfterInput
<1> HIDE DEF t
<1> QED
  BY <1>1, <1>2 DEF Fuel, t

\* A node that runs once in a turn leaves the count of rejections alone.
LEMMA OnwardBurns ==
  ASSUME NEW c, Sound(c), NEW d, d.st.regenerations = c.st.regenerations,
         \/ c.next = "evaluate_logic" /\ d.next \in {"summarize_logic", "logic_tutor"}
         \/ c.next = "execute_code" /\ d.next \in {"finish", "await_input", "code_tutor"}
         \/ c.next = "logic_tutor" /\ d.next = "verify_logic"
         \/ c.next = "code_tutor" /\ d.next = "verify_code"
         \/ c.next = "summarize_logic" /\ d.next = "await_input"
         \/ c.next = "finish" /\ d.next = "END"
  PROVE  \A resuming \in BOOLEAN : Fuel(d, FALSE) < Fuel(c, resuming)
<1>1. /\ c.st.regenerations \in Nat /\ MaxRegenerations \in Nat
      /\ c.st.regenerations <= MaxRegenerations
  BY FuelTyped, GraphAssumption DEF LogicNodes, CodeNodes
<1> QED
  BY <1>1 DEF Fuel

\* The verification loop: back to the tutor only with one rejection more.
LEMMA VerifyBurns ==
  ASSUME NEW c, Sound(c), NEW d,
         \/ /\ c.next = "verify_logic" /\ d.st = VerifyLogic(c.st)
            /\ d.next = RouteAfterVerifyLogic(d.st)
         \/ /\ c.next = "verify_code" /\ d.st = VerifyCode(c.st)
            /\ d.next = RouteAfterVerifyCode(d.st)
  PROVE  \A resuming \in BOOLEAN : Fuel(d, FALSE) < Fuel(c, resuming)
<1>1. /\ c.st \in SessionStates /\ c.st.regenerations \in Nat /\ MaxRegenerations \in Nat
      /\ c.st.regenerations <= MaxRegenerations
  BY AtVerifier, GraphAssumption
<1>2. \/ d.next = "await_input"
      \/ /\ d.next = IF c.next = "verify_logic" THEN "logic_tutor" ELSE "code_tutor"
         /\ d.st.regenerations = c.st.regenerations + 1
  <2>1. \A s \in SessionStates : \A text, status : Deliver(s, text, status).draft = None
    BY DEF Deliver, Say, SessionStates
  <2>2. \A text, status : DeliverFallback(c.st, text, status).draft = None
    BY <1>1 DEF DeliverFallback, Deliver, Say, Reject, SessionStates
  <2>3. Reject(c.st).regenerations = c.st.regenerations + 1
    BY <1>1 DEF Reject, SessionStates
  <2>4. CASE c.next = "verify_logic"
    <3>1. VerifyLogic(c.st).draft = None \/ VerifyLogic(c.st) = Reject(c.st)
      BY <1>1, <2>1, <2>2 DEF VerifyLogic
    <3> QED
      BY <2>3, <2>4, <3>1 DEF RouteAfterVerifyLogic
  <2>5. CASE c.next = "verify_code"
    <3>1. VerifyCode(c.st).draft = None \/ VerifyCode(c.st) = Reject(c.st)
      BY <1>1, <2>1, <2>2 DEF VerifyCode
    <3> QED
      BY <2>3, <2>5, <3>1 DEF RouteAfterVerifyCode
  <2> QED
    BY <2>4, <2>5
<1>3. c.next \in {"verify_logic", "verify_code"}
  OBVIOUS
<1> QED
  BY <1>1, <1>2, <1>3 DEF Fuel

\* Every superstep, for any number of workers at work on the session.
LEMMA NodeBurns ==
  ASSUME IInv, NEW w \in Workers, RunNode(w)
  PROVE  TurnFuel(w)' < TurnFuel(w)
<1> DEFINE c == run[w]
           s == run[w].st
<1>0. ASSUME NEW t, NEW n, Advance(w, t, n), Fuel([st |-> t, next |-> n], FALSE) < Fuel(c, resume[w])
      PROVE  TurnFuel(w)' < TurnFuel(w)
  <2>1. run'[w] = [st |-> t, next |-> n] /\ resume'[w] = FALSE /\ pc' = pc
    BY <1>0 DEF Advance, request, IInv, TypeOK
  <2>2. pc[w] = "running"
    BY DEF RunNode, At, AwaitInputNode, EvaluateLogicNode, SummarizeLogicNode, LogicTutorNode,
           VerifyLogicNode, ExecuteCodeNode, CodeTutorNode, VerifyCodeNode, FinishNode
  <2>3. run[w] # NoSession /\ run'[w] # NoSession
    BY <2>1, <2>2, RunNodeInv DEF IInv, WorkerInv
  <2> QED
    BY <1>0, <2>1, <2>3 DEF TurnFuel
<1>1. ASSUME NEW node, At(w, node)
      PROVE  Sound(c) /\ s \in SessionStates /\ c.next = node /\ resume[w] \in BOOLEAN
  BY <1>1, AtNode DEF Sound, Checkpoints, IInv, TypeOK
<1>2. CASE AwaitInputNode(w)
  <2>1. Sound(c) /\ c.next = "await_input" /\ resume[w] = TRUE
    BY <1>1, <1>2 DEF AwaitInputNode
  <2> QED
    BY <1>0, <1>2, <2>1, AwaitInputBurns DEF AwaitInputNode
<1>3. CASE EvaluateLogicNode(w)
  <2>1. PICK verdict : Advance(w, EvaluateLogic(s, verdict), RouteAfterEval(verdict))
    BY <1>3 DEF EvaluateLogicNode
  <2>2. EvaluateLogic(s, verdict).regenerations = s.regenerations
    BY <1>1, <1>3 DEF EvaluateLogicNode, EvaluateLogic, SessionStates
  <2>3. RouteAfterEval(verdict) \in {"summarize_logic", "logic_tutor"}
    BY DEF RouteAfterEval
  <2> QED
    BY <1>0, <1>1, <1>3, <2>1, <2>2, <2>3, OnwardBurns DEF EvaluateLogicNode
<1>4. CASE SummarizeLogicNode(w)
  <2>1. PICK summary : Advance(w, SummarizeLogic(s, summary), "await_input")
    BY <1>4 DEF SummarizeLogicNode
  <2>2. SummarizeLogic(s, summary).regenerations = s.regenerations
    BY <1>1, <1>4 DEF SummarizeLogicNode, SummarizeLogic, Say, SessionStates
  <2> QED
    BY <1>0, <1>1, <1>4, <2>1, <2>2, OnwardBurns DEF SummarizeLogicNode
<1>5. CASE LogicTutorNode(w)
  <2>1. PICK draft : Advance(w, LogicTutor(s, draft), "verify_logic")
    BY <1>5 DEF LogicTutorNode
  <2>2. LogicTutor(s, draft).regenerations = s.regenerations
    BY <1>1, <1>5 DEF LogicTutorNode, LogicTutor, SessionStates
  <2> QED
    BY <1>0, <1>1, <1>5, <2>1, <2>2, OnwardBurns DEF LogicTutorNode
<1>6. CASE VerifyLogicNode(w)
  BY <1>0, <1>1, <1>6, VerifyBurns DEF VerifyLogicNode
<1>7. CASE ExecuteCodeNode(w)
  <2>1. PICK bucket : Advance(w, ExecuteCode(s, bucket), RouteAfterExecute(bucket))
    BY <1>7 DEF ExecuteCodeNode
  <2>2. ExecuteCode(s, bucket).regenerations = s.regenerations
    BY <1>1, <1>7 DEF ExecuteCodeNode, ExecuteCode, Say, SessionStates
  <2>3. RouteAfterExecute(bucket) \in {"finish", "await_input", "code_tutor"}
    BY DEF RouteAfterExecute
  <2> QED
    BY <1>0, <1>1, <1>7, <2>1, <2>2, <2>3, OnwardBurns DEF ExecuteCodeNode
<1>8. CASE CodeTutorNode(w)
  <2>1. PICK draft : Advance(w, CodeTutor(s, draft), "verify_code")
    BY <1>8 DEF CodeTutorNode
  <2>2. CodeTutor(s, draft).regenerations = s.regenerations
    BY <1>1, <1>8 DEF CodeTutorNode, CodeTutor, SessionStates
  <2> QED
    BY <1>0, <1>1, <1>8, <2>1, <2>2, OnwardBurns DEF CodeTutorNode
<1>9. CASE VerifyCodeNode(w)
  BY <1>0, <1>1, <1>9, VerifyBurns DEF VerifyCodeNode
<1>10. CASE FinishNode(w)
  <2>1. Finish(s).regenerations = s.regenerations
    BY <1>1, <1>10 DEF FinishNode, Finish, Say, SessionStates
  <2> QED
    BY <1>0, <1>1, <1>10, <2>1, OnwardBurns DEF FinishNode
<1> QED
  BY <1>2, <1>3, <1>4, <1>5, <1>6, <1>7, <1>8, <1>9, <1>10 DEF RunNode

\* A turn in progress changes by its own supersteps only.
LEMMA OnlyNodesMove ==
  ASSUME IInv, [Next]_vars, NEW w \in Workers, pc[w] = "running", pc'[w] = "running",
         ~RunNode(w)
  PROVE  run'[w] = run[w] /\ resume'[w] = resume[w]
<1>1. ASSUME NEW v \in Workers, NEW code, Answer(v, code)
      PROVE  run'[w] = run[w] /\ resume'[w] = resume[w]
  BY <1>1 DEF Answer, IInv, TypeOK
<1>2. ASSUME NEW v \in Workers, NEW c, NEW r, Invoke(v, c, r), pc[v] = "admitted"
      PROVE  run'[w] = run[w] /\ resume'[w] = resume[w]
  BY <1>2 DEF Invoke, IInv, TypeOK
<1>3. ASSUME NEW v \in Workers, Serve(v) PROVE run'[w] = run[w] /\ resume'[w] = resume[w]
  <2>1. CASE StartLookup(v)
    BY <1>1, <2>1 DEF StartLookup, AnswerView, Admit, turn
  <2>2. CASE StartInvoke(v)
    BY <1>2, <2>2 DEF StartInvoke, Serves
  <2>3. CASE EventAdmit(v)
    BY <1>1, <2>3 DEF EventAdmit, Admit, turn
  <2>4. CASE EventInvoke(v)
    BY <1>1, <1>2, <2>4 DEF EventInvoke, Serves
  <2>5. CASE Reset(v)
    BY <1>1, <2>5 DEF Reset
  <2>6. CASE RunNode(v)
    <3>1. v # w
      BY <2>6
    <3>2. PICK t, n : Advance(v, t, n)
      BY <2>6 DEF RunNode, AwaitInputNode, EvaluateLogicNode, SummarizeLogicNode,
             LogicTutorNode, VerifyLogicNode, ExecuteCodeNode, CodeTutorNode, VerifyCodeNode,
             FinishNode
    <3>3. PICK d : run' = [run EXCEPT ![v] = d] /\ resume' = [resume EXCEPT ![v] = FALSE]
      BY <3>2 DEF Advance
    <3>4. DOMAIN run = Workers /\ DOMAIN resume = Workers
      BY DEF IInv, TypeOK
    <3> QED
      BY <3>1, <3>3, <3>4
  <2>7. CASE NodeFails(v)
    BY <1>1, <2>7 DEF NodeFails
  <2>8. CASE Save(v)
    BY <2>8 DEF Save
  <2>9. CASE Respond(v)
    BY <1>1, <2>9 DEF Respond, AnswerView
  <2> QED
    BY <1>3, <2>1, <2>2, <2>3, <2>4, <2>5, <2>6, <2>7, <2>8, <2>9 DEF Serve
<1>4. CASE Crash
  BY <1>4 DEF Crash
<1> QED
  BY <1>3, <1>4 DEF Next, Call, turn, vars

\* However requests interleave, a turn takes at most 2 * MaxRegenerations + 4
\* supersteps (8 in production) from its input to its answer, whatever the
\* model, the verifier and the sandbox say.
THEOREM TurnsAreShort == Spec => []FuelBound /\ NodesBurnFuel
<1>1. IInv => FuelBound
  BY FuelTyped, GraphAssumption DEF IInv, WorkerInv, FuelBound, TurnFuel
<1>2. IInv /\ [Next]_vars =>
        [\A w \in Workers :
           pc[w] = "running" /\ pc'[w] = "running" =>
             /\ TurnFuel(w)' <= TurnFuel(w)
             /\ RunNode(w) => TurnFuel(w)' < TurnFuel(w)]_vars
  <2> SUFFICES ASSUME IInv, [Next]_vars, NEW w \in Workers,
                      pc[w] = "running", pc'[w] = "running"
               PROVE  /\ TurnFuel(w)' <= TurnFuel(w)
                      /\ RunNode(w) => TurnFuel(w)' < TurnFuel(w)
    OBVIOUS
  <2>1. TurnFuel(w) \in Int /\ TurnFuel(w)' \in Int
    <3>1. WorkerInv(w) /\ WorkerInv(w)'
      BY NextIInv DEF IInv
    <3>2. run[w] # NoSession /\ Sound(run[w]) /\ run'[w] # NoSession /\ Sound(run'[w])
      BY <3>1 DEF WorkerInv
    <3> QED
      BY <3>2, FuelTyped, GraphAssumption DEF TurnFuel
  <2>2. CASE RunNode(w)
    BY <2>1, <2>2, NodeBurns
  <2>3. CASE ~RunNode(w)
    BY <2>1, <2>3, OnlyNodesMove DEF TurnFuel
  <2> QED
    BY <2>2, <2>3
<1> QED
  BY <1>1, <1>2, Invariance, PTL DEF Spec, NodesBurnFuel
=============================================================================
