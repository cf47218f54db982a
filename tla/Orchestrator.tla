---------------------------- MODULE Orchestrator ----------------------------
(***************************************************************************)
(* The orchestrator's HTTP API (orchestrator/app/main.py) over one session *)
(* thread: its checkpoint in Postgres, the requests in progress, each      *)
(* running a turn of the graph of SessionGraph on a copy of the state, and *)
(* the two caches the nodes read.  FastAPI runs the endpoints on a thread  *)
(* pool and nothing serialises two requests for one thread, so a worker is *)
(* a request slot and its steps interleave with every other worker's.      *)
(*                                                                         *)
(* LangGraph and its Postgres saver are not part of the repository; they   *)
(* are modelled from how main.py uses them:                                *)
(*   - invoke loads the newest checkpoint once, then works on that copy;   *)
(*   - one checkpoint per superstep, written in the background in order    *)
(*     (Save), so the store may lag behind the running turn, but an invoke *)
(*     returns or raises only when its last checkpoint is written;         *)
(*   - a node that raises leaves the checkpoint before it, whose next node *)
(*     is the one that failed; the next invoke starts there, and a resume  *)
(*     value is gone after the first superstep whoever consumed it.        *)
(* A background write that loses to a newer checkpoint of another worker   *)
(* is the same as one made before it, which Save allows too.               *)
(***************************************************************************)
EXTENDS SessionGraph, SequencesExt

CONSTANTS
  Workers,        \* requests that may be in progress together
  SandboxBuckets, \* the answers of the domain service a run considers
  CacheMayFail,   \* whether cache.get and cache.put may fail (both swallow it)
  MaxCalls,       \* bound: requests made in a behaviour
  MaxCrashes,     \* bound: restarts of the orchestrator in a behaviour
  NoSession       \* a thread without a checkpoint

Checkpoints == [st : SessionStates, next : Nodes]
Requests    == Events \cup [type : {"start", "reset"}, text : {Blank}]

ASSUME OrchestratorAssumption ==
  /\ SandboxBuckets \subseteq Buckets
  /\ CacheMayFail \in BOOLEAN
  /\ MaxCalls \in Nat /\ MaxCrashes \in Nat
  /\ NoSession \notin Checkpoints

VARIABLES
  store,        \* the newest checkpoint of the thread, or NoSession
  pc,           \* where each worker's request is
  req,          \* the request it serves, or served last
  run,          \* the graph state its invoke works on
  resume,       \* whether its resume value is still to be consumed
  dirty,        \* whether run holds a checkpoint not yet written
  reply,        \* the status it answered last, 0 while it works
  verdictCache, \* orch.verdict_cache, rows of kind "verdict"
  summaryCache, \* orch.verdict_cache, rows of kind "summary"
  ctxCached,    \* whether domain_client's in-process cache holds the problem
  seen,         \* history: the transcript last shown in a view of this session
  calls,        \* requests still to come
  crashes       \* restarts still to come

thread  == <<store, seen>>
caches  == <<verdictCache, summaryCache>>
turn    == <<run, resume, dirty>>
request == <<pc, req, reply>>
budget  == <<calls, crashes>>
vars    == <<store, seen, verdictCache, summaryCache, ctxCached,
             run, resume, dirty, pc, req, reply, calls, crashes>>

\* One invariant per module says what the variables range over.
TypeOK ==
  /\ store \in Checkpoints \cup {NoSession}
  /\ pc \in [Workers -> {"idle", "called", "admitted", "running"}]
  /\ req \in [Workers -> Requests]
  /\ run \in [Workers -> Checkpoints \cup {NoSession}]
  /\ resume \in [Workers -> BOOLEAN]
  /\ dirty \in [Workers -> BOOLEAN]
  /\ reply \in [Workers -> {0, 200, 404, 409, 422, 500}]
  /\ verdictCache \in [Texts -> Verdicts \cup {None}]
  /\ summaryCache \in [Texts -> Summaries \cup {None}]
  /\ ctxCached \in BOOLEAN
  /\ seen \in Seq(Messages)
  /\ calls \in Nat
  /\ crashes \in Nat

Init ==
  /\ store = NoSession
  /\ pc = [w \in Workers |-> "idle"]
  /\ req = [w \in Workers |-> [type |-> "reset", text |-> Blank]]
  /\ run = [w \in Workers |-> NoSession]
  /\ resume = [w \in Workers |-> FALSE]
  /\ dirty = [w \in Workers |-> FALSE]
  /\ reply = [w \in Workers |-> 0]
  /\ verdictCache = [t \in Texts |-> None]
  /\ summaryCache = [t \in Texts |-> None]
  /\ ctxCached = FALSE
  /\ seen = << >>
  /\ calls = MaxCalls
  /\ crashes = MaxCrashes

-----------------------------------------------------------------------------
(* Requests *)

\* The gateway forwards a request; a free worker takes it.
Call(w, r) ==
  /\ pc[w] = "idle"
  /\ calls > 0
  /\ calls' = calls - 1
  /\ pc' = [pc EXCEPT ![w] = "called"]
  /\ req' = [req EXCEPT ![w] = r]
  /\ reply' = [reply EXCEPT ![w] = 0]
  /\ UNCHANGED <<thread, caches, ctxCached, turn, crashes>>

Transcript == IF store = NoSession THEN << >> ELSE store.st.messages

Serves(w, where, types) == pc[w] = where /\ req[w].type \in types

\* The request ends.  A 200 to start or to an event carries a view of the
\* newest checkpoint, not of what this worker's own turn computed.
Answer(w, code) ==
  /\ pc' = [pc EXCEPT ![w] = "idle"]
  /\ reply' = [reply EXCEPT ![w] = code]
  /\ run' = [run EXCEPT ![w] = NoSession]
  /\ resume' = [resume EXCEPT ![w] = FALSE]
  /\ dirty' = [dirty EXCEPT ![w] = FALSE]
  /\ UNCHANGED req

AnswerView(w) == Answer(w, 200) /\ seen' = Transcript

Invoke(w, checkpoint, resuming) ==
  /\ pc' = [pc EXCEPT ![w] = "running"]
  /\ run' = [run EXCEPT ![w] = checkpoint]
  /\ resume' = [resume EXCEPT ![w] = resuming]
  /\ dirty' = [dirty EXCEPT ![w] = ~resuming]
  /\ UNCHANGED <<req, reply>>

Admit(w) ==
  /\ pc' = [pc EXCEPT ![w] = "admitted"]
  /\ UNCHANGED <<req, reply, turn>>

\* Mutant: a start begins a session whether there is one or not.
StartLookupAlwaysAdmits(w) ==
  /\ Serves(w, "called", {"start"})
  /\ Admit(w)
  /\ UNCHANGED <<thread, caches, ctxCached, budget>>

\* start, first half: an existing session is shown as it is.
StartLookup(w) ==
  /\ Serves(w, "called", {"start"})
  /\ \/ store # NoSession /\ AnswerView(w)
     \/ store = NoSession /\ Admit(w) /\ UNCHANGED seen
  /\ UNCHANGED <<store, caches, ctxCached, budget>>

\* start, second half: invoke(initial_state).  If the thread has come to life
\* since the lookup, every channel but the accumulating one is overwritten.
StartInvoke(w) ==
  /\ Serves(w, "admitted", {"start"})
  /\ Invoke(w, [st |-> [InitialState EXCEPT !.messages = Transcript],
                next |-> "await_input"], FALSE)
  /\ UNCHANGED <<thread, caches, ctxCached, budget>>

\* event, first half: the phase is checked on a snapshot.
EventAdmit(w) ==
  /\ Serves(w, "called", EventTypes)
  /\ LET code == IF store = NoSession THEN 404 ELSE ValidateEvent(store.st, req[w])
     IN  IF code = 200 THEN Admit(w) ELSE Answer(w, code)
  /\ UNCHANGED <<thread, caches, ctxCached, budget>>

\* Mutant: an invoke always starts at await_input, also after a failed turn.
EventInvokeFromInput(w) ==
  /\ Serves(w, "admitted", EventTypes)
  /\ \/ /\ store # NoSession
        /\ Invoke(w, [store EXCEPT !.next = "await_input"], TRUE)
     \/ store = NoSession /\ Answer(w, 500)
  /\ UNCHANGED <<thread, caches, ctxCached, budget>>

\* event, second half: invoke(Command(resume)) loads the newest checkpoint,
\* which need not be the one just validated.  With the thread deleted in
\* between there is nothing to resume and the invoke raises.
EventInvoke(w) ==
  /\ Serves(w, "admitted", EventTypes)
  /\ \/ store # NoSession /\ Invoke(w, store, TRUE)
     \/ store = NoSession /\ Answer(w, 500)
  /\ UNCHANGED <<thread, caches, ctxCached, budget>>

\* reset: delete_thread; a turn in progress elsewhere is not told.
Reset(w) ==
  /\ Serves(w, "called", {"reset"})
  /\ store' = NoSession
  /\ seen' = << >>
  /\ Answer(w, 200)
  /\ UNCHANGED <<caches, ctxCached, budget>>

-----------------------------------------------------------------------------
(* Supersteps: one node each, on the worker's own copy *)

At(w, node) == pc[w] = "running" /\ run[w].next = node

Advance(w, state, next) ==
  /\ run' = [run EXCEPT ![w] = [st |-> state, next |-> next]]
  /\ dirty' = [dirty EXCEPT ![w] = TRUE]
  /\ resume' = [resume EXCEPT ![w] = FALSE]
  /\ UNCHANGED <<thread, request, budget>>

\* Mutant: the test for an existing row is the wrong way round.
PutIfPresent(table, key, value) ==
  IF table[key] # None THEN [table EXCEPT ![key] = value] ELSE table

\* INSERT ... ON CONFLICT DO NOTHING; a failed write is logged and ignored.
PutIfAbsent(table, key, value) ==
  IF table[key] = None THEN [table EXCEPT ![key] = value] ELSE table

AfterPut(table, key, value) ==
  {PutIfAbsent(table, key, value)} \cup (IF CacheMayFail THEN {table} ELSE {})

\* A lookup misses when there is no row, or when the read failed.
MayMiss(table, key) == CacheMayFail \/ table[key] = None

AwaitInputNode(w) ==
  /\ At(w, "await_input")
  /\ resume[w]
  /\ Advance(w, AwaitInput(run[w].st, req[w]),
                RouteAfterInput(req[w].type, run[w].st.phase))
  /\ UNCHANGED <<caches, ctxCached>>

EvaluateLogicNode(w) ==
  LET s == run[w].st
      judge(verdict) == Advance(w, EvaluateLogic(s, verdict), RouteAfterEval(verdict))
  IN  /\ At(w, "evaluate_logic")
      /\ ctxCached' = TRUE
      /\ \/ /\ verdictCache[s.user_logic] # None
            /\ judge(verdictCache[s.user_logic])
            /\ UNCHANGED verdictCache
         \/ /\ MayMiss(verdictCache, s.user_logic)
            /\ \E e \in Evaluations :
                 /\ judge(ApplyFlaggedRule(e))
                 /\ verdictCache' \in AfterPut(verdictCache, s.user_logic, ApplyFlaggedRule(e))
      /\ UNCHANGED summaryCache

\* What is accepted is the summariser's wording, whatever the model makes of the
\* student's.  It never fails: without a summary the student's own words do.
SummarizeLogicNode(w) ==
  LET s == run[w].st
      key == s.user_logic
      accept(summary) == Advance(w, SummarizeLogic(s, summary), "await_input")
      written(text) == [final |-> text, earlier |-> EarlierAttempts(s)]
  IN  /\ At(w, "summarize_logic")
      /\ ctxCached' \in {ctxCached, TRUE}
      /\ \/ /\ summaryCache[key] # None
            /\ accept(summaryCache[key])
            /\ UNCHANGED summaryCache
         \/ /\ MayMiss(summaryCache, key)
            /\ \E text \in Texts :
                 /\ accept(written(text))
                 /\ summaryCache' \in AfterPut(summaryCache, key, written(text))
         \/ /\ MayMiss(summaryCache, key)
            /\ accept([final |-> key, earlier |-> {}])
            /\ UNCHANGED summaryCache
      /\ UNCHANGED verdictCache

LogicTutorNode(w) ==
  /\ At(w, "logic_tutor")
  /\ \E draft \in Drafts : Advance(w, LogicTutor(run[w].st, draft), "verify_logic")
  /\ ctxCached' = TRUE
  /\ UNCHANGED caches

VerifyLogicNode(w) ==
  LET s == VerifyLogic(run[w].st)
  IN  /\ At(w, "verify_logic")
      /\ Advance(w, s, RouteAfterVerifyLogic(s))
      /\ ctxCached' = TRUE
      /\ UNCHANGED caches

ExecuteCodeNode(w) ==
  /\ At(w, "execute_code")
  /\ \E bucket \in SandboxBuckets :
       Advance(w, ExecuteCode(run[w].st, bucket), RouteAfterExecute(bucket))
  /\ UNCHANGED <<caches, ctxCached>>

CodeTutorNode(w) ==
  /\ At(w, "code_tutor")
  /\ \E draft \in Drafts : Advance(w, CodeTutor(run[w].st, draft), "verify_code")
  /\ ctxCached' = TRUE
  /\ UNCHANGED caches

VerifyCodeNode(w) ==
  LET s == VerifyCode(run[w].st)
  IN  /\ At(w, "verify_code")
      /\ Advance(w, s, RouteAfterVerifyCode(s))
      /\ ctxCached' = TRUE
      /\ UNCHANGED caches

FinishNode(w) ==
  /\ At(w, "finish")
  /\ Advance(w, Finish(run[w].st), "END")
  /\ UNCHANGED <<caches, ctxCached>>

\* The nodes that ask the domain service for the problem, and those that ask
\* the language model and let its error escape.
LlmNodes     == {"evaluate_logic", "logic_tutor", "code_tutor"}
ContextNodes == LlmNodes \cup {"verify_logic", "verify_code"}

\* evaluate_logic does not ask the model when it finds a verdict.
AsksModel(w) ==
  /\ run[w].next \in LlmNodes
  /\ run[w].next = "evaluate_logic" => MayMiss(verdictCache, run[w].st.user_logic)

\* A node raises: the invoke fails once the checkpoints before it are written
\* and the endpoint answers 500.  A problem already cached cannot fail.
NodeFails(w) ==
  /\ pc[w] = "running"
  /\ ~dirty[w]
  /\ \/ run[w].next \in ContextNodes /\ ~ctxCached /\ UNCHANGED ctxCached
     \/ AsksModel(w) /\ ctxCached' = TRUE
  /\ Answer(w, 500)
  /\ UNCHANGED <<thread, caches, budget>>

Save(w) ==
  /\ pc[w] = "running"
  /\ dirty[w]
  /\ store' = run[w]
  /\ dirty' = [dirty EXCEPT ![w] = FALSE]
  /\ UNCHANGED <<seen, caches, ctxCached, run, resume, request, budget>>

\* The graph has nothing left to run: it is finished, or interrupted.
TurnOver(w) ==
  /\ pc[w] = "running"
  /\ run[w].next = "END" \/ (run[w].next = "await_input" /\ ~resume[w])

Respond(w) ==
  /\ TurnOver(w)
  /\ ~dirty[w]
  /\ AnswerView(w)
  /\ UNCHANGED <<store, caches, ctxCached, budget>>

\* Mutant: checkpoints are kept in the memory of the process.
CrashForgets ==
  /\ crashes > 0
  /\ crashes' = crashes - 1
  /\ store' = NoSession
  /\ pc' = [w \in Workers |-> "idle"]
  /\ run' = [w \in Workers |-> NoSession]
  /\ resume' = [w \in Workers |-> FALSE]
  /\ dirty' = [w \in Workers |-> FALSE]
  /\ ctxCached' = FALSE
  /\ UNCHANGED <<seen, caches, req, reply, calls>>

\* The process dies and is started again: requests and memory are gone.
Crash ==
  /\ crashes > 0
  /\ crashes' = crashes - 1
  /\ pc' = [w \in Workers |-> "idle"]
  /\ run' = [w \in Workers |-> NoSession]
  /\ resume' = [w \in Workers |-> FALSE]
  /\ dirty' = [w \in Workers |-> FALSE]
  /\ ctxCached' = FALSE
  /\ UNCHANGED <<thread, caches, req, reply, calls>>

-----------------------------------------------------------------------------
RunNode(w) ==
  \/ AwaitInputNode(w)
  \/ EvaluateLogicNode(w)
  \/ SummarizeLogicNode(w)
  \/ LogicTutorNode(w)
  \/ VerifyLogicNode(w)
  \/ ExecuteCodeNode(w)
  \/ CodeTutorNode(w)
  \/ VerifyCodeNode(w)
  \/ FinishNode(w)

\* Everything a worker does for the request it has taken.
Serve(w) ==
  \/ StartLookup(w)
  \/ StartInvoke(w)
  \/ EventAdmit(w)
  \/ EventInvoke(w)
  \/ Reset(w)
  \/ RunNode(w)
  \/ NodeFails(w)
  \/ Save(w)
  \/ Respond(w)

Next ==
  \/ \E w \in Workers : Serve(w) \/ \E r \in Requests : Call(w, r)
  \/ Crash

Spec == Init /\ [][Next]_vars

\* A taken request is served: the thread pool keeps running it, and every call
\* a node makes has a timeout (90 s for the model, 20 s and 180 s for the
\* domain service).  Nobody promises that a request ever arrives.
FairSpec == Spec /\ \A w \in Workers : WF_vars(Serve(w))

-----------------------------------------------------------------------------
(* What holds however requests interleave *)

\* The checkpoints that exist: the stored one and those turns work on.
Live == ({store} \cup {run[w] : w \in Workers}) \ {NoSession}

\* The editor is unlocked exactly by an accepted description: no checkpoint is
\* past LOGIC without a passing verdict, a summary and an accepted text, and
\* none holds an accepted text while still in LOGIC (summarize_logic is the
\* only node that writes phase CODE).
EditorGate ==
  \A c \in Live :
    /\ c.st.phase # "LOGIC" <=> c.st.accepted_logic # None
    /\ c.st.phase # "LOGIC" => c.st.last_eval \in Passing /\ c.st.logic_summary # None

\* A session is finished only by code that passed every test: the run on
\* record is ACCEPTED, it was counted, and the graph has ended.
SuccessGate ==
  \A c \in Live :
    c.st.phase = "DONE" =>
      c.st.last_execution = "ACCEPTED" /\ c.st.attempts.code > 0 /\ c.next = "END"

IsStudent(m, kind) == m.role = "student" /\ m.kind = kind
IsResult(m)        == m.role = "system" /\ m.kind = "result"
IsHint(m)          == m.role = "tutor"

\* The editor was unlocked before the i-th message.
UnlockedBefore(log, i) == \E j \in 1 .. i - 1 : log[j] = UNLOCK_MESSAGE

\* What a transcript that bears the gates out looks like.
LawfulTranscript(log) ==
  \A i \in DOMAIN log :
    /\ log[i] = UNLOCK_MESSAGE => i > 1 /\ IsStudent(log[i - 1], "logic")
    /\ IsResult(log[i]) => UnlockedBefore(log, i)
    /\ log[i] = SUCCESS_MESSAGE => i > 1 /\ log[i - 1] = ResultMessage("ACCEPTED")

\* The transcript itself bears the gates out: the unlock notice answers a
\* logic submission, test results come after an unlock, and the success notice
\* directly follows an ACCEPTED result.
GatesInTranscript == \A c \in Live : LawfulTranscript(c.st.messages)

\* What a tutor may say: what its verifier passed, or its canned reply.
LogicSpeech == (Drafts \ LogicLeaks) \cup {LogicFallback}
CodeSpeech  == (Drafts \ CodeLeaks) \cup {CodeFallback}

\* The weaker rules of the CODE phase are for a student who may see code.
VerifiedSpeech(log) ==
  \A i \in DOMAIN log :
    IsHint(log[i]) => \/ log[i].text \in LogicSpeech
                      \/ log[i].text \in CodeSpeech /\ UnlockedBefore(log, i)

\* The editor was unlocked (again) after the i-th message.
UnlockedAfter(log, i) == \E j \in DOMAIN log : j > i /\ log[j] = UNLOCK_MESSAGE

\* What was said since the last unlock was said by the tutor of the CODE phase.
CodeSpeechSinceUnlock(log) ==
  \A i \in DOMAIN log :
    IsHint(log[i]) => log[i].text \in CodeSpeech \/ UnlockedAfter(log, i)

\* "Unverified text is never delivered" (verify_logic's docstring), and
\* verified means by the verifier of the phase: before the unlock nothing
\* the LOGIC verifier would reject, and in a session past LOGIC, since the unlock
\* that brought it there, nothing the CODE verifier would reject.  Only a start
\* that finds the session come to life puts it back into LOGIC with its
\* transcript, and what follows that unlock may be either's.  It holds of every
\* transcript, also when a crash or a failure made the graph run a tutor or a
\* verifier node again, and when two turns write over each other.
OnlyVerifiedTextDelivered ==
  \A c \in Live :
    /\ VerifiedSpeech(c.st.messages)
    /\ c.st.phase # "LOGIC" => CodeSpeechSinceUnlock(c.st.messages)

\* The verification loop keeps its books: the canned reply is used exactly when
\* one rejection more than MAX_REGENERATIONS was counted in this turn, and a
\* draft never outlives the tutor and verifier nodes of its turn.
RegenerationLedger ==
  \A c \in Live :
    /\ c.st.regenerations <= MaxRegenerations + 1
    /\ c.st.fallback_used <=> c.st.regenerations = MaxRegenerations + 1
    /\ c.st.draft # None =>
         c.next \in {"logic_tutor", "verify_logic", "code_tutor", "verify_code"}

-----------------------------------------------------------------------------
(* What holds while requests for a thread come one at a time *)

\* The pane the UI shows fits the phase.
StatusMatchesPhase ==
  \A c \in Live :
    /\ c.st.phase = "LOGIC" => c.st.status \in {"LOGIC_WRITE", "LOGIC_CHAT"}
    /\ c.st.phase = "CODE"  => c.st.status \in {"CODE_WRITE", "CODE_CHAT"}
    /\ c.st.phase = "DONE"  => c.st.status = "SUCCESS"

\* Between two student messages there is always an answer, and a session that
\* waits for input (or is finished) has answered the last one: a turn that
\* failed or was cut off by a restart is completed before a new message is
\* taken in.
EveryTurnAnswered ==
  \A c \in Live :
    LET log == c.st.messages
    IN  /\ \A i \in 1 .. Len(log) - 1 :
             ~(log[i].role = "student" /\ log[i + 1].role = "student")
        /\ c.next \in {"await_input", "END"} /\ log # << >> => Last(log).role # "student"

CountMessages(log, Test(_)) == Cardinality({i \in DOMAIN log : Test(log[i])})

\* The attempt counters say what the transcript says, also over failures,
\* retries and restarts: every logic submission is one attempt once evaluated,
\* every test result is one code attempt and an infrastructure failure none.
AttemptsMatchTranscript ==
  \A c \in Live :
    LET log == c.st.messages
        waiting(node) == IF c.next = node THEN 1 ELSE 0
    IN  /\ c.st.attempts.logic + waiting("evaluate_logic") =
             CountMessages(log, LAMBDA m : IsStudent(m, "logic"))
        /\ c.st.attempts.code = CountMessages(log, IsResult)
        /\ CountMessages(log, LAMBDA m : IsStudent(m, "code")) =
             c.st.attempts.code + waiting("execute_code")
               + CountMessages(log, LAMBDA m : m = INFRA_MESSAGE)

\* With a cache that works, a text has one verdict for good: what a session
\* was told about its current submission is what the cache tells the next
\* session, although the model may answer differently each time it is asked
\* and a restart may come between the cache write and the checkpoint.
OneVerdictPerText ==
  \A c \in Live :
    c.st.last_eval # None /\ c.next # "evaluate_logic" =>
      verdictCache[c.st.user_logic] = c.st.last_eval

\* What a view has shown is still there, at every later moment of the session
\* and after any restart.
ShownTranscriptSurvives == IsPrefix(seen, Transcript)

\* The abstract session every client may rely on, read off the stored
\* checkpoint.
Promise == INSTANCE LearningSession WITH
  Unlocked   <- UNLOCK_MESSAGE,
  Accepted   <- ResultMessage("ACCEPTED"),
  Finished   <- SUCCESS_MESSAGE,
  phase      <- IF store = NoSession THEN "none" ELSE store.st.phase,
  transcript <- Transcript

KeepsPromise == Promise!Spec

\* Every request is answered or ends with the process: no turn can go on for
\* ever, the verification loop included.
EveryRequestAnswered == \A w \in Workers : pc[w] # "idle" ~> pc[w] = "idle"

-----------------------------------------------------------------------------
(* What the repository says of the program and the code does not keep *)

\* "Every student action is a resume of the interrupt in await_input"
\* (graph.py): the view that answers an event shows that event as the last
\* thing the student did.
EveryActionIsTaken ==
  [][\A w \in Workers :
       /\ Serves(w, "running", EventTypes)
       /\ pc'[w] = "idle" /\ reply'[w] = 200
       /\ store # NoSession
       => LET mine == SelectSeq(store.st.messages, LAMBDA m : m.role = "student")
          IN  mine # << >> /\ Last(mine) = Message("student", req[w].type, req[w].text)]_vars

\* "session is gone after reset" (verify_api.sh): a deleted thread has a
\* checkpoint again only because a start request wrote one.
ResetIsFinal ==
  [][store = NoSession /\ store' # NoSession =>
       \E w \in Workers : dirty[w] /\ req[w].type = "start"]_vars
=============================================================================
