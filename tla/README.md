# Logi Stream in TLA+

Logi Stream is a tutor: a student first explains an algorithm in words, an evaluator accepts or
rejects the explanation, only then the code editor is unlocked, and the code is run against hidden
tests. This directory holds TLA+ modules of the parts that decide those things, the TLC runs that
check them on small instances, and TLAPS proofs for every value of the constants.

## Inventory

| Component | Code | State it keeps | Operations | Hard because |
|---|---|---|---|---|
| Session graph | `orchestrator/app/graph.py`, `state.py`, `nodes/` | the session state of one thread (phase, status, transcript, attempts, pending draft, ...) | nine nodes, six routing functions | a verification loop, counters, gates that must hold on every path |
| Orchestrator API | `orchestrator/app/main.py` | none of its own | `start`, `event`, `reset`, view | endpoints run on a thread pool, nothing serialises two requests for one session; every check is made on a snapshot |
| Checkpointer | `orchestrator/app/checkpointer.py` (LangGraph's Postgres saver) | one checkpoint per superstep | load, put, delete | crashes between supersteps, turns that fail half-way, background writes |
| Caches | `cache.py`, `domain_client.py` | verdicts and summaries in Postgres, the problem in memory | get, put | shared by all sessions, outlive resets, may fail |
| Verifier | `verifier.py`, the `verify_*` nodes | none | accept or reject a draft | text rules, a scan over lines; the loop around them |
| Redaction and view | `redact.py`, `view.py` | none | strip_for_view, summarize_for_tutor | two ways out for the data of hidden tests |
| Language model | `llm.py` | none | complete, complete_json | any answer, any failure, one repair retry |
| Execution service | `domain/.../exec/ExecutionService.java`, `web/InternalController.java` | none between requests | execute | partial results, one retry, failing calls, a caller that stops waiting |
| Bucket table | `exec/BucketMapper.java` | none | bucketOf | overlapping rows whose order matters |
| Judge0 client | `judge0/Judge0Client.java` | none | submit, poll | a bounded number of billed polls |
| Local sandbox | `exec/LocalPythonSandbox.java` | a child process, two pipes out, one in | runOne | three threads and a process around bounded pipes, a deadline, a kill |
| Gateway | `gateway/src/main.rs` | none | proxy | its 120 s timeout against longer turns, bodies that break off |
| Web client | `web/app/page.tsx`, `web/lib/api.ts`, `web/components/` | busy flag, last view, error bar, chat panel, count of tutor messages | load, send, reset, reload | works on a view that may be behind; a reset is two calls; a reload leaves calls behind |
| Authentication mock-up | `auth_mockup/src/main.rs` | pending login states | login, callback | expiry, single use |
| Problem catalogue, configuration, prompts, scripts | the rest | seeded tables | read | no behaviour over time |

How they interact: the web client calls the gateway, which forwards to the orchestrator under a
thread id derived from user and problem. The orchestrator runs one turn of the graph per request;
nodes read and write the caches, ask the language model, and call the execution service, which uses
one of its two sandboxes. The session lives only in its checkpoints.

What makes each part correct: nobody gets past LOGIC without a passing verdict, nor to DONE without
code that passed every test; the tutor never says what the verifier of the phase would reject; every
message is answered and nothing shown is taken back; attempts are counted once and never for a
failure of ours; hidden test data reaches neither the page nor the tutor; an evaluation is by the
rubric of this process and stored under its version, and a verdict that was served stands; the page
never waits for two calls and is behind only after an answer that was missed or not settled; a run has
the verdict of its worst test; a test run ends, its result comes last and has the output up to the
limit; a login state works once and only while it lives.

## Modules

| Module | What it is |
|---|---|
| `SessionGraph` | the state of `state.py` and, as pure operators, what each node writes and which node is next |
| `Orchestrator` | requests, turns, checkpoints, caches and restarts over `SessionGraph` |
| `LearningSession` | the abstract session a client may rely on; `Orchestrator` implements it |
| `OrchestratorProofs` | its theorems for any interleaving |
| `SessionProofs` | theorems about a session whose requests do not overlap, the refinement of `LearningSession`, and the length of a turn |
| `MCOrchestrator` + 5 cfgs | constants for TLC |
| `WebClient` + cfg | the page, and the ways a call through the gateway can end for it |
| `WebClientProofs` | its theorems |
| `TutorTurn` | one tutor turn with its text: redaction, rules, the scan for code, regenerations |
| `TutorPromise` | the abstract turn a student is promised; `TutorTurn` implements it |
| `TutorTurnProofs`, `MCTutorTurn` + cfg | theorems, constants |
| `Evaluation` | several workers evaluating: context cache, stored verdicts, model, a rubric that changes |
| `EvaluationProofs`, `MCEvaluation` + cfg | theorems, constants |
| `AuthMockup` | the login states of the OAuth mock-up |
| `LoginPromise` | the abstract life of a state; `AuthMockup` implements it |
| `AuthMockupProofs`, `MCAuthMockup` + cfg | theorems, constants |
| `BucketMapper` | the bucket table, and the reference it is checked against |
| `Execution` | one execute request, from the orchestrator's client to Judge0 |
| `ExecutionProofs`, `MCExecution` + cfg | theorems, constants |
| `LocalSandbox` + 2 cfgs | one test run of the local sandbox |
| `LocalSandboxProofs` | its theorems |

Definitions named `...Lenient`, `...Uncounted` and so on, under a comment that begins "Mutant:", are
the same operation with a plausible bug. No specification uses them; for each property there is at least one
that breaks it, so that every property is known to say something about the code.

### Orchestrator

`store` is the newest checkpoint of one thread: the session state and the node that is next
(`NoSession` for a deleted or unused thread). A worker is a request slot; its request goes from
`called` over `admitted` (the check is passed, the invoke not yet begun) to `running` (an invoke is
in progress on the worker's own copy, `run`) and ends with a status in `reply`. Two variables are
history: `seen` is the transcript last shown in a view, `reply` the last status.

| Code | Action |
|---|---|
| `start`, lookup and invoke | `StartLookup`, `StartInvoke` |
| `event`, validation and invoke | `EventAdmit`, `EventInvoke` |
| `reset` | `Reset` |
| a node, with its conditional edge | `AwaitInputNode` ... `FinishNode` (one superstep each) |
| the background write of a checkpoint | `Save` |
| a node that raises, answered 500 by `unhandled` | `NodeFails` |
| the end of invoke and the view | `Respond` |
| death and restart of the process | `Crash` |

LangGraph is not in the repository. It is modelled from how `main.py` uses it: an invoke loads the
newest checkpoint once; one checkpoint is written per superstep, in order, possibly late; a node that
raises leaves the checkpoint before it, and the next invoke starts at that node; a resume value
serves the first superstep only. Two abstractions: an invoke that finds its thread deleted is a 500
without a write, and a deleted thread that a turn writes to again is taken to have the turn's whole
state. `GET` of a session only reads and is no action.

Data: texts are taken up to the normalisation of `cache.py`; a draft is a member of `Drafts`, and
each verifier is the set of drafts it rejects (`LogicLeaks`, `CodeLeaks`): neither set contains the
other in the code, and neither does in the runs. A summary is a final wording, which is whatever
text the model writes (`summarize_logic.py:72-74`) or the student's own when it fails, and the set of earlier
attempts it was written from.
The rubric version is fixed here (`Evaluation` changes it). `SandboxBuckets` in the runs is three of the six buckets: the other
three are routed and counted exactly like `WRONG_ANSWER`. The theorems have all six.

### TutorTurn

`Orchestrator` knows drafts as members of two sets of leaking ones. `TutorTurn` opens them: a text is
the sequence of the kinds of its lines, a kind being what the regular expressions of `verifier.py` tell
apart, with its number of words and the test data it quotes. The head of the module lists the kinds.

| Code | Definition |
|---|---|
| `logic_tutor`, `code_tutor` | `Tutor`, `TutorFails`; `Prompt` is the test data the model gets |
| `redact.strip_for_view`, `summarize_for_tutor` | `StripForView`, `SummarizeForTutor`, sets of data <<test, field>> |
| `verify_logic_draft`, `verify_code_draft` | `LogicRejects`, `CodeRejects` |
| `_longest_code_run`, one line per step | `ScanLine`, with `Fence` and `Counted` |
| `verify_logic`, `verify_code` | `VerifyLogic`, `VerifyCode`, by `Reject` or `Deliver` |

The reference for the scan (`Inside`, `Breaks`, `IsCode`, `IsLongest`) counts fences and code over
stretches of lines, without a scan. The model can quote only what its prompt holds; that is the point
of the redaction, and the only thing assumed of it. A line has one kind: a forbidden term inside a
fence, say, is a matter of the fence. White space in the patterns is taken to stay on its line. A
failing context look-up in the verify nodes is `Orchestrator`'s. Excerpts of the student's own error
text are kept for hidden tests too, by design (`redact.py:50-51`), so `stderr` is not hidden data.

### Evaluation

Workers go through `evaluate_logic` one by one: context (`CachedContext`, or `FetchContext` and
`StoreContext` with others in between), look-up (`CacheHit`, `CacheMiss`), model (`ModelAnswers`,
`ModelFails`) and insert (`Put`). `Reseed` is somebody replacing the rubric and raising its version, as
the key of `cache_key` expects; a rubric changed under its old version is told apart by nothing in
the code. `Restart` is the only thing that empties the context cache, and the table outlives it. An answer of the model is a
shape `extract_json` tells apart, and a reply when there is one. `rubric` in an evaluation, `boot` and
`hits` (what was answered from each row) are history.

### AuthMockup

`pending` is the map of `AppState`. `Check` is the block under the lock; `Exchange` and `UserInfo` are
the two awaited calls, which other callbacks, logins and time come between. The provider is arbitrary:
a callback may bring any state any number of times. Time is a counter and a login happens at one tick.

### WebClient

The state of the page is that of `page.tsx`: `view`, `busy`, `error`, `chatOpen`, `lastTutorCount`.
`calls` holds what is under way behind it, waited for or not, with the answer once it was given: the
view is read by `Respond`, when the work is over, and shown by `ReceiveView` at any time after that,
unchanged, however much other calls have written in between (the load holds it until the problem has
arrived too, `page.tsx:60-66`). Two things are history: an answer is `settled` when no other call could write
any more at the moment it was given, and `missed` is up while the page has no settled answer to show.

| Code | Action |
|---|---|
| `send`, and the controls that call it | `Send` (guarded by `Offers`) |
| `onReset`, first and second call | `OnReset`, `ReceiveReset` |
| the load effect, on first opening and again after a reload | `Init`, `Reload` |
| the answer: `setView` and the effect on it | `ReceiveView` (by `Show` and `Display`) |
| the answer: `ApiError`, `fail` | `ReceiveError` |
| the other half of the load's `Promise.all` fails | `ProblemFails` |
| the chat's buttons, the error bar's | `OpenOrCloseChat`, `Dismiss` |
| gateway: 504 after 120 s, 502, a body that cannot be read | `TimeOut`, `Disconnects` and `Breaks`, `ReceiveEmpty` |
| the orchestrator, and its `_view` | `Start`, `Reset`, `Event`, `Turn`, `TurnFails`, `Respond` |

The orchestrator is `Orchestrator` in short, since the page tells apart only the phase and the roles
of the messages: an event is checked and loads the session in one step (the gap between the two is
what `Orchestrator` is for), a turn takes its message in, computes and writes on its own copy, and a
turn that failed or was cut off leaves its end to the next event. Nothing of it orders two calls for
one session. The page and its student are one, so the thread
id the gateway derives is one; a second tab is a call the page does not wait for. Texts are never
empty, as the controls see to.

### Execution and BucketMapper

A result is its status id, whether its error text names a syntax error, and whether its output
matches. The service keeps nothing between requests, so a behaviour is one request. Judge0 is
external: a poll returns any results it may give, in the order of submission, or one too few; a test
that has finished stays as it is. `billed` counts requests to Judge0 (the code only logs them).
`GiveUp` is the client's 180 s timeout: the service goes on. The poll's sleep, trace headers and the
log are left out. `OutputMatched` carries what `execute` computes when it pairs results with tests.

### LocalSandbox

One call of `runOne`, the interpreter, the two readers, and pipes that hold `PipeCapacity` chunks.
The program is arbitrary: it reads, writes, forks, exits or loops. Time is not measured; the deadline
may pass at any moment of `waitFor`, and not before it. What the program leaves behind is attached to
its pipes, and keeps them open, or detached from them; `descendants()` finds a process only while its
parent lives, and only if it was there when the list was made. `destroyForcibly` makes the child
`dying`: it writes no more, but may not have ended when `Reap` gives the result, since nobody looks at what the
5 s of waiting came to. A result keeps `MaxCaptured` chunks of a stream and says whether it cut it; a reader
may fail at any time (`ReaderFails`), and then has nothing. Left out: the deletion of the temporary
directory, which is best effort in the code, and other runs: the readers take their threads from the
common pool of the process, which is taken to have one free.

## Runs

| Run | Expected | Question |
|---|---|---|
| `single` | pass | With one request at a time, does the store implement `LearningSession`, is every message answered, do counters, pane and cache agree with the transcript, over failures and a restart? |
| `concurrent` | pass | With two requests for one session at a time, do the gates, the verifier and the regeneration ledger hold in every checkpoint? |
| `live` | pass | Is every request answered, with the production bound of two regenerations and caches that fail? |
| `execution` | pass | Is the verdict that of the worst test, only judged runs counted, the quota kept, and does every run end that the local sandbox does not hold up? |
| `sandbox` | pass | Does a verdict belong to the program, with its output up to the limit; does the result come last; do pipes drain and small runs end? |
| `page` | pass | Does the page wait for one call at a time, show what is stored after an answer that was settled, meet conflicts only without one, and never stay busy for good? |
| `tutor` | pass | Does the scan find the longest run of code, does hidden data stay hidden, and does a turn say one text that is fit or canned? |
| `evaluation` | pass | Around reseeds, restarts and failures: is an answer judged by a rubric of this process, does a verdict that was answered from the table stand, and does every evaluation end? |
| `auth` | pass | Is a login state accepted once and only while it lives, and is the map swept? |
| `dropped` | violation | Is every event answered with 200 one that was taken in? |
| `reset` | violation | Is a session gone after reset? |
| `hang` | violation | Is the wall-clock timeout of the local sandbox hard? |

Each violation is a sentence of the repository that the code does not keep; PROJECT.json quotes it.
In short: after a failed turn the next event completes that turn and is itself lost; a reset does not
stop a turn, which then writes the session back; a program that does not read its input blocks the
sandbox before its deadline starts.

More of the kind was met while modelling and has no run of its own:

- Two events checked against one snapshot: the first finishes the phase, the second is then
  unroutable and leaves a status of the old phase, where `await_input.py:78-80` says that it "cannot
  corrupt the session" (`StatusMatchesPhase` holds for one worker only, and is checked there).
- A summary is served to another student's session with the earlier attempts it was written from,
  where `summarize_logic.py:39` says it "depends only on the accepted text".
- A timed-out run gives its result while a process of the tree may be alive: one started after the
  descendants were listed, one whose parent had ended before, or the interpreter itself if the 5 s were not
  enough, where `LocalPythonSandbox.java:35` says `destroyForcibly` "on the whole tree". An interrupted run
  leaves all of it (line 132). `ResultComesLast` says no more than the code does.
- "Captured output is truncated, so a print-loop cannot exhaust memory" (`LocalPythonSandbox.java:38`):
  `readAllBytes` (line 185) holds everything before `truncate` sees it.
- A reader that fails gives "" (`LocalPythonSandbox.java:186-187`), and the test is judged on that.
- After a reload the page may show a view that is behind without having missed an answer: the load's
  answer was fixed while the turn of the page before still wrote. Nothing tells the page, and its next
  submission may be a 409; with `settled` left out of them `IdlePageIsCurrent` and
  `ConflictOnlyWhenBehind` do not hold.
- Two starts that both find no session: the second puts the session back into LOGIC with its
  transcript (`main.py:110-120`), hints of the CODE phase included.
- A body that breaks off in the gateway becomes an empty success (`main.rs:251`), where `main.rs:220`
  says responses are passed back unchanged; the page then shows no session and no error.
- The infra retry doubles the worst case of 16 requests that `judge0/HOSTED.md:80` gives
  (`QuotaKept` has the factor two).
- A reset whose second call fails leaves the old session's tutor messages counted, so that the chat
  may stay closed for the first messages of the new one.
- `verifier.py:24-25` calls "for each number:" fine prose; `CODE_LINE_RE` rejects it.
- `verify_logic_draft` is to let no code through (`verifier.py:142-144`); an element assignment such as
  `seen[x] = i` is code to the code verifier (line 134) and prose to this one: `FitInLogic` has `index`.
- A blank line outside a fence ends a run of code (`verifier.py:117-118`): a function written with
  blank lines in between passes the length limit. `Breaks` says the same, so `ScanIsExact` holds.
- `redact.py:7-8` gives a hidden test's row "label + pass/fail + status and nothing else"; it also has
  the index, the time and the excerpt of the error text.
- `get_problem_context` says to call `clear_cache()` after a reseed (`domain_client.py:35`); nothing
  does. A slower fetch may also put an older rubric back (`domain_client.py:50-51`).

### Bounds

- `single`: two texts, so that a resubmission differs from the first and the cache can hit and miss;
  five requests (start, logic, code and two more: a repeat, a chat, a reset and a second session);
  one restart; one regeneration. Symmetry permutes the texts; its one temporal property is a step
  property without liveness.
- `concurrent`: two workers, four requests, one text, one restart. Every hazard of two requests on
  one thread needs a start and two overlapping events or a reset. Symmetry permutes the workers.
- `live`: two regenerations as in production, no symmetry.
- `execution`: two tests, since the table compares tests and a mixed pair is the hard case; three
  polls, so that a batch finishes at once, late, or never; one result for each row of the table and
  one no row lists. The theorems have any number of tests and polls and any status id.
- `page`: two slots, so that one call can outlive the page's interest while another is waited for; three
  things the student does: enough for a submission, a reset or reload in the middle of it, and one more
  on the view that comes of it. The theorems have any number of both.
- `tutor`: texts of up to six lines over the five kinds the scan tells apart (more than the three lines
  allowed, in and out of a fence, with an interruption), two lines over all nine kinds, word counts at
  both limits and one above, production's two regenerations. A rejected draft is forgotten: the next may
  be any, whatever the model was told about the last. The theorems have texts of any length.
- `evaluation`: two workers and two texts, so that look-ups hit and miss and fetches overlap; two
  versions, so that one can be stale; three evaluations, the third of which meets what two left.
- `auth`: two states, three callbacks, so that two can bring one state beside a third, a life of two ticks and
  four ticks in all, so that a state can expire before, between and after two logins.
- `sandbox`: pipes of one chunk, input and output of up to two: more than a pipe holds, and more than
  the one chunk a result keeps.

`MaxCalls` and `MaxCrashes` bound the requests and restarts of a behaviour, `MaxStdin` and
`MaxOutput` a program's input and output, `MaxActions` what the student does at the page, `MaxLines` and
`ShortLines` the texts of `tutor`, `MaxVersion` and `MaxStarts` the rubrics and evaluations, `MaxTime`
the clock. Deadlock is not checked: clients and students may stop asking, and one run, test, turn or
login comes to an end.

### Fairness

- `Orchestrator`: weak fairness of `Serve(w)` for each worker. The thread pool keeps running a
  request, and each call a node makes has a timeout (90 s for the model, 20 s and 180 s for the
  domain service), after which the node fails or goes on. Nothing is assumed of clients or crashes.
- `Execution`: weak fairness of the service's own steps but `RunLocal`, and of the client reading a
  finished response. Each call to Judge0 has a timeout and the polls a bound; the local sandbox owes
  nothing, since `runOne` may block before its deadline starts or in its joins (`LocalSandbox`). An
  interrupt or a client that gives up is never owed.
- `WebClient`: weak fairness of the gateway's timeout alone. The http client ends every call after
  120 s (`main.rs:315`); of the orchestrator nothing is assumed.
- `Evaluation`: weak fairness of each worker's step. Each call it makes has a timeout: 20 s to the domain
  service (`domain_client.py:41`), `LLM_TIMEOUT_S` to the model (`llm.py:37`), 5 s to connect to the
  database. Nothing is assumed of the rubric's author, of restarts, or of what the model answers.
- `TutorTurn` and `AuthMockup` state no fairness: that turns end is checked in `Orchestrator`, and a
  login owes nothing.
- `LocalSandbox`: weak fairness of the service thread (the deadline included) and of each reader,
  none of the program. `SmallRunsEnd` names the two conditions under which a run ends: the input
  fits into a pipe, and no process that holds its output is left behind for good.

## Proofs

All are checked by TLAPS, for every value of the constants that satisfies the named assumptions
(`GraphAssumption`, `OrchestratorAssumption`, `ExecutionAssumption`, `SandboxAssumption`,
`ClientAssumption`, `TutorAssumption`, `EvaluationAssumption`, `AuthAssumption`: the kinds of the
constants, subset relations, and that `None`, `Blank`, `NoSession`, `Failure` and the canned texts are
not among what they stand beside).

**Orchestrator.** Proved: `TypeOK`, `EditorGate`, `SuccessGate`, `GatesInTranscript`,
`OnlyVerifiedTextDelivered`, `RegenerationLedger`. None is inductive by itself: a node's write is
right only if the state it was routed to with is. `Sound(c)` says of one checkpoint what its next
node may rely on (`NodeReady`: before `verify_logic` a draft is pending, before `finish` the run was
ACCEPTED; `Told`: before `summarize_logic` the last message is a logic submission, a session past
LOGIC has the unlock notice), together with the gates, the loop's books and the transcript. Each node
takes a sound checkpoint to a sound one (one lemma each), and `IInv` says that the store and every
worker hold only sound ones. Interleavings, crashes and lost updates then only decide which sound
checkpoint is where, which is why the theorems need no bound on workers. `OnlyVerifiedTextDelivered` binds each
phase to its own verifier: no hint before the unlock that the logic verifier rejects, and in a session
past LOGIC none since its last unlock that the code verifier rejects.

**One session.** (`SessionProofs`) Proved under `[]OneAtATime`, which says that at most one request for the
session is under way: `StatusMatchesPhase`, `EveryTurnAnswered`, `AttemptsMatchTranscript`,
`ShownTranscriptSurvives`, `OneVerdictPerText`, and that the store implements `LearningSession`
(`KeepsPromise`). `OneAtATime` is a hypothesis about clients, not about the code: nothing in the
orchestrator serialises requests. The page keeps to it as long as it gets its answers
(`WebClient!BusyWhileAwaiting`); a call left behind by a reload or by the gateway's timeout breaks it, and
then only the theorems of `OrchestratorProofs` apply. With one worker it holds by itself:
`OneWorkerSuffices` has no hypothesis on clients.

None of these is inductive: each relates a transcript to something that another node wrote earlier. A
checkpoint is `Orderly` when its pane fits, its messages alternate, it has answered if it waits, and
its counters are those of the transcript, one submission less while `evaluate_logic` or `execute_code` is
still to come. `TurnOf` says what a turn has made of the checkpoint it began with: more
conversation, an unlock, or a success, and nothing after one of the last two. `SInv` says that the
store is orderly and shows all that was seen, and that each turn is orderly and a `TurnOf` the store. Each
node keeps both. A turn cut off leaves an orderly checkpoint too, so restarts and failures need
no argument of their own. In the refinement every step but the write of a checkpoint and the reset
stutters; a write may show several supersteps at once, and `TurnOf` is what makes them one step of
the promise (`SaveKeepsPromise`).

`OneVerdict` also assumes `~CacheMayFail`: with a cache that fails the code makes no such promise.
`TurnsAreShort` has no hypothesis: however requests interleave, the supersteps a turn may still take are
bounded by `2 * MaxRegenerations + 4` (8 in production) and every node lowers them. This is the safety half of
`EveryRequestAnswered`; that a node which can run does run is the fairness TLC assumes.

**Execution.** `TableFindsWorst`: the cascade of `bucketOf` gives the bucket of a test than which none
is worse, for every batch. From the invariant of a run: `TypeOK`, `WorstWins`, `AcceptedMeansAllPassed`,
`OnlyJudgedRunsCount`, `QuotaKept`. The invariant ties what is billed to the batch and poll counters and
says of a response under which results it was made; the count of passed tests is related to the bucket
by the cardinality theorems. `RunsAreShort`: every step of the service lowers `StepsLeft`, which is at most
`2 * MaxPolls + 5` and 0 exactly when the request is answered, the safety half of `EveryRunEnds`. A step of the
local sandbox counts as one; that it is ever taken is not claimed.

**LocalSandbox.** `TypeOK`, `VerdictIsTheProgrammes`, `ResultComesLast`. The invariant is conservation:
what the program wrote is what is in the pipe and what the reader holds, unless the reader failed; a
reader that has ended left its pipe empty with nobody to fill it.

**WebClient.** `TypeOK`, `BusyWhileAwaiting`, `IdlePageIsCurrent`, `ConflictOnlyWhenBehind`. The invariant
is `TypeOK`, `Single` (two calls that are waited for are one, and there is one exactly while the page
is busy), `StaysSettled` (a settled answer the page still waits for is the stored session, and no other
call writes) and `Told`: when nothing was missed, the calls left behind write no more, and the page shows the stored
session until an event of its own was checked. `IdlePageIsCurrent` alone is not inductive: a call left
over from before could change the session under an idle page, or while the answer is on its way.

**TutorTurn.** `TypeOK`, `ScanIsExact`, `HiddenDataStays` and the refinement `KeepsTutorPromise`.
`ScanIsExact` speaks of `longest` alone and is not inductive; the loop invariant `Scanned` adds that a
fence is open exactly when an odd number of them was read, and that `run` is the most code in an
unbroken stretch that ends here (`IsRun`; the empty stretch counts). A line that breaks nothing adds
to every stretch that ends there (`RunGoesOn`), one that breaks leaves only the empty one
(`RunEnds`), and the longest is the old one or one that ends here (`LongestStep`); the counting is by
the cardinality theorems. In the refinement the tries are the rejected drafts and the one in hand;
the scan stutters, and `PassedIsFit` turns the rules into the reference.

**Evaluation.** `TypeOK`, `RubricOfThisProcess`, `StoredVerdictStands`. The invariant adds that the cached
context and what each worker took from it are no older than the process, and that what a worker is
about to store was judged by the version in its key. `boot` only moves with a restart, which takes
the context and every worker's version away. What was answered from a row is that row: only the first
insert makes one, whatever a second worker that had found none brings.

**AuthMockup.** `TypeOK`, `OnlyOneTtlKept` and the refinement `KeepsLoginPromise`. The invariant says that
a state in the map is in nobody's hand and has no profile, that one hand at most holds it, and none
once it has its profile; without it two callbacks with one state could both be accepted.

**Only model-checked.** The liveness properties: `EveryRequestAnswered`, `EveryRunEnds`, `FullPipesDrain`,
`SmallRunsEnd`, `BusyEnds`, `EveryEvaluationEnds`. They need fairness and `ENABLED`, which are outside the
prover. Every invariant and step property that a passing run checks is a theorem.

## Plan

Done: the session graph and the orchestrator, execution, sandbox, the page, the tutor turn, the
evaluation, the login, and the proofs above. Next, in order:

1. Bounds like `TurnsAreShort` and `RunsAreShort` for an evaluation and for the page, as the safety half of
   their liveness properties.
2. A composition of `Evaluation` with sessions: what a reseed means to a session that goes on.

Not modelled: the problem catalogue and its seed, configuration, prompts, tracing, the scripts of the
demo and of measurements (no behaviour over time, or wording only); the temporary directory of
the local sandbox; the headers and the thread id of the gateway.
