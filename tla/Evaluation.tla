----------------------------- MODULE Evaluation -----------------------------
(***************************************************************************)
(* The evaluation of a student's logic (nodes/evaluate_logic.py) by        *)
(* several workers of one orchestrator: the problem context with its       *)
(* rubric, cached by the process (app/domain_client.py), the table of      *)
(* stored verdicts, which outlives it (app/cache.py), and the language     *)
(* model, asked again once when its answer is not JSON (app/llm.py).  The  *)
(* rubric of the domain database can be replaced by a newer version while  *)
(* the orchestrator runs, and the orchestrator can be restarted.           *)
(***************************************************************************)
EXTENDS Naturals

CONSTANTS
  Workers,    \* threads that evaluate
  Texts,      \* normalised submissions to one problem
  Replies,    \* what the model may answer, when it answers with JSON
  MaxVersion, \* bound: versions of the rubric
  MaxStarts,  \* bound: evaluations begun
  None

\* confident: confidence >= FLAG_CONFIDENCE_THRESHOLD
EvaluatorOutput == [verdict : {"PASS", "FAIL"}, matched_approach : BOOLEAN,
                    violated_invariants : BOOLEAN, confident : BOOLEAN]

Versions    == 1 .. MaxVersion
\* An evaluation; rubric is history: the version in the prompt it answers.
Evaluations == [verdict : {"PASS", "FAIL", "FLAGGED"}, matched_approach : BOOLEAN,
                violated_invariants : BOOLEAN, confident : BOOLEAN, rubric : Versions]

ASSUME EvaluationAssumption ==
  /\ Replies \subseteq EvaluatorOutput
  /\ MaxVersion \in Nat \ {0} /\ MaxStarts \in Nat
  /\ None \notin Versions \cup Evaluations \cup Texts

VARIABLES
  rubric,   \* version in app.problems, of the domain database
  boot,     \* history: rubric when the orchestrator started
  context,  \* version in _context_cache, None while it is empty
  rows,     \* orch.verdict_cache, by text and version
  hits,     \* history: the evaluations answered from it, by text and version
  pc,       \* where each worker is
  text,     \* what it evaluates
  known,    \* the rubric_version of its ctx
  attempt,  \* 1 or 2 in complete_json
  result,   \* its evaluation
  starts    \* evaluations begun

job  == <<pc, text, known, attempt, result>>
vars == <<rubric, boot, context, rows, hits, job, starts>>

Ended == {"idle", "done", "failed"}

TypeOK ==
  /\ rubric \in Versions /\ boot \in 1 .. rubric
  /\ context \in Versions \cup {None}
  /\ rows \in [Texts \X Versions -> Evaluations \cup {None}]
  /\ hits \in [Texts \X Versions -> SUBSET Evaluations]
  /\ pc \in [Workers -> Ended \cup {"context", "fetched", "lookup", "asking", "storing"}]
  /\ text \in [Workers -> Texts \cup {None}]
  /\ known \in [Workers -> Versions \cup {None}]
  /\ attempt \in [Workers -> {1, 2}]
  /\ result \in [Workers -> Evaluations \cup {None}]
  /\ starts \in 0 .. MaxStarts

Init ==
  /\ rubric = 1 /\ boot = 1 /\ context = None
  /\ rows = [k \in Texts \X Versions |-> None] /\ hits = [k \in Texts \X Versions |-> {}]
  /\ pc = [w \in Workers |-> "idle"] /\ text = [w \in Workers |-> None]
  /\ known = [w \in Workers |-> None] /\ attempt = [w \in Workers |-> 1]
  /\ result = [w \in Workers |-> None] /\ starts = 0

Goto(w, place) == pc' = [pc EXCEPT ![w] = place]

Start(w) ==
  /\ pc[w] \in Ended /\ starts < MaxStarts
  /\ starts' = starts + 1
  /\ \E t \in Texts : text' = [text EXCEPT ![w] = t]
  /\ Goto(w, "context")
  /\ known'   = [known EXCEPT ![w] = None]
  /\ attempt' = [attempt EXCEPT ![w] = 1]
  /\ result'  = [result EXCEPT ![w] = None]
  /\ UNCHANGED <<rubric, boot, context, rows, hits>>
-----------------------------------------------------------------------------
(* get_problem_context *)

Take(w, version, place) ==
  /\ known' = [known EXCEPT ![w] = version]
  /\ Goto(w, place)
  /\ UNCHANGED <<rubric, boot, rows, hits, text, attempt, result, starts>>

CachedContext(w) ==
  /\ pc[w] = "context" /\ context # None
  /\ Take(w, context, "lookup")
  /\ UNCHANGED context

\* The domain service answers; the answer is still on its way.
FetchContext(w) ==
  /\ pc[w] = "context" /\ context = None
  /\ Take(w, rubric, "fetched")
  /\ UNCHANGED context

\* Another worker may have stored its own meanwhile: it is overwritten.
StoreContext(w) ==
  /\ pc[w] = "fetched"
  /\ context' = known[w]
  /\ Take(w, known[w], "lookup")

Fail(w) ==
  /\ Goto(w, "failed")
  /\ UNCHANGED <<rubric, boot, context, rows, hits, text, known, attempt, result, starts>>

\* DomainError: out of reach, or not 200.
FetchFails(w) == pc[w] = "context" /\ context = None /\ Fail(w)
-----------------------------------------------------------------------------
(* The table *)

\* Mutant: the key does not hold the version.
KeyWithoutVersion(t, version) == <<t, 1>>

cache_key(t, version) == <<t, version>>

Key(w) == cache_key(text[w], known[w])

CacheHit(w) ==
  /\ pc[w] = "lookup" /\ rows[Key(w)] # None
  /\ result' = [result EXCEPT ![w] = rows[Key(w)]]
  /\ hits' = [hits EXCEPT ![Key(w)] = @ \cup {rows[Key(w)]}]
  /\ Goto(w, "done")
  /\ UNCHANGED <<rubric, boot, context, rows, text, known, attempt, starts>>

\* No row, or a database that does not answer: get never raises.
CacheMiss(w) ==
  /\ pc[w] = "lookup"
  /\ Goto(w, "asking")
  /\ UNCHANGED <<rubric, boot, context, rows, hits, text, known, attempt, result, starts>>

\* Mutant: the last one to store wins.
PutLast(w) ==
  /\ pc[w] = "storing"
  /\ \/ rows' = [rows EXCEPT ![Key(w)] = result[w]]
     \/ UNCHANGED rows
  /\ Goto(w, "done")
  /\ UNCHANGED <<rubric, boot, context, hits, text, known, attempt, result, starts>>

\* INSERT ... ON CONFLICT DO NOTHING, or an insert that fails: put never raises.
Put(w) ==
  /\ pc[w] = "storing"
  /\ \/ rows' = [rows EXCEPT ![Key(w)] = IF @ = None THEN result[w] ELSE @]
     \/ UNCHANGED rows
  /\ Goto(w, "done")
  /\ UNCHANGED <<rubric, boot, context, hits, text, known, attempt, result, starts>>
-----------------------------------------------------------------------------
(* The model *)

\* What comes back, as extract_json and the schema see it.
Shapes == {"object", "fenced", "among prose", "two objects", "no object", "wrong fields"}

\* Whether the object is found and fits the schema: a fence or prose around it is
\* noise, but of two objects the outermost braces enclose no JSON.
extract_json(shape) == shape \in {"object", "fenced", "among prose"}

ApplyFlaggedRule(r) ==
  IF ~r.matched_approach /\ ~r.violated_invariants /\ ~r.confident
  THEN "FLAGGED" ELSE r.verdict

Judge(r, version) ==
  [verdict |-> ApplyFlaggedRule(r), matched_approach |-> r.matched_approach,
   violated_invariants |-> r.violated_invariants, confident |-> r.confident,
   rubric |-> version]

Answered(w, r) ==
  /\ result' = [result EXCEPT ![w] = Judge(r, known[w])]
  /\ Goto(w, "storing")
  /\ UNCHANGED attempt

\* Mutant: the answer is asked for until it can be read.
RetryAlways(w) ==
  /\ attempt' = [attempt EXCEPT ![w] = 3 - @]
  /\ UNCHANGED <<pc, result>>

\* Mutant: one retry too many.
RetryTwice(w) ==
  /\ IF attempt[w] <= 2
     THEN attempt' = [attempt EXCEPT ![w] = @ + 1] /\ UNCHANGED pc
     ELSE UNCHANGED attempt /\ Goto(w, "failed")
  /\ UNCHANGED result

\* Exactly one repair retry, then LLMError.
RetryOnce(w) ==
  /\ IF attempt[w] = 1
     THEN attempt' = [attempt EXCEPT ![w] = 2] /\ UNCHANGED pc
     ELSE UNCHANGED attempt /\ Goto(w, "failed")
  /\ UNCHANGED result

\* complete_json: what complete returned is read, or asked for once more.
ModelAnswers(w) ==
  /\ pc[w] = "asking"
  /\ \E shape \in Shapes :
       IF extract_json(shape) THEN \E r \in Replies : Answered(w, r) ELSE RetryOnce(w)
  /\ UNCHANGED <<rubric, boot, context, rows, hits, text, known, starts>>

\* No connection, the timeout, or an empty message: raised at once by complete.
ModelFails(w) == pc[w] = "asking" /\ Fail(w)
-----------------------------------------------------------------------------
(* The rest of the world *)

\* Someone replaces the rubric in the database and raises its version.
Reseed ==
  /\ rubric < MaxVersion
  /\ rubric' = rubric + 1
  /\ UNCHANGED <<boot, context, rows, hits, job, starts>>

\* The process and its cache go, with every request in it.  Nothing else empties
\* the cache: clear_cache has no caller.
Restart ==
  /\ boot' = rubric /\ context' = None
  /\ pc' = [w \in Workers |-> IF pc[w] \in Ended THEN "idle" ELSE "failed"]
  /\ result' = [w \in Workers |-> None] /\ known' = [w \in Workers |-> None]
  /\ UNCHANGED <<rubric, rows, hits, text, attempt, starts>>

Step(w) == \/ CachedContext(w) \/ FetchContext(w) \/ StoreContext(w) \/ FetchFails(w)
           \/ CacheHit(w) \/ CacheMiss(w) \/ Put(w)
           \/ ModelAnswers(w) \/ ModelFails(w)

Next == \/ \E w \in Workers : Start(w) \/ Step(w)
        \/ Reseed \/ Restart

Spec     == Init /\ [][Next]_vars
\* Each call has a timeout: 20 s to the domain, LLM_TIMEOUT_S to the model, 5 s to
\* connect to the database.
FairSpec == Spec /\ \A w \in Workers : WF_vars(Step(w))
-----------------------------------------------------------------------------
(* Properties *)

\* Whoever evaluates, and whatever was stored before by which process: an answer is
\* judged by no rubric older than the one of the last restart, and each row by the
\* rubric of its version.  The cached context may be stale, and may even go back to
\* an older version when two workers fetch it around a reseed
\* (domain_client.py:36, 50-51; cache.py:42-50).
RubricOfThisProcess ==
  /\ \A w \in Workers : result[w] # None => result[w].rubric >= boot
  /\ \A k \in DOMAIN rows : rows[k] # None => rows[k].rubric = k[2]

\* Everyone answered from the table for one text and version is told the same, before
\* and after a restart, though two workers that both found no row may store different
\* verdicts after someone was answered from the first (cache.py:63-79).
StoredVerdictStands == \A k \in DOMAIN rows : hits[k] \subseteq {rows[k]} \ {None}

\* Every evaluation ends, with an evaluation or an error, after at most one repair
\* retry (llm.py:113-147).
EveryEvaluationEnds == \A w \in Workers : pc[w] = "context" ~> pc[w] \in Ended
=============================================================================
