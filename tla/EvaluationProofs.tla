-------------------------- MODULE EvaluationProofs --------------------------
(***************************************************************************)
(* For any number of workers, texts, replies and versions: the types, that *)
(* no answer is judged by a rubric older than the last restart, and that   *)
(* a verdict once answered from the table is the one stored for good.  The *)
(* invariant follows the version from the cached context through a         *)
(* worker's hands into the row.                                            *)
(***************************************************************************)
EXTENDS Evaluation, TLAPS

\* The process knows no version from before its start.
ContextOfThisProcess == context # None => context >= boot

KnownOfThisProcess == \A w \in Workers : known[w] # None => known[w] >= boot

\* A worker past the context has its text and a version, and what it is about to
\* store was judged by that version.
JobIsWhole ==
  \A w \in Workers :
    /\ pc[w] \notin Ended => text[w] # None
    /\ pc[w] \in {"fetched", "lookup", "asking", "storing"} => known[w] # None
    /\ pc[w] = "storing" => result[w] # None /\ result[w].rubric = known[w]

IInv == /\ TypeOK /\ ContextOfThisProcess /\ KnownOfThisProcess /\ JobIsWhole
        /\ RubricOfThisProcess /\ StoredVerdictStands

\* What Judge makes of a reply is an evaluation by that version.
LEMMA JudgeTheorem ==
  ASSUME NEW r \in Replies, NEW v \in Versions
  PROVE  /\ Judge(r, v) \in Evaluations
         /\ Judge(r, v).rubric = v
<1>1. r \in EvaluatorOutput
  BY EvaluationAssumption
<1> QED BY <1>1 DEF EvaluatorOutput, Evaluations, Judge, ApplyFlaggedRule

-----------------------------------------------------------------------------
\* The conjuncts in the form the steps use.
Good ==
  /\ TypeOK /\ ContextOfThisProcess /\ KnownOfThisProcess /\ JobIsWhole
  /\ \A w \in Workers : result[w] # None => result[w].rubric >= boot
  /\ \A k \in Texts \X Versions :
       /\ rows[k] # None => rows[k].rubric = k[2]
       /\ \A e \in hits[k] : e = rows[k] /\ rows[k] # None

LEMMA GoodIsIInv == Good <=> IInv
<1>1. TypeOK => DOMAIN rows = Texts \X Versions
  BY DEF TypeOK
<1> QED BY <1>1 DEF Good, IInv, RubricOfThisProcess, StoredVerdictStands

LEMMA InitGood == Init => Good
  BY EvaluationAssumption
     DEF Init, Good, TypeOK, ContextOfThisProcess, KnownOfThisProcess, JobIsWhole,
         Versions, Ended

LEMMA StepGood ==
  ASSUME Good, NEW w \in Workers, Start(w) \/ Step(w)
  PROVE  Good'
<1> USE EvaluationAssumption
<1> USE DEF Good, TypeOK, ContextOfThisProcess, KnownOfThisProcess, JobIsWhole, Ended, Goto
<1>1. CASE Start(w)           BY <1>1 DEF Start
<1>2. CASE CachedContext(w)   BY <1>2 DEF CachedContext, Take
<1>3. CASE FetchContext(w)    BY <1>3 DEF FetchContext, Take
<1>4. CASE StoreContext(w)    BY <1>4 DEF StoreContext, Take
<1>5. CASE FetchFails(w)      BY <1>5 DEF FetchFails, Fail
<1>6. CASE CacheHit(w)
  <2>1. Key(w) \in Texts \X Versions /\ Key(w)[2] = known[w]
    BY <1>6 DEF CacheHit, Key, cache_key
  <2>2. rows[Key(w)] \in Evaluations /\ rows[Key(w)].rubric >= boot
    BY <1>6, <2>1 DEF CacheHit
  <2>3. hits' = [hits EXCEPT ![Key(w)] = @ \cup {rows[Key(w)]}]
    BY <1>6 DEF CacheHit
  <2>4. /\ hits' \in [Texts \X Versions -> SUBSET Evaluations]
        /\ \A k \in Texts \X Versions : \A e \in hits'[k] : e = rows[k] /\ rows[k] # None
    BY <2>1, <2>2, <2>3
  <2>5. UNCHANGED <<rubric, boot, context, rows, text, known, attempt, starts>>
    BY <1>6 DEF CacheHit
  <2> QED BY <1>6, <2>2, <2>4, <2>5 DEF CacheHit
<1>7. CASE CacheMiss(w)       BY <1>7 DEF CacheMiss
<1>8. CASE Put(w)
  <2>1. Key(w) \in Texts \X Versions /\ Key(w)[2] = known[w]
    BY <1>8 DEF Put, Key, cache_key
  <2>2. \A k \in Texts \X Versions : rows'[k] = rows[k] \/ (k = Key(w) /\ rows'[k] = result[w])
    BY <1>8, <2>1 DEF Put
  <2>3. rows' \in [Texts \X Versions -> Evaluations \cup {None}]
    BY <1>8, <2>1 DEF Put
  <2>4. result[w] # None /\ result[w].rubric = known[w]
    BY <1>8 DEF Put
  <2>5. UNCHANGED <<rubric, boot, context, hits, text, known, attempt, result, starts>>
    BY <1>8 DEF Put
  <2>6. \A k \in Texts \X Versions :
          rows'[k] # None => rows'[k].rubric = k[2]
    BY <2>1, <2>2, <2>4
  <2>7. \A k \in Texts \X Versions : rows[k] # None => rows'[k] = rows[k]
    BY <1>8, <2>1 DEF Put
  <2>8. \A k \in Texts \X Versions : \A e \in hits'[k] : e = rows'[k] /\ rows'[k] # None
    BY <2>5, <2>7
  <2> QED BY <1>8, <2>3, <2>5, <2>6, <2>8 DEF Put
<1>9. CASE ModelAnswers(w)
  <2>1. CASE \E r \in Replies : Answered(w, r)
    <3>1. PICK r \in Replies : Answered(w, r)
      BY <2>1
    <3>2. known[w] \in Versions
      BY <1>9 DEF ModelAnswers
    <3>3. /\ Judge(r, known[w]) \in Evaluations
          /\ Judge(r, known[w]).rubric = known[w]
      BY <3>2, JudgeTheorem
    <3> QED BY <1>9, <3>1, <3>2, <3>3 DEF ModelAnswers, Answered
  <2>2. CASE RetryOnce(w)
    BY <1>9, <2>2 DEF ModelAnswers, RetryOnce
  <2> QED BY <1>9, <2>1, <2>2 DEF ModelAnswers
<1>10. CASE ModelFails(w)     BY <1>10 DEF ModelFails, Fail
<1> QED BY <1>1, <1>2, <1>3, <1>4, <1>5, <1>6, <1>7, <1>8, <1>9, <1>10 DEF Step

LEMMA NextGood == Good /\ [Next]_vars => Good'
<1> SUFFICES ASSUME Good, [Next]_vars PROVE Good'
  OBVIOUS
<1> USE EvaluationAssumption
<1>1. CASE \E w \in Workers : Start(w) \/ Step(w)
  BY <1>1, StepGood
<1>2. CASE Reseed
  BY <1>2 DEF Good, TypeOK, ContextOfThisProcess, KnownOfThisProcess, JobIsWhole,
              Reseed, job, Versions
<1>3. CASE Restart
  BY <1>3 DEF Good, TypeOK, ContextOfThisProcess, KnownOfThisProcess, JobIsWhole,
              Restart, Versions, Ended
<1>4. CASE UNCHANGED vars
  BY <1>4 DEF Good, TypeOK, ContextOfThisProcess, KnownOfThisProcess, JobIsWhole, vars, job
<1> QED BY <1>1, <1>2, <1>3, <1>4 DEF Next

LEMMA GoodAlways == Spec => []Good
  BY InitGood, NextGood, PTL DEF Spec

\* The inductive invariant holds in every reachable state.
THEOREM EvaluationInvariance == Spec => []IInv
  BY GoodAlways, GoodIsIInv, PTL

\* Every variable stays in its range: the model is asked twice at most.
THEOREM EvaluationTypeCorrect == Spec => []TypeOK
<1>1. IInv => TypeOK BY DEF IInv
<1> QED BY <1>1, EvaluationInvariance, PTL

\* No answer is judged by a rubric from before the last restart, and no row by
\* another than that of its version.
THEOREM RubricTheorem == Spec => []RubricOfThisProcess
<1>1. IInv => RubricOfThisProcess BY DEF IInv
<1> QED BY <1>1, EvaluationInvariance, PTL

\* A verdict that was answered from the table stays the one of its text and version,
\* whoever stores another after it, and whenever the process is restarted.
THEOREM StoredTheorem == Spec => []StoredVerdictStands
<1>1. IInv => StoredVerdictStands BY DEF IInv
<1> QED BY <1>1, EvaluationInvariance, PTL
=============================================================================
