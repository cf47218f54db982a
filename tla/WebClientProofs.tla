-------------------------- MODULE WebClientProofs --------------------------
(***************************************************************************)
(* The safety theorems of WebClient, for any number of calls under way and *)
(* anything the student does.                                              *)
(***************************************************************************)
EXTENDS WebClient, FiniteSetTheorems, TLAPS

-----------------------------------------------------------------------------
(* The inductive invariant *)

\* The page waits for one call at a time, exactly while it is busy.
Single ==
  /\ \A i, j \in Slots : Waits(i) /\ Waits(j) => i = j
  /\ busy # None <=> \E i \in Slots : Waits(i)

\* The session the page shows is the one stored.
Shown == store # None /\ view = ViewOf(store)

\* A call that does not write any more.
Still(call) == call.at \in {"written", "done"}

\* A page that missed nothing is not loading; the calls it left behind are still;
\* and it shows the session as it is until an event of its own has been checked,
\* which therefore meets no conflict.
Told ==
  ~missed =>
    /\ busy # "load"
    /\ Idle => Shown
    /\ \A i \in Slots : calls[i] # None =>
         /\ ~calls[i].awaited => Still(calls[i])
         /\ calls[i].awaited => calls[i].status \notin {404, 409}
         /\ Sent(i, Kinds) => Shown /\ calls[i].op \in Allowed[view.phase]

\* A settled answer stays true for as long as the page waits for it.
StaysSettled ==
  \A i \in Slots :
    Waits(i) /\ calls[i].settled =>
      store # None /\ calls[i].answer = ViewOf(store) /\ Quiet(i)

IInv == TypeOK /\ Single /\ Told /\ StaysSettled

-----------------------------------------------------------------------------
(* Typing *)

LEMMA TutorsType ==
  ASSUME NEW v \in Views PROVE Tutors(v) \in Nat
<1>1. DOMAIN v.log = 1 .. Len(v.log) /\ Len(v.log) \in Nat
  BY DEF Views
<1>2. IsFiniteSet(DOMAIN v.log)
  BY <1>1, FS_Interval
<1>3. IsFiniteSet({k \in DOMAIN v.log : v.log[k] = "tutor"})
  BY <1>2, FS_Subset
<1> QED
  BY <1>3, FS_CardinalityType DEF Tutors


LEMMA ViewType == ASSUME NEW s \in Sessions \cup {None} PROVE ViewOf(s) \in Views
<1>1. << >> \in Seq(Roles)
  OBVIOUS
<1> QED
  BY <1>1 DEF ViewOf, Sessions, Views, Phases

\* A step of a turn makes a session of a session.
LEMMA ContinuedType ==
  ASSUME NEW s \in Sessions, NEW t \in Continued(s) PROVE t \in Sessions
<1>1. /\ "system" \in Roles /\ "tutor" \in Roles
      /\ <<"system", "system">> \in Seq(Roles)
  BY DEF Roles
<1>2. /\ Append(s.log, "system") \in Seq(Roles) /\ Append(s.log, "tutor") \in Seq(Roles)
      /\ s.log \o <<"system", "system">> \in Seq(Roles)
  BY <1>1 DEF Sessions
<1>3. CASE s.owed = "logic"
  <2>1. /\ [s EXCEPT !.owed = "chat"] \in Sessions
        /\ [phase |-> "CODE", log |-> Append(s.log, "system"), owed |-> None] \in Sessions
    BY <1>2 DEF Sessions, Phases, Kinds
  <2> QED BY <1>3, <2>1 DEF Continued
<1>4. CASE s.owed = "chat"
  <2>1. [s EXCEPT !.log = Append(@, "tutor"), !.owed = None] \in Sessions
    BY <1>2 DEF Sessions
  <2> QED BY <1>4, <2>1 DEF Continued
<1>5. CASE s.owed = "code"
  <2>1. [s EXCEPT !.log = Append(@, "system"), !.owed = "chat"] \in Sessions
    BY <1>2 DEF Sessions, Kinds
  <2>2. [s EXCEPT !.log = Append(@, "system"), !.owed = None] \in Sessions
    BY <1>2 DEF Sessions
  <2>3. [phase |-> "DONE", log |-> s.log \o <<"system", "system">>, owed |-> None] \in Sessions
    BY <1>2 DEF Sessions, Phases
  <2> QED BY <1>5, <2>1, <2>2, <2>3 DEF Continued
<1>6. CASE s.owed \notin Kinds
  BY <1>6 DEF Continued, Kinds
<1> QED BY <1>3, <1>4, <1>5, <1>6 DEF Kinds

\* A call is well formed when it has the session it loaded while it runs, and a
\* view when it was answered with one.
WellFormed(call) ==
  call # None =>
    /\ call.at = "running" <=> call.copy # None
    /\ call.at = "running" => call.op \in Kinds
    /\ call.at = "written" => call.op # "reset"
    /\ call.answer # None <=>
         call.at = "done" /\ call.status = 200 /\ call.op # "reset"

LEMMA PutCall ==
  ASSUME TypeOK, NEW i \in Slots, NEW x \in Calls \cup {None}, WellFormed(x),
         calls' = [calls EXCEPT ![i] = x]
  PROVE  /\ calls' \in [Slots -> Calls \cup {None}]
         /\ \A j \in Slots : WellFormed(calls'[j])
BY DEF TypeOK, WellFormed

LEMMA NewCallType ==
  ASSUME NEW op \in Kinds \cup {"start", "reset"}
  PROVE  NewCall(op) \in Calls /\ WellFormed(NewCall(op))
BY DEF NewCall, Calls, WellFormed

\* Whoever waits for a call, and however certain its answer is, it is a call.
LEMMA FlagsType ==
  ASSUME NEW c \in Calls, NEW awaited \in BOOLEAN, NEW settled \in BOOLEAN
  PROVE  [op |-> c.op, at |-> c.at, copy |-> c.copy, status |-> c.status,
          answer |-> c.answer, settled |-> settled, awaited |-> awaited] \in Calls
BY DEF Calls

\* Only the listener changes.
LEMMA ListenerType ==
  ASSUME NEW c \in Calls, NEW awaited \in BOOLEAN,
         NEW d, d = [c EXCEPT !.awaited = awaited]
  PROVE  /\ d \in Calls /\ d.awaited = awaited
         /\ d.op = c.op /\ d.at = c.at /\ d.copy = c.copy /\ d.status = c.status
         /\ d.answer = c.answer /\ d.settled = c.settled
<1>1. d = [op |-> c.op, at |-> c.at, copy |-> c.copy, status |-> c.status,
           answer |-> c.answer, settled |-> c.settled, awaited |-> awaited]
  BY DEF Calls
<1>2. c.settled \in BOOLEAN
  BY DEF Calls
<1>3. d \in Calls
  BY <1>1, <1>2, FlagsType
<1> QED BY <1>1, <1>3

\* What the orchestrator answers.
AnswerCodes == {200, 404, 409, 500}

LEMMA MovedType ==
  ASSUME NEW c \in Calls, NEW at \in {"running", "written", "done"},
         NEW copy \in Sessions \cup {None}, NEW status \in AnswerCodes \cup {0},
         NEW answer \in Views \cup {None}, NEW settled \in BOOLEAN
  PROVE  Moved(c, at, copy, status, answer, settled) \in Calls
BY DEF Moved, Calls, AnswerCodes

LEMMA DoneType ==
  ASSUME NEW c \in Calls, NEW code \in AnswerCodes, code = 200 => c.op = "reset"
  PROVE  /\ Done(c, code) \in Calls /\ WellFormed(Done(c, code))
         /\ Done(c, code).awaited = c.awaited /\ Done(c, code).status = code
         /\ Done(c, code).at = "done" /\ ~Done(c, code).settled
<1>1. Done(c, code) \in Calls
  BY MovedType DEF Done
<1> QED BY <1>1, ClientAssumption DEF Done, Moved, WellFormed

LEMMA WrittenType ==
  ASSUME NEW c \in Calls, c.op # "reset"
  PROVE  /\ Written(c) \in Calls /\ WellFormed(Written(c))
         /\ Written(c).awaited = c.awaited /\ Written(c).status = 0
         /\ Written(c).at = "written" /\ ~Written(c).settled
<1>1. Written(c) \in Calls
  BY MovedType DEF Written
<1> QED BY <1>1, ClientAssumption DEF Written, Moved, WellFormed

LEMMA WorksOnType ==
  ASSUME NEW c \in Calls, c.op \in Kinds, NEW s \in Sessions
  PROVE  /\ WorksOn(c, s) \in Calls /\ WellFormed(WorksOn(c, s))
         /\ WorksOn(c, s).awaited = c.awaited /\ WorksOn(c, s).status = 0
         /\ WorksOn(c, s).at = "running" /\ ~WorksOn(c, s).settled
<1>1. WorksOn(c, s) \in Calls /\ s # None
  BY MovedType, ClientAssumption DEF WorksOn
<1> QED BY <1>1, ClientAssumption DEF WorksOn, Moved, WellFormed

\* A turn that has written its last is answered with a view.
LEMMA RespondedType ==
  ASSUME NEW c \in Calls, c.op # "reset", NEW v \in Views, NEW settled \in BOOLEAN,
         NEW d, d = Moved(c, "done", None, 200, v, settled)
  PROVE  /\ d \in Calls /\ WellFormed(d) /\ d.at = "done" /\ d.status = 200
         /\ d.answer = v /\ d.settled = settled /\ d.awaited = c.awaited
<1>1. d \in Calls
  BY MovedType DEF AnswerCodes
<1> QED BY <1>1, ClientAssumption DEF WellFormed, Moved

\* A call nobody waits for any more is otherwise the same call.
LEMMA GivenUpType ==
  ASSUME NEW c \in Calls, WellFormed(c), c # None, NEW d, d = [c EXCEPT !.awaited = FALSE]
  PROVE  d \in Calls /\ WellFormed(d) /\ ~d.awaited
<1>1. /\ d \in Calls /\ ~d.awaited
      /\ d.op = c.op /\ d.at = c.at /\ d.copy = c.copy /\ d.status = c.status
      /\ d.answer = c.answer
  BY ListenerType
<1>2. d # None
  BY <1>1, ClientAssumption
<1> QED BY <1>1, <1>2 DEF WellFormed

-----------------------------------------------------------------------------
(* What the page displays is typed *)

LEMMA DisplayType ==
  ASSUME NEW v \in Views \cup {None}, NEW count \in Nat, NEW open \in BOOLEAN,
         Display(v, count, open)
  PROVE  view' \in Views \cup {None} /\ chatOpen' \in BOOLEAN /\ lastTutorCount' \in Nat
<1>1. v # None => Tutors(v) \in Nat
  BY TutorsType
<1> QED
  BY <1>1 DEF Display

LEMMA ShowType ==
  ASSUME TypeOK, NEW v \in Views \cup {None}, Show(v)
  PROVE  /\ view' = v /\ busy' = None
         /\ view' \in Views \cup {None} /\ chatOpen' \in BOOLEAN /\ lastTutorCount' \in Nat
         /\ error' \in {error, 0}
<1>1. v # None => Tutors(v) \in Nat
  BY TutorsType
<1>2. PICK count \in Nat, open \in BOOLEAN : Display(v, count, open)
  <2>1. CASE busy = "reset" /\ Display(v, 0, FALSE)
    BY <2>1
  <2>2. CASE Display(v, lastTutorCount, chatOpen)
    BY <2>2 DEF TypeOK
  <2>3. CASE v # None /\ Display(v, Tutors(v), chatOpen)
    BY <2>3, <1>1 DEF TypeOK
  <2> QED BY <2>1, <2>2, <2>3 DEF Show
<1>3. view' = v
  BY <1>2 DEF Display
<1> QED
  BY <1>2, <1>3, DisplayType DEF Show

-----------------------------------------------------------------------------
(* Steps that only move one call, and the ways a call ends *)

\* A call that moves keeps its listener; Single does not notice.
LEMMA SingleMoves ==
  ASSUME TypeOK, Single, NEW i \in Slots, calls[i] # None, NEW x \in Calls,
         x.awaited = calls[i].awaited, calls' = [calls EXCEPT ![i] = x], busy' = busy
  PROVE  Single'
<1>1. \A j \in Slots : Waits(j)' <=> Waits(j)
  BY ClientAssumption DEF Waits, TypeOK
<1> QED BY <1>1 DEF Single

\* The call the page waits for ends or is given up, and the page is idle.
LEMMA SingleEnds ==
  ASSUME TypeOK, Single, NEW i \in Slots, Waits(i),
         NEW x \in Calls \cup {None}, x # None => ~x.awaited,
         calls' = [calls EXCEPT ![i] = x], busy' = None
  PROVE  Single'
<1>1. \A j \in Slots : ~Waits(j)'
  BY DEF Waits, TypeOK, Single
<1> QED BY <1>1 DEF Single

\* An idle page makes a call.
LEMMA SingleBegins ==
  ASSUME TypeOK, Single, Idle, NEW i \in Slots, NEW x \in Calls, x.awaited,
         calls' = [calls EXCEPT ![i] = x], busy' # None
  PROVE  Single'
<1>1. \A j \in Slots : Waits(j)' <=> j = i
  BY ClientAssumption DEF Waits, TypeOK, Single, Idle
<1> QED BY <1>1 DEF Single

-----------------------------------------------------------------------------
LEMMA InitIInv == Init => IInv
<1> SUFFICES ASSUME Init PROVE IInv
  OBVIOUS
<1> PICK i \in Slots : calls = [j \in Slots |-> IF j = i THEN NewCall("start") ELSE None]
  BY DEF Init
<1>1. NewCall("start") \in Calls /\ WellFormed(NewCall("start"))
  BY NewCallType
<1>2. TypeOK
  BY <1>1, ClientAssumption DEF Init, TypeOK, WellFormed
<1>3. \A j \in Slots : Waits(j) <=> j = i
  <2>1. NewCall("start") # None
    BY <1>1, ClientAssumption
  <2>2. NewCall("start").awaited
    BY DEF NewCall
  <2> QED BY <2>1, <2>2 DEF Waits
<1>4. Single
  BY <1>3, ClientAssumption DEF Single, Init
<1>5. Told
  BY DEF Told, Init
<1>6. StaysSettled
  BY <1>3 DEF StaysSettled, NewCall
<1> QED BY <1>2, <1>4, <1>5, <1>6 DEF IInv

-----------------------------------------------------------------------------
(* The student *)

\* An idle page waits for nothing, and if it missed nothing, what it left behind
\* is still.
LEMMA IdleIsStill ==
  ASSUME TypeOK, Single, Told, Idle
  PROVE  \A j \in Slots : calls[j] # None =>
           ~calls[j].awaited /\ (~missed => Still(calls[j]) /\ ~Sent(j, Kinds))
BY DEF Single, Told, Idle, Waits, Still, Sent

LEMMA ShownView ==
  ASSUME TypeOK, Shown
  PROVE  view # None /\ store \in Sessions /\ view.phase = store.phase
<1>1. store \in Sessions /\ view \in Views
  BY ViewType DEF Shown, TypeOK
<1> QED BY <1>1, ClientAssumption DEF Shown, ViewOf

LEMMA BeginType ==
  ASSUME TypeOK, NEW kind \in Kinds \cup {"reset"}, NEW i \in Slots, left > 0,
         left' = left - 1, calls' = [calls EXCEPT ![i] = NewCall(kind)],
         busy' = kind, error' = None,
         UNCHANGED <<store, view, chatOpen, lastTutorCount, missed>>
  PROVE  TypeOK'
<1>1. NewCall(kind) \in Calls /\ WellFormed(NewCall(kind))
  BY NewCallType
<1>2. /\ calls' \in [Slots -> Calls \cup {None}]
      /\ \A j \in Slots : WellFormed(calls'[j])
  BY <1>1, PutCall
<1>3. left' \in Nat
  BY DEF TypeOK
<1> QED BY <1>2, <1>3 DEF TypeOK, WellFormed

LEMMA SendIInv == ASSUME IInv, NEW kind \in Kinds, Send(kind) PROVE IInv'
<1> USE DEF IInv
<1>1. PICK i \in Slots : calls[i] = None /\ calls' = [calls EXCEPT ![i] = NewCall(kind)]
  BY DEF Send, Begin, Moves
<1>2. NewCall(kind) \in Calls /\ NewCall(kind).awaited
  BY NewCallType DEF NewCall
<1>3. busy' = kind /\ kind # None /\ kind # "load"
  BY ClientAssumption DEF Send, Begin, Kinds
<1>4. TypeOK'
  BY <1>1, BeginType DEF Send, Begin
<1>5. Single'
  BY <1>1, <1>2, <1>3, SingleBegins DEF Send
<1>6. Told'
  <2> SUFFICES ASSUME ~missed PROVE Told'
    BY DEF Told, Send
  <2>1. Shown /\ \A j \in Slots : calls[j] # None =>
                   ~calls[j].awaited /\ Still(calls[j]) /\ ~Sent(j, Kinds)
    BY IdleIsStill DEF Send, Told
  <2>2. Shown' /\ view' = view
    BY <2>1 DEF Shown, Send
  <2>3. kind \in Allowed[view.phase]
    <3>1. view # None /\ view.phase \in Phases
      BY <2>1, ShownView DEF Sessions
    <3> QED BY <3>1 DEF Send, Offers, Allowed, Phases
  <2>4. calls'[i] = NewCall(kind) /\ \A j \in Slots : j # i => calls'[j] = calls[j]
    BY <1>1 DEF TypeOK
  <2>5. NewCall(kind).status = 0 /\ NewCall(kind).op = kind
    BY DEF NewCall
  <2>6. ~(Idle)'
    BY <1>3 DEF Idle
  <2>7. ASSUME NEW j \in Slots, calls'[j] # None
        PROVE  /\ ~calls'[j].awaited => Still(calls'[j])
               /\ calls'[j].awaited => calls'[j].status \notin {404, 409}
               /\ Sent(j, Kinds)' => Shown' /\ calls'[j].op \in Allowed[view'.phase]
    <3>1. CASE j = i
      BY <1>2, <2>2, <2>3, <2>4, <2>5, <3>1
    <3>2. CASE j # i
      BY <2>1, <2>4, <2>7, <3>2 DEF Sent
    <3> QED BY <3>1, <3>2
  <2> QED BY <1>3, <2>6, <2>7 DEF Told
<1>7. StaysSettled'
  BY <1>1, IdleIsStill, ClientAssumption DEF StaysSettled, Send, Waits, NewCall, TypeOK
<1> QED BY <1>4, <1>5, <1>6, <1>7

LEMMA OnResetIInv == ASSUME IInv, OnReset PROVE IInv'
<1> USE DEF IInv
<1>1. PICK i \in Slots : calls[i] = None /\ calls' = [calls EXCEPT ![i] = NewCall("reset")]
  BY DEF OnReset, Begin, Moves
<1>2. NewCall("reset") \in Calls /\ NewCall("reset").awaited
  BY NewCallType DEF NewCall
<1>3. busy' = "reset" /\ "reset" # None
  BY ClientAssumption DEF OnReset, Begin
<1>4. TypeOK'
  BY <1>1, BeginType DEF OnReset, Begin
<1>5. Single'
  BY <1>1, <1>2, <1>3, SingleBegins DEF OnReset
<1>6. Told'
  <2> SUFFICES ASSUME ~missed PROVE Told'
    BY DEF Told, OnReset
  <2>1. \A j \in Slots : calls[j] # None =>
          ~calls[j].awaited /\ Still(calls[j]) /\ ~Sent(j, Kinds)
    BY IdleIsStill DEF OnReset
  <2>2. calls'[i] = NewCall("reset") /\ \A j \in Slots : j # i => calls'[j] = calls[j]
    BY <1>1 DEF TypeOK
  <2>3. NewCall("reset").status = 0 /\ NewCall("reset").op \notin Kinds
    BY DEF NewCall, Kinds
  <2>4. ASSUME NEW j \in Slots, calls'[j] # None
        PROVE  /\ ~calls'[j].awaited => Still(calls'[j])
               /\ calls'[j].awaited => calls'[j].status \notin {404, 409}
               /\ ~Sent(j, Kinds)'
    <3>1. CASE j = i
      BY <1>2, <2>2, <2>3, <3>1 DEF Sent
    <3>2. CASE j # i
      BY <2>1, <2>2, <2>4, <3>2 DEF Sent
    <3> QED BY <3>1, <3>2
  <2>5. ~(Idle)'
    BY <1>3 DEF Idle
  <2> QED BY <1>3, <2>4, <2>5 DEF Told
<1>7. StaysSettled'
  BY <1>1, IdleIsStill, ClientAssumption DEF StaysSettled, OnReset, Waits, NewCall, TypeOK
<1> QED BY <1>4, <1>5, <1>6, <1>7

LEMMA ReloadIInv == ASSUME IInv, Reload PROVE IInv'
<1> USE DEF IInv
<1> DEFINE unheard == [j \in Slots |-> IF calls[j] = None THEN None
                                       ELSE [calls[j] EXCEPT !.awaited = FALSE]]
<1>1. PICK i \in Slots : calls[i] = None /\ calls' = [unheard EXCEPT ![i] = NewCall("start")]
  BY DEF Reload
<1>2. NewCall("start") \in Calls /\ WellFormed(NewCall("start")) /\ NewCall("start").awaited
  BY NewCallType DEF NewCall
<1>3. \A j \in Slots : j # i =>
        /\ calls'[j] \in Calls \cup {None}
        /\ WellFormed(calls'[j])
        /\ calls'[j] # None => ~calls'[j].awaited
  <2> SUFFICES ASSUME NEW j \in Slots, j # i, calls[j] # None
               PROVE  calls'[j] \in Calls /\ WellFormed(calls'[j]) /\ ~calls'[j].awaited
    BY <1>1 DEF WellFormed
  <2>1. calls'[j] = [calls[j] EXCEPT !.awaited = FALSE] /\ calls[j] \in Calls
    <3>1. calls'[j] = unheard[j]
      BY <1>1 DEF unheard
    <3>2. unheard[j] = [calls[j] EXCEPT !.awaited = FALSE]
      BY DEF unheard
    <3> QED BY <3>1, <3>2 DEF TypeOK
  <2>2. WellFormed(calls[j])
    BY DEF TypeOK, WellFormed
  <2> QED BY <2>1, <2>2, GivenUpType
<1>4. calls'[i] = NewCall("start")
  BY <1>1
<1>5. TypeOK'
  <2>1. calls' \in [Slots -> Calls \cup {None}]
    BY <1>1, <1>2, <1>3, <1>4 DEF unheard
  <2>2. \A j \in Slots : WellFormed(calls'[j])
    BY <1>2, <1>3, <1>4
  <2>3. left' \in Nat /\ store' \in Sessions \cup {None}
    BY DEF Reload, TypeOK
  <2>4. /\ view' \in Views \cup {None} /\ busy' \in Kinds \cup {"reset", "load", None}
        /\ error' \in {None, 0, 404, 409, 500, 502, 504}
        /\ chatOpen' \in BOOLEAN /\ lastTutorCount' \in Nat /\ missed' \in BOOLEAN
    BY DEF Reload
  <2> QED BY <2>1, <2>2, <2>3, <2>4 DEF TypeOK, WellFormed
<1>6. Single'
  <2>1. \A j \in Slots : Waits(j)' <=> j = i
    BY <1>2, <1>3, <1>4, ClientAssumption DEF Waits
  <2>2. busy' # None
    BY ClientAssumption DEF Reload
  <2> QED BY <2>1, <2>2 DEF Single
<1>7. Told'
  BY DEF Told, Reload
<1>8. StaysSettled'
  BY <1>3, <1>4 DEF StaysSettled, Waits, NewCall
<1> QED BY <1>5, <1>6, <1>7, <1>8

LEMMA PaneIInv == ASSUME IInv, OpenOrCloseChat \/ Dismiss PROVE IInv'
<1> USE DEF IInv
<1>1. TypeOK'
  <2>1. chatOpen' \in BOOLEAN /\ error' \in {None, 0, 404, 409, 500, 502, 504}
    <3>1. CASE OpenOrCloseChat
      <4>1. chatOpen' \in BOOLEAN
        BY <3>1, Zenon DEF OpenOrCloseChat
      <4> QED BY <3>1, <4>1 DEF OpenOrCloseChat, TypeOK
    <3>2. CASE Dismiss
      BY <3>2 DEF Dismiss, TypeOK
    <3> QED BY <3>1, <3>2
  <2>2. UNCHANGED <<store, calls, view, busy, lastTutorCount, missed, left>>
    BY DEF OpenOrCloseChat, Dismiss
  <2> QED BY <2>1, <2>2 DEF TypeOK
<1>2. Single' /\ Told' /\ StaysSettled'
  BY DEF OpenOrCloseChat, Dismiss, Single, Told, StaysSettled, Quiet, Waits, Idle, Shown, Sent
<1> QED BY <1>1, <1>2

-----------------------------------------------------------------------------
(* The orchestrator *)

\* How a call may move on: it keeps its listener, it meets no conflict unless
\* something was missed, and one that is still and left behind remains still.
MovesTo(c, x) ==
  /\ x.awaited = c.awaited
  /\ x.status \in {404, 409} => missed
  /\ x.at # "sent" \/ x.op \notin Kinds
  /\ ~c.awaited /\ Still(c) => Still(x)

\* A step of the orchestrator moves one call on and leaves the page alone.
LEMMA MoveIInv ==
  ASSUME IInv, NEW i \in Slots, calls[i] # None,
         NEW x \in Calls, WellFormed(x), MovesTo(calls[i], x),
         x.settled => store # None /\ x.answer = ViewOf(store) /\ Quiet(i),
         (Still(x) /\ Still(calls[i])) \/ x.settled => store' = store,
         calls' = [calls EXCEPT ![i] = x],
         store' \in Sessions \cup {None}, UNCHANGED <<page, left>>
  PROVE  IInv'
<1> USE DEF IInv
<1>1. TypeOK'
  <2>1. /\ calls' \in [Slots -> Calls \cup {None}]
        /\ \A j \in Slots : WellFormed(calls'[j])
    BY PutCall
  <2> QED BY <2>1 DEF TypeOK, WellFormed, page
<1>2. Single'
  BY SingleMoves DEF MovesTo, page
<1>3. calls'[i] = x /\ x # None /\ \A j \in Slots : j # i => calls'[j] = calls[j]
  BY ClientAssumption DEF TypeOK
<1>4. Told'
  <2> SUFFICES ASSUME ~missed PROVE Told'
    BY DEF Told, page
  <2>1. x.status \notin {404, 409} /\ ~Sent(i, Kinds)'
    BY <1>3 DEF Sent, MovesTo
  <2>2. CASE calls[i].awaited
    <3>1. Waits(i)
      BY <2>2 DEF Waits
    <3>2. busy # None /\ \A j \in Slots : j # i /\ calls[j] # None => ~calls[j].awaited
      BY <3>1 DEF Single, Waits
    <3>3. ~(Idle)' /\ busy' # "load"
      BY <3>2 DEF Idle, Told, page
    <3>4. ASSUME NEW j \in Slots, calls'[j] # None
          PROVE  /\ ~calls'[j].awaited => Still(calls'[j])
                 /\ calls'[j].awaited => calls'[j].status \notin {404, 409}
                 /\ ~Sent(j, Kinds)'
      <4>1. CASE j = i
        <5>1. x.awaited
          BY <2>2 DEF MovesTo
        <5> QED BY <1>3, <2>1, <4>1, <5>1
      <4>2. CASE j # i
        BY <1>3, <3>2, <3>4, <4>2 DEF Told, Still, Sent
      <4> QED BY <4>1, <4>2
    <3> QED BY <3>3, <3>4 DEF Told
  <2>3. CASE ~calls[i].awaited
    <3>1. Still(x) /\ store' = store
      BY <2>3 DEF Told, MovesTo
    <3>2. Shown' = Shown /\ Idle' = Idle /\ view' = view /\ busy' = busy
      BY <3>1 DEF Shown, ViewOf, Idle, page
    <3>3. ASSUME NEW j \in Slots, calls'[j] # None
          PROVE  /\ ~calls'[j].awaited => Still(calls'[j])
                 /\ calls'[j].awaited => calls'[j].status \notin {404, 409}
                 /\ Sent(j, Kinds)' => Shown' /\ calls'[j].op \in Allowed[view'.phase]
      <4>1. CASE j = i
        BY <1>3, <2>1, <2>3, <3>1, <4>1 DEF MovesTo
      <4>2. CASE j # i
        BY <1>3, <3>2, <3>3, <4>2 DEF Told, Sent
      <4> QED BY <4>1, <4>2
    <3> QED BY <3>2, <3>3 DEF Told
  <2> QED BY <2>2, <2>3
<1>5. StaysSettled'
  <2> SUFFICES ASSUME NEW j \in Slots, Waits(j)', calls'[j].settled
               PROVE  /\ store' = store /\ store # None
                      /\ calls'[j].answer = ViewOf(store) /\ Quiet(j)'
    BY DEF StaysSettled, ViewOf
  <2>1. CASE j = i
    BY <1>3, <2>1 DEF Quiet
  <2>2. CASE j # i
    <3>1. Waits(j) /\ calls[j].settled
      BY <1>3, <2>2 DEF Waits
    <3>2. store # None /\ calls[j].answer = ViewOf(store) /\ Quiet(j)
      BY <3>1 DEF StaysSettled
    <3>3. ~calls[i].awaited /\ Still(calls[i])
      BY <2>2, <3>1, <3>2 DEF Single, Waits, Quiet, Still
    <3>4. Still(x) /\ store' = store
      BY <3>3 DEF MovesTo
    <3> QED BY <1>3, <2>2, <3>2, <3>4 DEF Quiet, Still
  <2> QED BY <2>1, <2>2
<1> QED BY <1>1, <1>2, <1>4, <1>5

\* An answer without a view, by a call that has not written its last.
LEMMA AnsweredIInv ==
  ASSUME IInv, NEW i \in Slots, calls[i] # None, ~Still(calls[i]),
         NEW code \in AnswerCodes, code = 200 => calls[i].op = "reset",
         code \in {404, 409} => missed, Moves(i, Done(calls[i], code)),
         store' \in Sessions \cup {None}, UNCHANGED <<page, left>>
  PROVE  IInv'
<1> DEFINE x == Done(calls[i], code)
<1>1. calls[i] \in Calls
  BY DEF IInv, TypeOK
<1>2. /\ x \in Calls /\ WellFormed(x) /\ x.awaited = calls[i].awaited
      /\ x.status = code /\ x.at = "done" /\ ~x.settled
  BY <1>1, DoneType
<1>3. calls' = [calls EXCEPT ![i] = x]
  BY DEF Moves
<1> HIDE DEF x
<1>4. MovesTo(calls[i], x)
  BY <1>2 DEF MovesTo
<1> QED BY <1>2, <1>3, <1>4, MoveIInv

LEMMA WrittenIInv ==
  ASSUME IInv, NEW i \in Slots, calls[i] # None, ~Still(calls[i]),
         calls[i].op # "reset", Moves(i, Written(calls[i])),
         store' \in Sessions \cup {None}, UNCHANGED <<page, left>>
  PROVE  IInv'
<1> DEFINE x == Written(calls[i])
<1>1. calls[i] \in Calls
  BY DEF IInv, TypeOK
<1>2. /\ x \in Calls /\ WellFormed(x) /\ x.awaited = calls[i].awaited
      /\ x.status = 0 /\ x.at = "written" /\ ~x.settled
  BY <1>1, WrittenType
<1>3. calls' = [calls EXCEPT ![i] = x]
  BY DEF Moves
<1> HIDE DEF x
<1>4. MovesTo(calls[i], x)
  BY <1>2 DEF MovesTo
<1> QED BY <1>2, <1>3, <1>4, MoveIInv

LEMMA WorksOnIInv ==
  ASSUME IInv, NEW i \in Slots, calls[i] # None, ~Still(calls[i]), calls[i].op \in Kinds,
         NEW s \in Sessions, Moves(i, WorksOn(calls[i], s)),
         store' \in Sessions \cup {None}, UNCHANGED <<page, left>>
  PROVE  IInv'
<1> DEFINE x == WorksOn(calls[i], s)
<1>1. calls[i] \in Calls
  BY DEF IInv, TypeOK
<1>2. /\ x \in Calls /\ WellFormed(x) /\ x.awaited = calls[i].awaited
      /\ x.status = 0 /\ x.at = "running" /\ ~x.settled
  BY <1>1, WorksOnType
<1>3. calls' = [calls EXCEPT ![i] = x]
  BY DEF Moves
<1> HIDE DEF x
<1>4. MovesTo(calls[i], x)
  BY <1>2 DEF MovesTo
<1> QED BY <1>2, <1>3, <1>4, MoveIInv

LEMMA StartResetIInv == ASSUME IInv, NEW i \in Slots, Start(i) \/ Reset(i) PROVE IInv'
<1>1. calls[i] # None /\ ~Still(calls[i]) /\ UNCHANGED <<page, left>>
  BY DEF Start, Reset, Sent, Still
<1>2. store' \in Sessions \cup {None}
  <2>1. Fresh \in Sessions
    BY DEF Fresh, Sessions, Phases
  <2> QED BY <2>1 DEF Start, Reset, TypeOK, IInv
<1>3. CASE Start(i)
  BY <1>1, <1>2, <1>3, WrittenIInv DEF Start, Sent
<1>4. CASE Reset(i)
  BY <1>1, <1>2, <1>4, AnsweredIInv DEF Reset, Sent, AnswerCodes
<1> QED BY <1>3, <1>4

\* The view is read when the work is over.
LEMMA RespondIInv == ASSUME IInv, NEW i \in Slots, Respond(i) PROVE IInv'
<1> DEFINE sure == store # None /\ Quiet(i)
           x == Moved(calls[i], "done", None, 200, ViewOf(store), sure)
<1>1. /\ calls[i] # None /\ calls[i] \in Calls /\ calls[i].op # "reset"
      /\ calls[i].at = "written" /\ store \in Sessions \cup {None}
  BY DEF Respond, IInv, TypeOK
<1>2. calls' = [calls EXCEPT ![i] = x] /\ UNCHANGED <<store, page, left>>
  BY DEF Respond, Moves
<1>3. ViewOf(store) \in Views /\ sure \in BOOLEAN
  BY <1>1, ViewType
<1>4. sure => store # None /\ Quiet(i)
  OBVIOUS
<1> HIDE DEF sure
<1>5. /\ x \in Calls /\ WellFormed(x) /\ x.at = "done" /\ x.status = 200
      /\ x.answer = ViewOf(store) /\ x.settled = sure /\ x.awaited = calls[i].awaited
  BY <1>1, <1>3, RespondedType
<1> HIDE DEF x
<1>6. MovesTo(calls[i], x) /\ Still(x) /\ Still(calls[i])
  BY <1>1, <1>5 DEF MovesTo, Still
<1>7. x.settled => store # None /\ x.answer = ViewOf(store) /\ Quiet(i)
  BY <1>4, <1>5
<1>8. store' = store /\ store' \in Sessions \cup {None} /\ UNCHANGED <<page, left>>
  BY <1>1, <1>2
<1> QED BY <1>1, <1>2, <1>5, <1>6, <1>7, <1>8, MoveIInv

LEMMA EventIInv == ASSUME IInv, NEW i \in Slots, Event(i) PROVE IInv'
<1> USE DEF IInv
<1>1. /\ calls[i] # None /\ calls[i] \in Calls /\ Sent(i, Kinds) /\ calls[i].op \in Kinds
      /\ ~Still(calls[i])
  BY DEF Event, Sent, TypeOK, Still
<1>2. UNCHANGED <<page, left>> /\ store' \in Sessions \cup {None}
  BY DEF Event, TypeOK
<1>3. ASSUME NEW code \in {404, 409}, Moves(i, Done(calls[i], code)),
             store = None \/ calls[i].op \notin Allowed[store.phase]
      PROVE  IInv'
  <2>1. missed
    <3> SUFFICES ASSUME ~missed PROVE FALSE
      OBVIOUS
    <3>1. Shown /\ calls[i].op \in Allowed[view.phase]
      BY <1>1 DEF Told
    <3>2. store # None /\ view.phase = store.phase
      BY <3>1, ShownView DEF Shown
    <3> QED BY <1>3, <3>1, <3>2
  <2> QED BY <1>1, <1>2, <1>3, <2>1, AnsweredIInv DEF AnswerCodes
<1>4. ASSUME store # None, Moves(i, WorksOn(calls[i], store)) PROVE IInv'
  <2>1. store \in Sessions
    BY <1>4 DEF TypeOK
  <2> QED BY <1>1, <1>2, <1>4, <2>1, WorksOnIInv
<1> QED BY <1>3, <1>4 DEF Event

\* Writing a session of a running call.
LEMMA WriteIInv ==
  ASSUME IInv, NEW i \in Slots, Running(i), NEW s \in Sessions, Write(i, s)
  PROVE  IInv'
<1>1. calls[i] # None /\ calls[i].op \in Kinds /\ ~Still(calls[i]) /\ calls[i].op # "reset"
  BY DEF Running, TypeOK, IInv, Kinds, Still
<1>2. UNCHANGED <<page, left>> /\ store' \in Sessions \cup {None}
  BY DEF Write
<1>3. CASE s.owed = None
  <2>1. Moves(i, Written(calls[i]))
    BY <1>3 DEF Write
  <2> QED BY <1>1, <1>2, <2>1, WrittenIInv
<1>4. CASE s.owed # None
  <2>1. Moves(i, WorksOn(calls[i], s))
    BY <1>4 DEF Write
  <2> QED BY <1>1, <1>2, <2>1, WorksOnIInv
<1> QED BY <1>3, <1>4

LEMMA TurnIInv == ASSUME IInv, NEW i \in Slots, Turn(i) PROVE IInv'
<1>1. Running(i) /\ calls[i].copy \in Sessions /\ calls[i].op \in Kinds
  BY DEF IInv, Turn, Running, TypeOK, Calls
<1> DEFINE s == calls[i].copy
           taken == [s EXCEPT !.log = Append(@, "student"), !.owed = calls[i].op]
<1>2. taken \in Sessions
  <2>1. Append(s.log, "student") \in Seq(Roles)
    BY <1>1 DEF Sessions, Roles
  <2> QED BY <1>1, <2>1 DEF Sessions
<1>3. CASE Write(i, taken)
  BY <1>1, <1>2, <1>3, WriteIInv
<1>4. CASE \E t \in Continued(s) : Write(i, t)
  BY <1>1, <1>4, ContinuedType, WriteIInv
<1> QED BY <1>3, <1>4 DEF Turn

LEMMA TurnFailsIInv == ASSUME IInv, NEW i \in Slots, TurnFails(i) PROVE IInv'
<1>1. calls[i] # None /\ ~Still(calls[i]) /\ Moves(i, Done(calls[i], 500))
  BY DEF TurnFails, Running, Still
<1>2. UNCHANGED <<page, left>> /\ store' \in Sessions \cup {None}
  BY DEF TurnFails, TypeOK, IInv
<1> QED BY <1>1, <1>2, AnsweredIInv DEF AnswerCodes

-----------------------------------------------------------------------------
(* How a call ends for the page *)

\* The call the page waits for ends, or is given up, and the page is idle.
LEMMA EndIInv ==
  ASSUME IInv, NEW i \in Slots, Waits(i),
         NEW x \in Calls \cup {None}, WellFormed(x), x # None => ~x.awaited,
         Moves(i, x), busy' = None, UNCHANGED <<store, left>>,
         view' \in Views \cup {None}, error' \in {None, 0, 404, 409, 500, 502, 504},
         chatOpen' \in BOOLEAN, lastTutorCount' \in Nat, missed' \in BOOLEAN,
         ~missed' => Shown' /\ x = None /\ Quiet(i)
  PROVE  IInv'
<1> USE DEF IInv, Moves
<1>1. TypeOK'
  <2>1. /\ calls' \in [Slots -> Calls \cup {None}]
        /\ \A j \in Slots : WellFormed(calls'[j])
    BY PutCall
  <2> QED BY <2>1 DEF TypeOK, WellFormed
<1>2. Single'
  BY SingleEnds
<1>3. Told'
  <2> SUFFICES ASSUME ~missed' PROVE Told'
    BY DEF Told
  <2>1. \A j \in Slots : calls'[j] # None =>
          ~calls'[j].awaited /\ Still(calls'[j]) /\ ~Sent(j, Kinds)'
    BY DEF Quiet, Single, Waits, Still, Sent, TypeOK
  <2>2. busy' # "load"
    BY ClientAssumption
  <2> QED BY <2>1, <2>2 DEF Told
<1>4. StaysSettled'
  BY DEF StaysSettled, Single, Waits, TypeOK
<1> QED BY <1>1, <1>2, <1>3, <1>4

LEMMA FailIInv ==
  ASSUME IInv, NEW i \in Slots, Waits(i),
         NEW x \in Calls \cup {None}, WellFormed(x), x # None => ~x.awaited, Moves(i, x),
         NEW code \in {0, 404, 409, 500, 502, 504}, Fail(code), UNCHANGED <<store, left>>
  PROVE  IInv'
<1>1. /\ view' \in Views \cup {None} /\ chatOpen' \in BOOLEAN /\ lastTutorCount' \in Nat
      /\ error' \in {None, 0, 404, 409, 500, 502, 504}
      /\ busy' = None /\ missed' = TRUE
  BY DEF Fail, IInv, TypeOK
<1> QED BY <1>1, EndIInv

LEMMA NothingIsWellFormed == WellFormed(None)
BY DEF WellFormed

LEMMA ReceiveViewIInv == ASSUME IInv, NEW i \in Slots, ReceiveView(i) PROVE IInv'
<1>1. Waits(i) /\ Moves(i, None) /\ UNCHANGED <<store, left>>
  BY DEF ReceiveView, AnswersView, Answered, Waits, Ends
<1>2. Show(calls[i].answer) /\ missed' = ~calls[i].settled
  BY DEF ReceiveView
<1>3. TypeOK /\ calls[i].answer \in Views /\ calls[i].settled \in BOOLEAN
  BY <1>1 DEF IInv, TypeOK, Calls, Waits, ReceiveView, AnswersView, Answered
<1>4. /\ view' = calls[i].answer /\ busy' = None
      /\ view' \in Views \cup {None} /\ chatOpen' \in BOOLEAN /\ lastTutorCount' \in Nat
      /\ error' \in {error, 0}
  BY <1>2, <1>3, ShowType
<1>5. error' \in {None, 0, 404, 409, 500, 502, 504}
  BY <1>3, <1>4 DEF TypeOK
<1>6. ~missed' => Shown' /\ Quiet(i)
  <2> SUFFICES ASSUME calls[i].settled PROVE Shown' /\ Quiet(i)
    BY <1>2, <1>3
  <2>1. store # None /\ calls[i].answer = ViewOf(store) /\ Quiet(i)
    BY <1>1 DEF IInv, StaysSettled
  <2> QED BY <1>1, <1>4, <2>1 DEF Shown, ViewOf
<1>7. missed' \in BOOLEAN
  BY <1>2, <1>3
<1> QED BY <1>1, <1>4, <1>5, <1>6, <1>7, NothingIsWellFormed, EndIInv

LEMMA ReceiveEmptyIInv == ASSUME IInv, NEW i \in Slots, ReceiveEmpty(i) PROVE IInv'
<1>1. Waits(i) /\ Moves(i, None) /\ UNCHANGED <<store, left>>
  BY DEF ReceiveEmpty, AnswersView, Answered, Waits, Ends
<1>2. Show(None) /\ missed' = TRUE /\ TypeOK
  BY DEF ReceiveEmpty, IInv
<1>3. /\ busy' = None
      /\ view' \in Views \cup {None} /\ chatOpen' \in BOOLEAN /\ lastTutorCount' \in Nat
      /\ error' \in {error, 0}
  BY <1>2, ShowType
<1>4. error' \in {None, 0, 404, 409, 500, 502, 504}
  BY <1>2, <1>3 DEF TypeOK
<1> QED BY <1>1, <1>2, <1>3, <1>4, NothingIsWellFormed, EndIInv

\* onReset's second call takes the place of its first.
LEMMA ReceiveResetIInv == ASSUME IInv, NEW i \in Slots, ReceiveReset(i) PROVE IInv'
<1> DEFINE x == NewCall("start")
<1>1. x \in Calls /\ WellFormed(x)
  BY NewCallType
<1>2. /\ calls[i] # None /\ calls[i].awaited
      /\ calls' = [calls EXCEPT ![i] = x] /\ UNCHANGED <<store, page, left>>
  BY DEF ReceiveReset, Answered, Moves
<1>3. MovesTo(calls[i], x) /\ ~x.settled /\ ~Still(x)
  BY <1>2 DEF NewCall, Kinds, MovesTo, Still
<1>4. store' \in Sessions \cup {None} /\ UNCHANGED <<page, left>>
  BY <1>2 DEF IInv, TypeOK
<1> HIDE DEF x
<1> QED BY <1>1, <1>2, <1>3, <1>4, MoveIInv

LEMMA ReceiveErrorIInv == ASSUME IInv, NEW i \in Slots, ReceiveError(i) PROVE IInv'
<1>1. Waits(i) /\ Moves(i, None) /\ UNCHANGED <<store, left>> /\ Fail(calls[i].status)
  BY DEF ReceiveError, Answered, Waits, Ends
<1>2. calls[i].status \in {0, 404, 409, 500}
  BY DEF ReceiveError, Answered, IInv, TypeOK, Calls
<1> QED BY <1>1, <1>2, NothingIsWellFormed, FailIInv

LEMMA GivenUpIInv ==
  ASSUME IInv, NEW i \in Slots,
         TimeOut(i) \/ Disconnects(i) \/ ProblemFails(i)
  PROVE  IInv'
<1> DEFINE x == [calls[i] EXCEPT !.awaited = FALSE]
<1>1. Waits(i) /\ Moves(i, x) /\ UNCHANGED <<store, left>>
  BY DEF TimeOut, Disconnects, ProblemFails
<1>2. PICK code \in {0, 404, 500, 502, 504} : Fail(code)
  BY DEF TimeOut, Disconnects, ProblemFails
<1>3. calls[i] \in Calls /\ WellFormed(calls[i]) /\ calls[i] # None
  BY <1>1 DEF Waits, IInv, TypeOK, WellFormed
<1>4. x \in Calls /\ WellFormed(x) /\ ~x.awaited
  BY <1>3, GivenUpType
<1> HIDE DEF x
<1> QED BY <1>1, <1>2, <1>4, FailIInv

\* A call nobody waits for is gone.
LEMMA ForgetIInv ==
  ASSUME IInv, NEW i \in Slots, calls[i] # None, ~calls[i].awaited,
         Moves(i, None), UNCHANGED <<store, page, left>>
  PROVE  IInv'
<1> USE DEF IInv, Moves
<1>1. TypeOK'
  <2>1. /\ calls' \in [Slots -> Calls \cup {None}]
        /\ \A j \in Slots : WellFormed(calls'[j])
    BY PutCall, NothingIsWellFormed
  <2> QED BY <2>1 DEF TypeOK, WellFormed, page
<1>2. Single'
  <2>1. \A j \in Slots : Waits(j)' <=> Waits(j)
    BY DEF Waits, TypeOK
  <2> QED BY <2>1 DEF Single, page
<1>3. \A j \in Slots : calls'[j] = IF j = i THEN None ELSE calls[j]
  BY DEF TypeOK
<1>4. Told'
  BY <1>3 DEF Told, page, Sent, Shown, ViewOf, Idle, Still
<1>5. StaysSettled'
  BY <1>3 DEF StaysSettled, Waits, Quiet, ViewOf
<1> QED BY <1>1, <1>2, <1>4, <1>5

LEMMA LostIInv == ASSUME IInv, NEW i \in Slots, Unheard(i) \/ Breaks(i) PROVE IInv'
<1>1. calls[i] # None /\ Moves(i, None) /\ UNCHANGED <<store, left>>
  BY DEF Unheard, Breaks, Ends
<1>2. CASE calls[i].awaited
  <2>1. Waits(i) /\ Fail(502)
    BY <1>1, <1>2 DEF Waits, Unheard, Breaks
  <2> QED BY <1>1, <2>1, NothingIsWellFormed, FailIInv
<1>3. CASE ~calls[i].awaited
  <2>1. UNCHANGED page
    BY <1>3 DEF Unheard, Breaks
  <2> QED BY <1>1, <1>3, <2>1, ForgetIInv
<1> QED BY <1>2, <1>3

-----------------------------------------------------------------------------
(* The theorems *)

LEMMA NextIInv == IInv /\ [Next]_vars => IInv'
<1> SUFFICES ASSUME IInv, [Next]_vars PROVE IInv'
  OBVIOUS
<1>1. CASE Student
  BY <1>1, SendIInv, OnResetIInv, ReloadIInv, PaneIInv DEF Student
<1>2. ASSUME NEW i \in Slots, Serve(i) PROVE IInv'
  BY <1>2, StartResetIInv, EventIInv, TurnIInv, TurnFailsIInv, RespondIInv DEF Serve
<1>3. ASSUME NEW i \in Slots, Receive(i) PROVE IInv'
  BY <1>3, ReceiveViewIInv, ReceiveEmptyIInv, ReceiveResetIInv, ReceiveErrorIInv,
     GivenUpIInv, LostIInv DEF Receive
<1>4. CASE UNCHANGED vars
  BY <1>4 DEF vars, IInv, TypeOK, Single, Told, StaysSettled, Quiet, Waits, Idle, Shown,
         ViewOf, Sent
<1> QED BY <1>1, <1>2, <1>3, <1>4 DEF Next

\* The inductive invariant of the page: what it waits for, and what it may
\* believe after an answer that was settled.
THEOREM PageInvariance == Spec => []IInv
<1> QED BY InitIInv, NextIInv, PTL DEF Spec

\* The variables of the page and of the calls keep their types.
THEOREM PageTypeCorrect == Spec => []TypeOK
<1>1. IInv => TypeOK
  BY DEF IInv
<1> QED BY <1>1, PageInvariance, PTL

\* The busy flag is up exactly while the page waits for one call.
THEOREM BusyIsWaiting == Spec => []BusyWhileAwaiting
<1>1. IInv => BusyWhileAwaiting
  <2> SUFFICES ASSUME IInv PROVE BusyWhileAwaiting
    OBVIOUS
  <2> DEFINE awaited == {i \in Slots : Waits(i)}
  <2>1. busy # None <=> awaited # {}
    BY DEF IInv, Single
  <2>2. Cardinality(awaited) <= 1
    <3>1. CASE awaited = {}
      BY <3>1, FS_EmptySet
    <3>2. CASE awaited # {}
      <4>1. PICK i \in awaited : TRUE
        BY <3>2
      <4>2. awaited = {i}
        BY <4>1 DEF IInv, Single
      <4> QED BY <4>2, FS_Singleton
    <3> QED BY <3>1, <3>2
  <2> QED BY <2>1, <2>2 DEF BusyWhileAwaiting
<1> QED BY <1>1, PageInvariance, PTL

\* An idle page whose last answer was settled shows the session as stored, however
\* long the answer took and whatever a reload had left behind.
THEOREM IdleIsCurrent == Spec => []IdlePageIsCurrent
<1>1. IInv => IdlePageIsCurrent
  BY DEF IInv, Told, Shown, IdlePageIsCurrent
<1> QED BY <1>1, PageInvariance, PTL

\* A student meets a conflict only after an answer that was missed or not settled:
\* the controls that are enabled and the events that are accepted are the same.
THEOREM ConflictMeansBehind == Spec => ConflictOnlyWhenBehind
<1>1. IInv /\ [Next]_vars => [error' # error /\ error' \in {404, 409} => missed]_vars
  <2> SUFFICES ASSUME IInv, Next, error' # error, error' \in {404, 409}, ~missed PROVE FALSE
    OBVIOUS
  <2>0. error' # 0 /\ error' # None /\ error' # 502 /\ error' # 504
    BY ClientAssumption
  <2>1. PICK i \in Slots : Receive(i)
    <3>1. ASSUME NEW kind \in Kinds, Send(kind) PROVE FALSE
      BY <2>0, <3>1 DEF Send, Begin
    <3>2. CASE OnReset
      BY <2>0, <3>2 DEF OnReset, Begin
    <3>3. CASE Reload \/ OpenOrCloseChat \/ Dismiss
      BY <2>0, <3>3 DEF Reload, OpenOrCloseChat, Dismiss
    <3>4. ASSUME NEW i \in Slots, Serve(i) PROVE FALSE
      BY <3>4 DEF Serve, Start, Reset, Event, Turn, Write, TurnFails, Respond, page
    <3> QED BY <3>1, <3>2, <3>3, <3>4 DEF Next, Student
  <2>2. CASE ReceiveView(i) \/ ReceiveEmpty(i)
    BY <2>0, <2>2 DEF ReceiveView, ReceiveEmpty, Show
  <2>3. CASE ReceiveError(i)
    <3>1. calls[i] # None /\ calls[i].awaited /\ calls[i].status = error'
      BY <2>3 DEF ReceiveError, Answered, Fail
    <3> QED BY <3>1 DEF IInv, Told
  <2>4. CASE ProblemFails(i)
    BY <2>4 DEF ProblemFails, IInv, Told
  <2>5. CASE ReceiveReset(i) \/ Unheard(i) \/ TimeOut(i) \/ Breaks(i)
    BY <2>0, <2>5 DEF ReceiveReset, Unheard, TimeOut, Breaks, Fail, page
  <2>6. CASE Disconnects(i)
    <3>1. error' \in {0, 502}
      BY <2>6 DEF Disconnects, Fail
    <3> QED BY <2>0, <3>1
  <2> QED BY <2>1, <2>2, <2>3, <2>4, <2>5, <2>6 DEF Receive
<1> QED BY <1>1, PageInvariance, PTL DEF Spec, ConflictOnlyWhenBehind

=============================================================================
