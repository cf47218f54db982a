----------------------------- MODULE WebClient -----------------------------
(***************************************************************************)
(* The page (web/app/page.tsx) in front of the gateway                     *)
(* (gateway/src/main.rs): what the page shows, the one busy flag that      *)
(* disables its controls, and calls that may outlive the page's interest   *)
(* in them.  The gateway keeps nothing; it is the ways a call can end for  *)
(* the page: with the orchestrator's answer, with a timeout while the      *)
(* orchestrator goes on, with a broken connection, with an empty body.     *)
(*                                                                         *)
(* Abstraction.  The orchestrator is module Orchestrator in short: an      *)
(* event is checked and loads the session in one step, a turn takes the    *)
(* message in, computes and writes on its own copy, and a turn that fails  *)
(* leaves what is still owed to the next event.  A message is its role.    *)
(* The view an answer brings is read when the work is over, and shown when *)
(* the page has it, with any steps of other calls in between and after.    *)
(* One page, one student, one problem: the thread id derive_thread_id      *)
(* makes of them is one thread.                                            *)
(***************************************************************************)
EXTENDS Naturals, FiniteSets, SequencesExt

CONSTANTS
  Slots,      \* calls that may be under way together
  MaxActions, \* bound: what the student does (submit, chat, reset, reload)
  None        \* null

Kinds  == {"logic", "chat", "code"}
Roles  == {"student", "tutor", "system"}
Phases == {"LOGIC", "CODE", "DONE"}

\* A stored session; "owed" is what its unfinished turn has still to do.
Sessions == [phase : Phases, log : Seq(Roles), owed : Kinds \cup {None}]
Views    == [phase : Phases, log : Seq(Roles)]
Fresh    == [phase |-> "LOGIC", log |-> << >>, owed |-> None]

\* A call the page made: where it is, the session a turn works on, the answer
\* (its status and the view it brings), history: whether no other call could
\* outdate that any more when it was given, and whether the page still waits.
Calls == [op : Kinds \cup {"start", "reset"},
          at : {"sent", "running", "written", "done"}, copy : Sessions \cup {None},
          status : {0, 200, 404, 409, 500}, answer : Views \cup {None},
          settled : BOOLEAN, awaited : BOOLEAN]

\* What the proofs need of None: it is none of the values it stands beside.
ASSUME ClientAssumption ==
  /\ MaxActions \in Nat
  /\ None \notin Kinds \cup {"reset", "load"}
  /\ None \notin {0, 404, 409, 500, 502, 504}
  /\ None \notin Sessions
  /\ None \notin Views
  /\ None \notin Calls

VARIABLES
  store,          \* the session as stored, or None
  calls,          \* the calls under way
  view,           \* the session the page shows, or None
  busy,           \* what it is busy with, or None
  error,          \* the status in the error bar (0: no status), or None
  chatOpen,       \* whether the chat panel is open
  lastTutorCount, \* tutor messages in the view the page looked at last
  missed,         \* history: whether there may be something the page was not
                  \* told, because an answer did not bring a view or brought one
                  \* that was not settled
  left            \* what the student may still do

page == <<view, busy, error, chatOpen, lastTutorCount, missed>>
vars == <<store, calls, view, busy, error, chatOpen, lastTutorCount, missed, left>>

NewCall(op) ==
  [op |-> op, at |-> "sent", copy |-> None, status |-> 0, answer |-> None,
   settled |-> FALSE, awaited |-> TRUE]

Moves(i, call) == calls' = [calls EXCEPT ![i] = call]

\* One invariant for the types; the calls that run are events, and each has the
\* session it loaded; a view comes with a 200 to a start or an event.
TypeOK ==
  /\ store \in Sessions \cup {None}
  /\ calls \in [Slots -> Calls \cup {None}]
  /\ \A i \in Slots : calls[i] # None =>
       /\ calls[i].at = "running" <=> calls[i].copy # None
       /\ calls[i].at = "running" => calls[i].op \in Kinds
       /\ calls[i].at = "written" => calls[i].op # "reset"
       /\ calls[i].answer # None <=>
            calls[i].at = "done" /\ calls[i].status = 200 /\ calls[i].op # "reset"
  /\ view \in Views \cup {None}
  /\ busy \in Kinds \cup {"reset", "load", None}
  /\ error \in {None, 0, 404, 409, 500, 502, 504}
  /\ chatOpen \in BOOLEAN
  /\ lastTutorCount \in Nat
  /\ missed \in BOOLEAN
  /\ left \in Nat

\* The page is opened for the first time: it asks for the session.
Init ==
  /\ store = None
  /\ \E i \in Slots : calls = [j \in Slots |-> IF j = i THEN NewCall("start") ELSE None]
  /\ view = None
  /\ busy = "load"
  /\ error = None
  /\ chatOpen = FALSE
  /\ lastTutorCount = 0
  /\ missed = TRUE
  /\ left = MaxActions

-----------------------------------------------------------------------------
(* What the student can do *)

Idle == busy = None

\* Mutant: the chat is disabled while busy only.
OffersChatWhenDone ==
  LET phase == IF view = None THEN "LOGIC" ELSE view.phase
  IN  {"chat"} \cup (IF phase = "LOGIC" THEN {"logic"} ELSE {}) \cup
      (IF phase = "CODE" THEN {"code"} ELSE {})

\* The controls that are enabled while the page is idle: the pane of the
\* phase (LOGIC without a view), and the chat; none of them when done.
Offers ==
  LET phase == IF view = None THEN "LOGIC" ELSE view.phase
  IN  CASE phase = "LOGIC" -> {"logic", "chat"}
        [] phase = "CODE"  -> {"code", "chat"}
        [] OTHER           -> {}

Begin(kind, op) ==
  /\ left > 0
  /\ left' = left - 1
  /\ busy' = kind
  /\ error' = None
  /\ \E i \in Slots : calls[i] = None /\ Moves(i, NewCall(op))

Send(kind) ==
  /\ Idle
  /\ kind \in Offers
  /\ kind = "chat" => chatOpen
  /\ Begin(kind, kind)
  /\ UNCHANGED <<store, view, chatOpen, lastTutorCount, missed>>

\* Mutant: the reset button is not disabled.
OnResetAnyTime ==
  /\ Begin("reset", "reset")
  /\ UNCHANGED <<store, view, chatOpen, lastTutorCount, missed>>

OnReset ==
  /\ Idle
  /\ Begin("reset", "reset")
  /\ UNCHANGED <<store, view, chatOpen, lastTutorCount, missed>>

\* The page is gone with all it waited for; the calls go on without it.
Reload ==
  LET unheard == [i \in Slots |-> IF calls[i] = None THEN None
                                  ELSE [calls[i] EXCEPT !.awaited = FALSE]]
  IN  /\ left > 0
      /\ left' = left - 1
      /\ \E i \in Slots : calls[i] = None /\ calls' = [unheard EXCEPT ![i] = NewCall("start")]
      /\ view' = None
      /\ busy' = "load"
      /\ error' = None
      /\ chatOpen' = FALSE
      /\ lastTutorCount' = 0
      /\ missed' = TRUE
      /\ UNCHANGED store

OpenOrCloseChat ==
  /\ chatOpen' = ~chatOpen
  /\ UNCHANGED <<store, calls, view, busy, error, lastTutorCount, missed, left>>

Dismiss ==
  /\ error # None
  /\ error' = None
  /\ UNCHANGED <<store, calls, view, busy, chatOpen, lastTutorCount, missed, left>>

-----------------------------------------------------------------------------
(* The orchestrator *)

Sent(i, ops) == calls[i] # None /\ calls[i].at = "sent" /\ calls[i].op \in ops

\* The call moves on; who waits for it does not change.
Moved(call, at, copy, status, answer, settled) ==
  [op |-> call.op, at |-> at, copy |-> copy, status |-> status, answer |-> answer,
   settled |-> settled, awaited |-> call.awaited]

\* The orchestrator has answered without a view; what a turn worked on is gone.
Done(call, code) == Moved(call, "done", None, code, None, FALSE)

\* The turn works on s.
WorksOn(call, s) == Moved(call, "running", s, 0, None, FALSE)

\* All is written, and the view is still to be read.
Written(call) == Moved(call, "written", None, 0, None, FALSE)

\* An existing session is resumed.
Start(i) ==
  /\ Sent(i, {"start"})
  /\ store' = IF store = None THEN Fresh ELSE store
  /\ Moves(i, Written(calls[i]))
  /\ UNCHANGED <<page, left>>

Reset(i) ==
  /\ Sent(i, {"reset"})
  /\ store' = None
  /\ Moves(i, Done(calls[i], 200))
  /\ UNCHANGED <<page, left>>

Allowed == [LOGIC |-> {"logic", "chat"}, CODE |-> {"code", "chat"}, DONE |-> {}]

\* Mutant: the session is not loaded before the turn begins.
EventLoadsNothing(i) ==
  /\ Sent(i, Kinds)
  /\ store # None /\ calls[i].op \in Allowed[store.phase]
  /\ Moves(i, WorksOn(calls[i], None))
  /\ UNCHANGED <<store, page, left>>

Event(i) ==
  /\ Sent(i, Kinds)
  /\ \/ store = None /\ Moves(i, Done(calls[i], 404))
     \/ /\ store # None /\ calls[i].op \notin Allowed[store.phase]
        /\ Moves(i, Done(calls[i], 409))
     \/ /\ store # None /\ calls[i].op \in Allowed[store.phase]
        /\ Moves(i, WorksOn(calls[i], store))
  /\ UNCHANGED <<store, page, left>>

\* What one more step of the turn of s can make of it.  A rejected
\* description or a failed run still owes the student a tutor's reply.
Continued(s) ==
  CASE s.owed = "logic" -> {[s EXCEPT !.owed = "chat"],
                            [phase |-> "CODE", log |-> Append(s.log, "system"), owed |-> None]}
    [] s.owed = "chat"  -> {[s EXCEPT !.log = Append(@, "tutor"), !.owed = None]}
    [] s.owed = "code"  -> {[s EXCEPT !.log = Append(@, "system"), !.owed = "chat"],
                            [s EXCEPT !.log = Append(@, "system"), !.owed = None],
                            [phase |-> "DONE", log |-> s.log \o <<"system", "system">>,
                             owed |-> None]}
    [] OTHER -> {}

Running(i) == calls[i] # None /\ calls[i].at = "running"

\* The turn's copy becomes s and is written, over whatever is there.
Write(i, s) ==
  /\ store' = s
  /\ Moves(i, IF s.owed = None THEN Written(calls[i]) ELSE WorksOn(calls[i], s))
  /\ UNCHANGED <<page, left>>

\* A session that owes nothing takes the message in; one that does owe the
\* end of an earlier turn is brought to that end, and the message is lost.
Turn(i) ==
  /\ Running(i)
  /\ LET s == calls[i].copy
     IN  \/ /\ s.owed = None
            /\ Write(i, [s EXCEPT !.log = Append(@, "student"), !.owed = calls[i].op])
         \/ \E t \in Continued(s) : Write(i, t)

TurnFails(i) ==
  /\ Running(i)
  /\ Moves(i, Done(calls[i], 500))
  /\ UNCHANGED <<store, page, left>>

\* The view of a thread without a checkpoint is an empty one.
ViewOf(s) == IF s = None THEN [phase |-> "LOGIC", log |-> << >>]
                         ELSE [phase |-> s.phase, log |-> s.log]

\* Nothing but call i can still write to the session.
Quiet(i) == \A j \in Slots \ {i} : calls[j] # None => calls[j].at \in {"written", "done"}

\* _view reads the state once more, and answers with what is there by now: after
\* the last write of this call, but perhaps not the last of another one.
Respond(i) ==
  /\ calls[i] # None /\ calls[i].at = "written"
  /\ Moves(i, Moved(calls[i], "done", None, 200, ViewOf(store), store # None /\ Quiet(i)))
  /\ UNCHANGED <<store, page, left>>

-----------------------------------------------------------------------------
(* How a call ends for the page *)

Tutors(v) == Cardinality({k \in DOMAIN v.log : v.log[k] = "tutor"})

\* fail, in the catch and finally of every handler.
Fail(code) ==
  /\ error' = code
  /\ busy' = None
  /\ missed' = TRUE
  /\ UNCHANGED <<view, chatOpen, lastTutorCount>>

\* setView and the effect it triggers, which compares the tutor messages with
\* a count and opens the chat for a new one.  It skips a view that is null.
Display(v, count, open) ==
  /\ view' = v
  /\ chatOpen' = (open \/ (v # None /\ Tutors(v) > count))
  /\ lastTutorCount' = IF v = None THEN count ELSE Tutors(v)

\* Mutant: the view that the second call of a reset brings is not used.
ShowKeepsOldSession(v) ==
  /\ busy' = None
  /\ \/ busy = "reset" /\ Display(view, 0, FALSE) /\ UNCHANGED error
     \/ busy = "load" /\ v = None /\ Display(v, lastTutorCount, chatOpen) /\ error' = 0
     \/ busy = "load" /\ v # None /\ Display(v, Tutors(v), chatOpen) /\ UNCHANGED error
     \/ busy \in Kinds /\ Display(v, lastTutorCount, chatOpen) /\ UNCHANGED error

\* What load, send and onReset do with the answer that ends them.  Without a
\* view, load raises when it counts the messages.
Show(v) ==
  /\ busy' = None
  /\ \/ busy = "reset" /\ Display(v, 0, FALSE) /\ UNCHANGED error
     \/ busy = "load" /\ v = None /\ Display(v, lastTutorCount, chatOpen) /\ error' = 0
     \/ busy = "load" /\ v # None /\ Display(v, Tutors(v), chatOpen) /\ UNCHANGED error
     \/ busy \in Kinds /\ Display(v, lastTutorCount, chatOpen) /\ UNCHANGED error

Ends(i) == Moves(i, None)

Answered(i, ok) == calls[i] # None /\ calls[i].at = "done" /\ (calls[i].status = 200) = ok

AnswersView(i) == Answered(i, TRUE) /\ calls[i].op # "reset" /\ calls[i].awaited

\* The view shown is the one that was read for this answer, whatever has been
\* written since.  A load shows it when the problem has arrived as well.
ReceiveView(i) ==
  /\ AnswersView(i)
  /\ Show(calls[i].answer)
  /\ missed' = ~calls[i].settled
  /\ Ends(i)
  /\ UNCHANGED <<store, left>>

\* The body breaks off: the gateway passes the status on with an empty body,
\* which api.ts reads as null.
ReceiveEmpty(i) ==
  /\ AnswersView(i)
  /\ Show(None)
  /\ missed' = TRUE
  /\ Ends(i)
  /\ UNCHANGED <<store, left>>

\* onReset goes on with its second call.
ReceiveReset(i) ==
  /\ Answered(i, TRUE)
  /\ calls[i].op = "reset" /\ calls[i].awaited
  /\ Moves(i, NewCall("start"))
  /\ UNCHANGED <<store, page, left>>

ReceiveError(i) ==
  /\ Answered(i, FALSE)
  /\ calls[i].awaited
  /\ Fail(calls[i].status)
  /\ Ends(i)
  /\ UNCHANGED <<store, left>>

\* An answer nobody waits for.
Unheard(i) ==
  /\ calls[i] # None /\ calls[i].at = "done" /\ ~calls[i].awaited
  /\ Ends(i)
  /\ UNCHANGED <<store, page, left>>

Waits(i) == calls[i] # None /\ calls[i].awaited

\* Mutant: the timeout is one for connecting only.
TimeOutConnecting(i) ==
  /\ Waits(i)
  /\ calls[i].at = "sent"
  /\ Fail(504)
  /\ Moves(i, [calls[i] EXCEPT !.awaited = FALSE])
  /\ UNCHANGED <<store, left>>

\* 120 s are over: the gateway gives up, the orchestrator does not.
TimeOut(i) ==
  /\ Waits(i)
  /\ Fail(504)
  /\ Moves(i, [calls[i] EXCEPT !.awaited = FALSE])
  /\ UNCHANGED <<store, left>>

\* A connection breaks, the browser's (0) or the gateway's (502), and the
\* orchestrator goes on.
Disconnects(i) ==
  /\ Waits(i)
  /\ \E code \in {0, 502} : Fail(code)
  /\ Moves(i, [calls[i] EXCEPT !.awaited = FALSE])
  /\ UNCHANGED <<store, left>>

\* The orchestrator is not reached, or dies with the call.
Breaks(i) ==
  /\ calls[i] # None
  /\ Ends(i)
  /\ IF calls[i].awaited THEN Fail(502) ELSE UNCHANGED page
  /\ UNCHANGED <<store, left>>

\* Promise.all: the problem cannot be had, so the session is not shown.
ProblemFails(i) ==
  /\ busy = "load"
  /\ Waits(i)
  /\ \E code \in {0, 404, 500, 502, 504} : Fail(code)
  /\ Moves(i, [calls[i] EXCEPT !.awaited = FALSE])
  /\ UNCHANGED <<store, left>>

-----------------------------------------------------------------------------
Student ==
  \/ \E kind \in Kinds : Send(kind)
  \/ OnReset
  \/ Reload
  \/ OpenOrCloseChat
  \/ Dismiss

Serve(i) ==
  \/ Start(i)
  \/ Reset(i)
  \/ Event(i)
  \/ Turn(i)
  \/ TurnFails(i)
  \/ Respond(i)

Receive(i) ==
  \/ ReceiveView(i)
  \/ ReceiveEmpty(i)
  \/ ReceiveReset(i)
  \/ ReceiveError(i)
  \/ Unheard(i)
  \/ TimeOut(i)
  \/ Disconnects(i)
  \/ Breaks(i)
  \/ ProblemFails(i)

Next == Student \/ \E i \in Slots : Serve(i) \/ Receive(i)

Spec == Init /\ [][Next]_vars

\* The gateway's http client ends every call after 120 s.  Nothing is assumed
\* of the orchestrator, which may be slower than that.
FairSpec == Spec /\ WF_vars(\E i \in Slots : TimeOut(i))

-----------------------------------------------------------------------------
\* The busy flag is what keeps the page from having two requests of its own
\* under way: it is up exactly while one call is waited for, and never two,
\* over both calls of a reset, failures, reloads and late answers.
BusyWhileAwaiting ==
  LET awaited == {i \in Slots : Waits(i)}
  IN  /\ busy # None <=> awaited # {}
      /\ Cardinality(awaited) <= 1

\* An idle page whose last answer was settled shows the session as it is stored,
\* however long the answer took to arrive: what it left behind in a reload, a
\* timeout or a lost connection, and may still write, would have unsettled it.
IdlePageIsCurrent == Idle /\ ~missed => view = ViewOf(store)

\* The controls the page enables and the events the orchestrator accepts are
\* the same: a student is told 404 or 409 only after an answer that was missed, or
\* that another call of this page could still outdate when it was given.
ConflictOnlyWhenBehind ==
  [][error' # error /\ error' \in {404, 409} => missed]_vars

\* The page never stays busy for good, however slow the orchestrator is.
BusyEnds == busy # None ~> busy = None
=============================================================================
