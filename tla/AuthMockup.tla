----------------------------- MODULE AuthMockup -----------------------------
(***************************************************************************)
(* The OAuth login of auth_mockup/src/main.rs: the states it has issued    *)
(* and not yet seen again, in memory, and the callbacks that bring one     *)
(* back, concurrently.  Each takes its state under the lock and calls the  *)
(* provider twice without it.  Time is a counter; a login state may be     *)
(* used for STATE_TTL units of it.                                         *)
(***************************************************************************)
EXTENDS Naturals, FiniteSets

CONSTANTS
  States,     \* the random values CsrfToken::new_random can give, each once
  Callbacks,  \* requests to /api/auth/callback that can be under way
  STATE_TTL,  \* 10 minutes
  MaxTime,    \* bound: the clock stops here
  None

ASSUME AuthAssumption ==
  /\ STATE_TTL \in Nat \ {0} /\ MaxTime \in Nat
  /\ None \notin States \cup Nat

VARIABLES
  now,      \* the clock
  pending,  \* the map of AppState: when each state was issued, or None
  issued,   \* history: when each state was issued, by any process
  pc,       \* where each callback is
  state,    \* the state it brought
  profiles  \* history: states that ended in a profile

vars == <<now, pending, issued, pc, state, profiles>>

Answers == {"200", "400", "502", "reset"}

TypeOK ==
  /\ now \in 0 .. MaxTime
  /\ pending \in [States -> (0 .. now) \cup {None}]
  /\ issued \in [States -> (0 .. now) \cup {None}]
  /\ pc \in [Callbacks -> {"none", "check", "exchange", "userinfo"} \cup Answers]
  /\ state \in [Callbacks -> States \cup {None}]
  /\ \A c \in Callbacks : pc[c] \in {"check", "exchange", "userinfo"} => state[c] # None
  /\ profiles \subseteq States

Init ==
  /\ now = 0
  /\ pending = [s \in States |-> None] /\ issued = [s \in States |-> None]
  /\ pc = [c \in Callbacks |-> "none"] /\ state = [c \in Callbacks |-> None]
  /\ profiles = {}

Tick ==
  /\ now < MaxTime
  /\ now' = now + 1
  /\ UNCHANGED <<pending, issued, pc, state, profiles>>

Expired(at) == now - at >= STATE_TTL

\* Mutant: nothing is swept.
NoSweep(p) == p

Sweep(p) == [s \in States |-> IF p[s] # None /\ Expired(p[s]) THEN None ELSE p[s]]

\* Under the lock: the expired states go, a fresh one comes in.
Login(s) ==
  /\ issued[s] = None
  /\ pending' = [Sweep(pending) EXCEPT ![s] = now]
  /\ issued'  = [issued EXCEPT ![s] = now]
  /\ UNCHANGED <<now, pc, state, profiles>>

\* The provider sends the browser back, any number of times, with any state.
Arrive(c) ==
  /\ pc[c] = "none"
  /\ \E s \in States : state' = [state EXCEPT ![c] = s]
  /\ pc' = [pc EXCEPT ![c] = "check"]
  /\ UNCHANGED <<now, pending, issued, profiles>>

\* Mutant: a callback without a state is looked up all the same.
LookUpWithout(c) ==
  /\ pc[c] = "none"
  /\ pc' = [pc EXCEPT ![c] = "check"]
  /\ UNCHANGED <<now, pending, issued, state, profiles>>

\* With ?error=, or without ?code= or ?state=, nothing is looked up.
ArriveWithout(c) ==
  /\ pc[c] = "none"
  /\ pc' = [pc EXCEPT ![c] = "400"]
  /\ UNCHANGED <<now, pending, issued, state, profiles>>

\* Mutant: the state is looked up, and removed only when it has expired.
CheckLeavesState(c) ==
  /\ pc[c] = "check"
  /\ LET s == state[c] IN
     /\ pending' = IF pending[s] # None /\ Expired(pending[s])
                   THEN [pending EXCEPT ![s] = None] ELSE pending
     /\ IF pending[s] = None \/ Expired(pending[s])
        THEN pc' = [pc EXCEPT ![c] = "400"]
        ELSE pc' = [pc EXCEPT ![c] = "exchange"]
  /\ UNCHANGED <<now, issued, state, profiles>>

\* Under the lock: whatever comes of it, the state is used up.
Check(c) ==
  /\ pc[c] = "check"
  /\ LET s == state[c] IN
     /\ pending' = [pending EXCEPT ![s] = None]
     /\ IF pending[s] = None \/ Expired(pending[s])
        THEN pc' = [pc EXCEPT ![c] = "400"]
        ELSE pc' = [pc EXCEPT ![c] = "exchange"]
  /\ UNCHANGED <<now, issued, state, profiles>>

\* The code for a token, and the token for a profile; each fails as 502.
Exchange(c) ==
  /\ pc[c] = "exchange"
  /\ \E next \in {"userinfo", "502"} : pc' = [pc EXCEPT ![c] = next]
  /\ UNCHANGED <<now, pending, issued, state, profiles>>

UserInfo(c) ==
  /\ pc[c] = "userinfo"
  /\ \/ pc' = [pc EXCEPT ![c] = "200"] /\ profiles' = profiles \cup {state[c]}
     \/ pc' = [pc EXCEPT ![c] = "502"] /\ UNCHANGED profiles
  /\ UNCHANGED <<now, pending, issued, state>>

\* The map is in memory, and the connections break.
Restart ==
  /\ pending' = [s \in States |-> None]
  /\ pc' = [c \in Callbacks |-> IF pc[c] \in {"none"} \cup Answers THEN pc[c] ELSE "reset"]
  /\ UNCHANGED <<now, issued, state, profiles>>

Handle(c) == Check(c) \/ Exchange(c) \/ UserInfo(c)

Next == \/ Tick \/ Restart
        \/ \E s \in States : Login(s)
        \/ \E c \in Callbacks : Arrive(c) \/ ArriveWithout(c) \/ Handle(c)

Spec == Init /\ [][Next]_vars
-----------------------------------------------------------------------------
(* Properties *)

\* A state that is still kept although it has expired was alive at the last login:
\* each login sweeps all that went before, so the map holds no more than the states
\* of one STATE_TTL before it (main.rs:160-162).
OnlyOneTtlKept ==
  \A s, t \in States :
    pending[s] # None /\ issued[t] # None /\ issued[t] >= pending[s]
      => issued[t] - pending[s] < STATE_TTL

InHand(s) == \E c \in Callbacks : state[c] = s /\ pc[c] \in {"exchange", "userinfo"}

Life(s) == IF issued[s] = None THEN "new"
           ELSE IF s \in profiles THEN "signed in"
           ELSE IF InHand(s) THEN "accepted"
           ELSE IF pending[s] # None /\ ~Expired(pending[s]) THEN "issued" ELSE "void"

\* However callbacks with one state interleave, between them and with time, logins
\* and restarts, the mock-up implements LoginPromise: a state is accepted once at
\* most, before it expires, whether or not the exchange then succeeds, and no
\* profile is fetched without it (main.rs:220-234).
Promise == INSTANCE LoginPromise WITH life <- [s \in States |-> Life(s)]
KeepsLoginPromise == Promise!Spec
=============================================================================
