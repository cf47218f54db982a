-------------------------- MODULE AuthMockupProofs --------------------------
(***************************************************************************)
(* For any number of states and callbacks and any life time: the types,    *)
(* the bound on what the map keeps, and that the mock-up implements        *)
(* LoginPromise.  The invariant says that a state is at one place only: in *)
(* the map, in the hand of one callback, or behind both.                   *)
(***************************************************************************)
EXTENDS AuthMockup, TLAPS

Holds(c, s) == state[c] = s /\ pc[c] \in {"exchange", "userinfo"}

\* A state in the map was issued then and was not accepted yet.
PendingIsUnused ==
  \A s \in States : pending[s] # None =>
    /\ issued[s] = pending[s]
    /\ s \notin profiles
    /\ \A c \in Callbacks : ~Holds(c, s)

\* A state is in one hand at most, and not there any more once it has its profile.
OneHand ==
  \A s \in States, c \in Callbacks : Holds(c, s) =>
    /\ issued[s] # None
    /\ s \notin profiles
    /\ \A d \in Callbacks : Holds(d, s) => d = c

ProfilesWereIssued == \A s \in profiles : issued[s] # None

IInv == TypeOK /\ PendingIsUnused /\ OneHand /\ ProfilesWereIssued /\ OnlyOneTtlKept

-----------------------------------------------------------------------------
LEMMA InitIInv == Init => IInv
  BY AuthAssumption
     DEF Init, IInv, TypeOK, PendingIsUnused, OneHand, ProfilesWereIssued,
         OnlyOneTtlKept, Holds, Answers

LEMMA NextIInv == IInv /\ [Next]_vars => IInv'
<1> SUFFICES ASSUME IInv, [Next]_vars PROVE IInv'
  OBVIOUS
<1> USE AuthAssumption
<1> USE DEF IInv, TypeOK, PendingIsUnused, OneHand, ProfilesWereIssued, OnlyOneTtlKept,
            Holds, Answers
<1>1. CASE Tick                BY <1>1 DEF Tick
<1>2. CASE Restart             BY <1>2 DEF Restart
<1>3. ASSUME NEW s \in States, Login(s) PROVE IInv'
  <2>1. Sweep(pending) \in [States -> (0 .. now) \cup {None}]
    BY DEF Sweep
  <2>2. \A r \in States : r # s => pending'[r] \in {pending[r], None}
    BY <1>3, <2>1 DEF Login, Sweep
  <2>3. pending'[s] = now /\ issued'[s] = now /\ now' = now
    BY <1>3, <2>1 DEF Login
  <2>4. pending' \in [States -> (0 .. now) \cup {None}]
    BY <1>3, <2>1 DEF Login
  <2>5. TypeOK'
    BY <1>3, <2>4 DEF Login
  <2>6. PendingIsUnused' /\ OneHand' /\ ProfilesWereIssued'
    BY <1>3, <2>2, <2>3, <2>4 DEF Login
  <2>7. OnlyOneTtlKept'
    <3>1. ASSUME NEW r \in States, r # s, pending'[r] # None
          PROVE  pending'[r] = pending[r] /\ now - pending[r] < STATE_TTL
      BY <1>3, <2>1, <3>1 DEF Login, Sweep, Expired
    <3> QED BY <1>3, <2>3, <2>4, <2>5, <3>1 DEF Login
  <2> QED BY <2>5, <2>6, <2>7
<1>4. ASSUME NEW c \in Callbacks, Arrive(c) PROVE IInv'
  BY <1>4 DEF Arrive
<1>5. ASSUME NEW c \in Callbacks, ArriveWithout(c) PROVE IInv'
  BY <1>5 DEF ArriveWithout
<1>6. ASSUME NEW c \in Callbacks, Check(c) PROVE IInv'
  <2>1. TypeOK' /\ ProfilesWereIssued' /\ OnlyOneTtlKept'
    BY <1>6 DEF Check
  <2>2. PendingIsUnused' /\ OneHand'
    BY <1>6 DEF Check
  <2> QED BY <2>1, <2>2
<1>7. ASSUME NEW c \in Callbacks, Exchange(c) PROVE IInv'
  BY <1>7 DEF Exchange
<1>8. ASSUME NEW c \in Callbacks, UserInfo(c) PROVE IInv'
  <2>1. state[c] \in States /\ Holds(c, state[c])
    BY <1>8 DEF UserInfo
  <2>2. TypeOK' /\ OnlyOneTtlKept'
    BY <1>8, <2>1 DEF UserInfo
  <2>3. PendingIsUnused' /\ OneHand' /\ ProfilesWereIssued'
    BY <1>8, <2>1 DEF UserInfo
  <2> QED BY <2>2, <2>3
<1>9. CASE UNCHANGED vars      BY <1>9 DEF vars
<1> QED BY <1>1, <1>2, <1>3, <1>4, <1>5, <1>6, <1>7, <1>8, <1>9 DEF Next, Handle

\* The inductive invariant holds in every reachable state.
THEOREM AuthInvariance == Spec => []IInv
  BY InitIInv, NextIInv, PTL DEF Spec

\* Every variable stays in its range, and a callback at work has a state.
THEOREM AuthTypeCorrect == Spec => []TypeOK
<1>1. IInv => TypeOK BY DEF IInv
<1> QED BY <1>1, AuthInvariance, PTL

\* The map keeps no state that had expired at the last login.
THEOREM SweepTheorem == Spec => []OnlyOneTtlKept
<1>1. IInv => OnlyOneTtlKept BY DEF IInv
<1> QED BY <1>1, AuthInvariance, PTL

-----------------------------------------------------------------------------
(* The mock-up implements LoginPromise *)

Lives == [s \in States |-> Life(s)]

LEMMA InitMaps == Init => Promise!Init
  BY DEF Init, Promise!Init, Life

LEMMA StepMaps == IInv /\ IInv' /\ [Next]_vars => [Promise!Next]_Lives
<1> SUFFICES ASSUME IInv, IInv', [Next]_vars PROVE Promise!Next \/ Lives' = Lives
  BY DEF Lives
<1> USE AuthAssumption
<1>a. ASSUME \A s \in States : Life(s)' = Life(s) PROVE Lives' = Lives
  BY <1>a DEF Lives
<1>b. ASSUME \A s \in States : \/ Life(s)' = Life(s)
                               \/ (Life(s) \in {"issued", "accepted"} /\ Life(s)' = "void")
      PROVE  Promise!Next
  <2> DEFINE gone == {s \in States : Life(s) # Life(s)'}
  <2>1. gone \in SUBSET {s \in States : Lives[s] \in {"issued", "accepted"}}
    BY <1>b DEF Lives
  <2>2. Lives' = [s \in States |-> IF s \in gone THEN "void" ELSE Lives[s]]
    BY <1>b DEF Lives
  <2>3. Promise!Lapse
    BY <2>1, <2>2 DEF Promise!Lapse, Lives
  <2> QED BY <2>3 DEF Promise!Next
<1>1. CASE Tick
  <2>1. ASSUME NEW s \in States
        PROVE  \/ Life(s)' = Life(s)
               \/ (Life(s) \in {"issued", "accepted"} /\ Life(s)' = "void")
    <3>1. UNCHANGED <<pending, issued, profiles>> /\ (InHand(s)' <=> InHand(s))
      BY <1>1 DEF Tick, InHand
    <3>2. ASSUME pending[s] # None, Expired(pending[s]) PROVE Expired(pending[s])'
      BY <1>1, <3>2 DEF Tick, Expired, IInv, TypeOK
    <3> QED BY <3>1, <3>2 DEF Life
  <2> QED BY <2>1, <1>b
<1>2. CASE Restart
  <2>1. ASSUME NEW s \in States
        PROVE  \/ Life(s)' = Life(s)
               \/ (Life(s) \in {"issued", "accepted"} /\ Life(s)' = "void")
    <3>1. ~InHand(s)'
      BY <1>2 DEF Restart, InHand, Answers, IInv, TypeOK
    <3>2. pending'[s] = None /\ issued' = issued /\ profiles' = profiles
      BY <1>2 DEF Restart
    <3> QED BY <3>1, <3>2 DEF Life
  <2> QED BY <2>1, <1>b
<1>3. ASSUME NEW s \in States, Login(s) PROVE Promise!Next
  <2>1. ASSUME NEW r \in States, r # s PROVE Life(r)' = Life(r)
    BY <1>3, <2>1 DEF Login, Sweep, Life, InHand, Expired, IInv, TypeOK
  <2>2. Life(s) = "new"
    BY <1>3 DEF Login, Life
  <2>3. Life(s)' = "issued"
    <3>1. issued'[s] = now /\ pending'[s] = now /\ now' = now /\ profiles' = profiles
      BY <1>3 DEF Login, Sweep, IInv, TypeOK
    <3>2. s \notin profiles /\ ~InHand(s)
      BY <1>3 DEF Login, IInv, ProfilesWereIssued, OneHand, Holds, InHand
    <3>3. ~InHand(s)'
      BY <1>3, <3>2 DEF Login, InHand
    <3> QED BY <3>1, <3>2, <3>3 DEF Life, Expired, IInv, TypeOK
  <2>4. Promise!Issue(s)
    BY <2>1, <2>2, <2>3 DEF Promise!Issue, Promise!Turn, Lives
  <2> QED BY <2>4 DEF Promise!Next
<1>4. ASSUME NEW c \in Callbacks, Arrive(c) \/ ArriveWithout(c) PROVE Lives' = Lives
  <2>1. ASSUME NEW s \in States PROVE InHand(s)' <=> InHand(s)
    BY <1>4 DEF Arrive, ArriveWithout, InHand, IInv, TypeOK
  <2>2. UNCHANGED <<now, pending, issued, profiles>>
    BY <1>4 DEF Arrive, ArriveWithout
  <2> QED BY <2>1, <2>2, <1>a DEF Life, Expired
<1>5. ASSUME NEW c \in Callbacks, Check(c) PROVE Promise!Next \/ Lives' = Lives
  <2>1. PICK s \in States : s = state[c]
    BY <1>5 DEF Check, IInv, TypeOK
  <2>2. ASSUME NEW r \in States, r # s PROVE Life(r)' = Life(r)
    <3>1. InHand(r)' <=> InHand(r)
      BY <1>5, <2>1, <2>2 DEF Check, InHand, IInv, TypeOK
    <3>2. pending'[r] = pending[r] /\ UNCHANGED <<now, issued, profiles>>
      BY <1>5, <2>1, <2>2 DEF Check, IInv, TypeOK
    <3> QED BY <3>1, <3>2 DEF Life, Expired
  <2>3. CASE pending[s] = None \/ Expired(pending[s])
    <3>1. InHand(s)' <=> InHand(s)
      BY <1>5, <2>1, <2>3 DEF Check, InHand, IInv, TypeOK
    <3>2. pending'[s] = None /\ UNCHANGED <<now, issued, profiles>>
      BY <1>5, <2>1 DEF Check, IInv, TypeOK
    <3>3. Life(s)' = Life(s)
      BY <2>3, <3>1, <3>2 DEF Life
    <3> QED BY <2>2, <3>3, <1>a
  <2>4. CASE ~(pending[s] = None \/ Expired(pending[s]))
    <3>1. Life(s) = "issued"
      BY <2>1, <2>4 DEF Life, InHand, IInv, PendingIsUnused, Holds
    <3>2. InHand(s)'
      BY <1>5, <2>1, <2>4 DEF Check, InHand, IInv, TypeOK
    <3>3. Life(s)' = "accepted"
      BY <1>5, <2>1, <2>4, <3>2 DEF Check, Life, IInv, PendingIsUnused
    <3>4. Promise!Accept(s)
      BY <2>1, <2>2, <3>1, <3>3 DEF Promise!Accept, Promise!Turn, Lives
    <3> QED BY <2>1, <3>4 DEF Promise!Next
  <2> QED BY <2>3, <2>4
<1>6. ASSUME NEW c \in Callbacks, Exchange(c) \/ UserInfo(c)
      PROVE  Promise!Next \/ Lives' = Lives
  <2>1. PICK s \in States : s = state[c] /\ Holds(c, s)
    BY <1>6 DEF Exchange, UserInfo, IInv, TypeOK, Holds
  <2>2. Life(s) = "accepted"
    BY <2>1 DEF Life, InHand, IInv, OneHand, Holds
  <2>3. UNCHANGED <<now, pending, issued, state>>
    BY <1>6 DEF Exchange, UserInfo
  <2>4. ASSUME NEW r \in States, r # s PROVE Life(r)' = Life(r)
    <3>1. InHand(r)' <=> InHand(r)
      BY <1>6, <2>1, <2>3, <2>4 DEF Exchange, UserInfo, InHand, IInv, TypeOK
    <3>2. r \in profiles' <=> r \in profiles
      BY <1>6, <2>1, <2>4 DEF Exchange, UserInfo
    <3> QED BY <2>3, <3>1, <3>2 DEF Life, Expired
  <2>5. Life(s)' \in {"accepted", "void", "signed in"}
    <3>1. pending[s] = None /\ issued[s] # None
      BY <2>1 DEF IInv, PendingIsUnused, OneHand
    <3> QED BY <2>3, <3>1 DEF Life
  <2>6. CASE Life(s)' = "signed in"
    <3>1. Promise!SignIn(s)
      BY <2>1, <2>2, <2>4, <2>6 DEF Promise!SignIn, Promise!Turn, Lives
    <3> QED BY <2>1, <3>1 DEF Promise!Next
  <2>7. CASE Life(s)' # "signed in"
    BY <2>2, <2>4, <2>5, <2>7, <1>b
  <2> QED BY <2>6, <2>7
<1>7. CASE UNCHANGED vars
  <2>1. \A s \in States : Life(s)' = Life(s)
    BY <1>7 DEF vars, Life, InHand, Expired
  <2> QED BY <2>1, <1>a
<1> QED BY <1>1, <1>2, <1>3, <1>4, <1>5, <1>6, <1>7 DEF Next, Handle

\* A state is accepted at most once, only while it lives, and only an accepted one
\* ends in a profile, for any number of concurrent callbacks.
THEOREM LoginTheorem == Spec => KeepsLoginPromise
<1>1. Init => Promise!Init
  BY InitMaps
<1>2. IInv /\ IInv' /\ [Next]_vars => [Promise!Next]_Lives
  BY StepMaps
<1> QED BY <1>1, <1>2, AuthInvariance, PTL DEF Spec, KeepsLoginPromise, Promise!Spec, Lives
=============================================================================
