---------------------------- MODULE LoginPromise ----------------------------
(***************************************************************************)
(* What /api/auth promises of a state parameter (auth_mockup/README.md:    *)
(* 96-108): it is one that was issued, it is accepted at most once, within *)
(* its life time, and only an accepted one can end in a profile.           *)
(***************************************************************************)
CONSTANT States

VARIABLE life   \* of each state: "new", "issued", "accepted", "signed in" or "void"

Init == life = [s \in States |-> "new"]

Turn(s, from, to) == life[s] \in from /\ life' = [life EXCEPT ![s] = to]

Issue(s)  == Turn(s, {"new"}, "issued")
Accept(s) == Turn(s, {"issued"}, "accepted")
SignIn(s) == Turn(s, {"accepted"}, "signed in")

\* Any number of states can lapse at once, in a sweep or a restart.
Lapse == \E gone \in SUBSET {s \in States : life[s] \in {"issued", "accepted"}} :
           life' = [s \in States |-> IF s \in gone THEN "void" ELSE life[s]]

Next == Lapse \/ \E s \in States : Issue(s) \/ Accept(s) \/ SignIn(s)

Spec == Init /\ [][Next]_life
=============================================================================
