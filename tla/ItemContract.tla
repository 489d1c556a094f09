---------------------------- MODULE ItemContract ----------------------------
(***************************************************************************)
(* What a queue item promises to the rest of the monitor, whatever tick,   *)
(* sync, reconcile, operator and crashes do: where it stands, how its      *)
(* account moves, and when a worker may begin for it.  TaskLifecycle       *)
(* implements it.                                                          *)
(***************************************************************************)
EXTENDS Naturals, TLAPS

CONSTANT Launches

VARIABLES
    place,      \* it waits, is in a slot, is out of the queue's work, or is over
    released,   \* an operator has taken it out of its slot
    account,    \* state of its quota
    begun,      \* launches that have begun
    work        \* those whose worker is still at work

vars == <<place, released, account, begun, work>>

Places == {"waits", "in", "out", "over"}
Accounts == {"pending", "claimed", "settled", "refunded", "superseded"}

Init ==
    /\ place = "waits"
    /\ released = FALSE
    /\ account = "pending"
    /\ begun = {} /\ work = {}

\* Workers may end at any step.
Wane == work' \subseteq work /\ UNCHANGED begun

\* The task the executor has chosen itself may have taken the account over.
Followed == {account, "superseded"}
Closed(end) == {IF a \in {"pending", "claimed"} THEN end ELSE a : a \in Followed}

\* A launch begins in the slot, after all others, with no worker at work.
Begin(l) ==
    /\ place = "in"
    /\ work = {}
    /\ \A k \in begun : k < l
    /\ begun' = begun \cup {l}
    /\ work' \subseteq {l}
    /\ UNCHANGED <<place, released, account>>

\* It gets its slot, and pays for it unless this account was used before.
Claim ==
    /\ place = "waits"
    /\ place' = "in"
    /\ account' = IF account = "pending" THEN "claimed" ELSE account
    /\ UNCHANGED released /\ Wane

\* It turns out to be still going, or is looked at and stays where it is.
Follow ==
    /\ place # "over"
    /\ place' \in {place, "in"}
    /\ account' \in Followed \cup Closed("refunded")
    /\ UNCHANGED released /\ Wane

\* An attempt that is given up keeps no claim.
GiveUp ==
    /\ place # "over"
    /\ place' \in {"waits", "out"}
    /\ account' \in Closed("refunded")
    /\ UNCHANGED released /\ Wane

Release ==
    /\ place = "in"
    /\ place' = "out"
    /\ released' = TRUE
    /\ UNCHANGED account /\ Wane

\* Only success settles the account, and success is the end.
Complete ==
    /\ place # "over"
    /\ place' = "over"
    /\ account' \in Closed("settled")
    /\ UNCHANGED released /\ Wane

\* Only a retry opens a new account.
Retry ==
    /\ place \in {"waits", "out"}
    /\ place' = "waits"
    /\ released' = FALSE
    /\ account' = "pending"
    /\ Wane

Drop ==
    /\ place \in {"waits", "out"}
    /\ place' \in {"out", "over"}
    /\ UNCHANGED <<released, account>> /\ Wane

\* The worker ends, nothing else changes; the one step an item that is over takes.
End == UNCHANGED <<place, released, account>> /\ Wane

Next ==
    \/ \E l \in Launches : Begin(l)
    \/ Claim \/ Follow \/ GiveUp \/ Release \/ Complete \/ Retry \/ Drop \/ End

Spec == Init /\ [][Next]_vars

-----------------------------------------------------------------------------
(* What follows from the contract                                          *)

\* No more than one worker is at work, and each has begun.
WorkersBegan == work \subseteq begun /\ \A k, l \in work : k = l

\* A settled account is that of an item that is over.
SettledIsOver == account = "settled" => place = "over"

\* A claim is held by an item in its slot, or by one an operator released.
ClaimHeld == account = "claimed" => place \in {"in", "over"} \/ released

Promise == WorkersBegan /\ SettledIsOver /\ ClaimHeld

\* Whatever implements the contract has one worker at a time, settles with the
\* end only, and leaves no claim behind unless an operator took the slot.
THEOREM PromiseKept == Spec => []Promise
<1>. USE DEF Promise, WorkersBegan, SettledIsOver, ClaimHeld
<1>1. Init => Promise
  BY DEF Init
<1>2. Promise /\ [Next]_vars => Promise'
  <2>. SUFFICES ASSUME Promise, [Next]_vars PROVE Promise'
    OBVIOUS
  <2>1. ASSUME NEW l \in Launches, Begin(l) PROVE Promise'
    BY <2>1 DEF Begin
  <2>2. CASE Claim
    BY <2>2 DEF Claim, Wane
  <2>3. CASE Follow \/ GiveUp
    BY <2>3 DEF Follow, GiveUp, Wane, Followed, Closed
  <2>4. CASE Complete
    BY <2>4 DEF Complete, Wane, Followed, Closed
  <2>5. CASE Release \/ Retry \/ Drop \/ End
    BY <2>5 DEF Release, Retry, Drop, End, Wane
  <2>6. CASE UNCHANGED vars
    BY <2>6 DEF vars
  <2>. QED BY <2>1, <2>2, <2>3, <2>4, <2>5, <2>6 DEF Next
<1>. QED BY <1>1, <1>2, PTL DEF Spec
=============================================================================
