------------------------------ MODULE LeasedWork ------------------------------
(***************************************************************************)
(* What a bounded work queue promises: an item is tried at most MaxTries   *)
(* times, a result is final, and an item is given up only after its last   *)
(* permitted try.  Leases, owners, epochs and time do not appear.          *)
(***************************************************************************)
EXTENDS Naturals

CONSTANTS Items, MaxTries

VARIABLE work   \* work[i]: what became of item i and how often it was tried

WorkTypeOK ==
  work \in [Items -> [state : {"absent", "open", "done", "dead"},
                      tries : 0..MaxTries]]

WorkInit == work = [i \in Items |-> [state |-> "absent", tries |-> 0]]

Add(i) ==
  /\ work[i].state = "absent"
  /\ work' = [work EXCEPT ![i].state = "open"]

\* An item added and tried at once (a manual trigger).
AddAndTry(i) ==
  /\ work[i].state = "absent"
  /\ work' = [work EXCEPT ![i] = [state |-> "open", tries |-> 1]]

Finish(i) ==
  /\ work[i].state = "open" /\ work[i].tries > 0
  /\ work' = [work EXCEPT ![i].state = "done"]

GiveUpOn(dead) ==
  [i \in Items |-> IF i \in dead THEN [work[i] EXCEPT !.state = "dead"]
                                 ELSE work[i]]

Spendable == {i \in Items : work[i].state = "open" /\ work[i].tries = MaxTries}

\* A claim gives up on spent items and tries at most one other item.
Claim ==
  \E dead \in SUBSET Spendable :
    \/ work' = GiveUpOn(dead)
    \/ \E i \in Items \ dead :
         /\ work[i].state = "open" /\ work[i].tries < MaxTries
         /\ work' = [GiveUpOn(dead) EXCEPT ![i].tries = @ + 1]

WorkNext ==
  \/ \E i \in Items : Add(i) \/ AddAndTry(i) \/ Finish(i)
  \/ Claim

WorkSpec == WorkInit /\ [][WorkNext]_work
=============================================================================
