-------------------------------- MODULE Leases --------------------------------
(***************************************************************************)
(* Rows that workers lease: dreams, cron runs, push deliveries and         *)
(* embedding jobs share one discipline.  A claim takes a queued row, or a  *)
(* running row whose lease went stale, and gives it a new epoch; whoever   *)
(* writes the row afterwards must name its owner and its epoch.            *)
(*                                                                         *)
(* The claims order the rows by available_at; here any claimable row may   *)
(* be taken.  Time is two flags: ready (available_at has passed) and stale *)
(* (locked_at is older than the lease timeout), which Elapse raises at any *)
(* moment: a holder may be paused for as long as it takes.                 *)
(***************************************************************************)
EXTENDS Naturals, FiniteSets

CONSTANTS
  Slots,        \* worker tasks, each with at most one lease in hand
  OwnerOf,      \* OwnerOf[w]: the lease owner id of the process w runs in
  NoOwner,      \* no lease owner
  MaxAttempts   \* claims a bounded row is given (3 in the code)

ASSUME LeaseAssumption ==
  /\ MaxAttempts \in Nat \ {0}
  /\ IsFiniteSet(Slots) /\ DOMAIN OwnerOf = Slots
  /\ \A w \in Slots : OwnerOf[w] # NoOwner

-----------------------------------------------------------------------------
LeaseOwners == {OwnerOf[w] : w \in Slots}

\* The columns of a leased row that its discipline reads or writes.
Row(status, limit) ==
  [status : status, attempts : 0..limit, epoch : 0..limit,
   owner : LeaseOwners \cup {NoOwner}, ready : BOOLEAN, stale : BOOLEAN]

NoRow ==
  [status |-> "none", attempts |-> 0, epoch |-> 0, owner |-> NoOwner,
   ready |-> FALSE, stale |-> FALSE]

\* available_at is the time of the insert, or later when the row must wait.
NewRow(ready) == [NoRow EXCEPT !.status = "queued", !.ready = ready]

Takeable(r) ==
  \/ r.status = "queued" /\ r.ready
  \/ r.status = "running" /\ r.stale

Taken(r, w) ==
  [r EXCEPT !.status = "running", !.attempts = @ + 1, !.epoch = @ + 1,
            !.owner = OwnerOf[w], !.stale = FALSE]

\* What a worker keeps of a claim: DreamLease, CronLease, PushDeliveryLease.
LeaseOf(r) == [owner |-> r.owner, epoch |-> r.epoch]

Holds(r, lease) ==
  r.status = "running" /\ r.owner = lease.owner /\ r.epoch = lease.epoch

Renewed(r) == [r EXCEPT !.stale = FALSE]

Released(r, status) ==
  [r EXCEPT !.status = status, !.owner = NoOwner, !.stale = FALSE]

Requeued(r, ready) == [Released(r, "queued") EXCEPT !.ready = ready]

\* Rows whose final attempt was lost: the claim settles them as failed.
Spent(r) == Takeable(r) /\ r.attempts >= MaxAttempts

Swept(rows) ==
  [i \in DOMAIN rows |->
     IF Spent(rows[i]) THEN Released(rows[i], "failed") ELSE rows[i]]

\* A failed attempt: back to the queue, or failed for good.
Failed(r) ==
  IF r.attempts >= MaxAttempts THEN Released(r, "failed") ELSE Requeued(r, FALSE)

Elapse(r) ==
  [r EXCEPT !.ready = @ \/ r.status = "queued", !.stale = @ \/ r.status = "running"]
=============================================================================
