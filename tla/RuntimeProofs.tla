---------------------------- MODULE RuntimeProofs ----------------------------
(***************************************************************************)
(* Proofs about the work that runs beside the turns: the scheduler, the    *)
(* dream queue and the push outbox, for any number of worker slots, rows,  *)
(* fires, devices and retries; the actors of an agent tree, for any number *)
(* of actors, restarts and incarnations; and what dreams learn, for any    *)
(* number of runs, sessions and turns.  The first three rest on the same   *)
(* facts about leased rows, which come first.                              *)
(***************************************************************************)
EXTENDS DreamQueue, CronScheduler, PushOutbox, ActorTree, PolicyEvolution,
        FiniteSetTheorems, SequenceTheorems, TLAPS

-----------------------------------------------------------------------------
(* Leased rows.                                                            *)

\* Every claim raises the attempts and the epoch together, and only a claim
\* takes a row out of the queue.
RowOK(r) ==
    /\ r.epoch = r.attempts
    /\ r.status = "none" => r.attempts = 0
    /\ r.status \in {"running", "completed", "delivered"} => r.attempts > 0

WorkRow == Row(DreamStatus, MaxAttempts)

\* What the bounded work queue sees of a row.
Abs(r) == [state |-> CASE r.status = "none" -> "absent"
                       [] r.status = "completed" -> "done"
                       [] r.status = "failed" -> "dead"
                       [] OTHER -> "open",
           tries |-> r.attempts]

View(rows) == [i \in DOMAIN rows |-> Abs(rows[i])]

\* LeasedWork's next-state relation, or a stutter, from one view to another.
Put(a, i, x) == [j \in DOMAIN a |-> IF j = i THEN x ELSE a[j]]

Buried(a, dead) ==
    [i \in DOMAIN a |-> IF i \in dead THEN [state |-> "dead", tries |-> a[i].tries] ELSE a[i]]

WorkStep(I, a, b) ==
    \/ \E i \in I : /\ a[i].state = "absent"
                    /\ b = Put(a, i, [state |-> "open", tries |-> a[i].tries])
    \/ \E i \in I : /\ a[i].state = "absent"
                    /\ b = Put(a, i, [state |-> "open", tries |-> 1])
    \/ \E i \in I : /\ a[i].state = "open" /\ a[i].tries > 0
                    /\ b = Put(a, i, [state |-> "done", tries |-> a[i].tries])
    \/ \E dead \in SUBSET {i \in I : a[i].state = "open" /\ a[i].tries = MaxAttempts} :
         \/ b = Buried(a, dead)
         \/ \E i \in I \ dead :
              /\ a[i].state = "open" /\ a[i].tries < MaxAttempts
              /\ b = Put(Buried(a, dead), i, [state |-> "open", tries |-> a[i].tries + 1])
    \/ b = a

\* What the operations of Leases make of a row, field by field.
LEMMA TakenRow ==
    ASSUME NEW st, NEW n \in Nat, NEW r \in Row(st, n), NEW w \in Slots,
           "running" \in st, RowOK(r), r.attempts < n
    PROVE  /\ Taken(r, w) \in Row(st, n)
           /\ RowOK(Taken(r, w))
           /\ Taken(r, w).status = "running"
           /\ Taken(r, w).attempts = r.attempts + 1
           /\ Taken(r, w).epoch = r.epoch + 1
           /\ Taken(r, w).owner = OwnerOf[w]
           /\ OwnerOf[w] \in LeaseOwners
  <1>1. OwnerOf[w] \in LeaseOwners
    BY DEF LeaseOwners
  <1>2. OwnerOf[w] \in LeaseOwners \cup {NoOwner}
    BY <1>1
  <1>3. r.attempts + 1 \in 0..n /\ r.epoch + 1 \in 0..n /\ r.ready \in BOOLEAN
    BY DEF Row, RowOK
  <1>4. /\ Taken(r, w).status = "running" /\ Taken(r, w).attempts = r.attempts + 1
        /\ Taken(r, w).epoch = r.epoch + 1 /\ Taken(r, w).owner = OwnerOf[w]
    BY DEF Taken, Row
  <1>5. Taken(r, w) \in Row(st, n)
    BY <1>2, <1>3 DEF Taken, Row
  <1>6. r.attempts \in Nat /\ r.epoch = r.attempts
    BY DEF Row, RowOK
  <1> QED
    BY <1>1, <1>4, <1>5, <1>6 DEF RowOK

\* Releasing a lease keeps the row's type and its count of attempts.
LEMMA ReleasedRow ==
    ASSUME NEW st, NEW n \in Nat, NEW r \in Row(st, n), NEW s \in st,
           RowOK(r), r.status # "none", s # "none", r.attempts > 0 \/ s \in {"queued", "failed"}
    PROVE  /\ Released(r, s) \in Row(st, n)
           /\ RowOK(Released(r, s))
           /\ Released(r, s).status = s
           /\ Released(r, s).attempts = r.attempts
           /\ Released(r, s).epoch = r.epoch
  BY DEF Released, Row, RowOK

\* Requeueing keeps the row's type and its count of attempts.
LEMMA RequeuedRow ==
    ASSUME NEW st, NEW n \in Nat, NEW r \in Row(st, n), NEW b \in BOOLEAN,
           "queued" \in st, RowOK(r)
    PROVE  /\ Requeued(r, b) \in Row(st, n)
           /\ RowOK(Requeued(r, b))
           /\ Requeued(r, b).status = "queued"
           /\ Requeued(r, b).attempts = r.attempts
           /\ Requeued(r, b).epoch = r.epoch
  BY DEF Requeued, Released, Row, RowOK

\* A heartbeat changes nothing but the time the lease has left.
LEMMA RenewedRow ==
    ASSUME NEW st, NEW n \in Nat, NEW r \in Row(st, n), RowOK(r)
    PROVE  /\ Renewed(r) \in Row(st, n)
           /\ RowOK(Renewed(r))
           /\ Renewed(r).status = r.status
           /\ Renewed(r).attempts = r.attempts
           /\ Renewed(r).epoch = r.epoch
           /\ Renewed(r).owner = r.owner
  BY DEF Renewed, Row, RowOK

\* Time passing changes nothing but the time the lease has left.
LEMMA ElapsedRow ==
    ASSUME NEW st, NEW n \in Nat, NEW r \in Row(st, n), RowOK(r)
    PROVE  /\ Elapse(r) \in Row(st, n)
           /\ RowOK(Elapse(r))
           /\ Elapse(r).status = r.status
           /\ Elapse(r).attempts = r.attempts
           /\ Elapse(r).epoch = r.epoch
           /\ Elapse(r).owner = r.owner
  <1>1. (r.ready \/ r.status = "queued") \in BOOLEAN /\ (r.stale \/ r.status = "running") \in BOOLEAN
    BY DEF Row
  <1> QED
    BY <1>1 DEF Elapse, Row, RowOK

\* A row just inserted, and one that is not there, are rows.
LEMMA FreshRow ==
    ASSUME NEW st, NEW n \in Nat, NEW b \in BOOLEAN, "queued" \in st, "none" \in st
    PROVE  /\ NewRow(b) \in Row(st, n) /\ RowOK(NewRow(b))
           /\ NewRow(b).status = "queued" /\ NewRow(b).attempts = 0 /\ NewRow(b).epoch = 0
           /\ NoRow \in Row(st, n) /\ RowOK(NoRow)
           /\ NoRow.status = "none" /\ NoRow.attempts = 0 /\ NoRow.epoch = 0
  <1>1. 0 \in 0..n
    OBVIOUS
  <1>2. NoOwner \in LeaseOwners \cup {NoOwner}
    OBVIOUS
  <1>5. NoRow \in Row(st, n)
    BY <1>1, <1>2 DEF NoRow, Row
  <1>7. ASSUME NEW r \in Row(st, n)
        PROVE  LET q == [r EXCEPT !.status = "queued", !.ready = b]
               IN  /\ q \in Row(st, n) /\ q.status = "queued" /\ q.attempts = r.attempts
                   /\ q.epoch = r.epoch
    BY DEF Row
  <1>8. NoRow.attempts = 0 /\ NoRow.epoch = 0
    BY DEF NoRow
  <1>3. NewRow(b).status = "queued" /\ NewRow(b).attempts = 0 /\ NewRow(b).epoch = 0
    BY <1>5, <1>7, <1>8 DEF NewRow
  <1>4. NewRow(b) \in Row(st, n)
    BY <1>5, <1>7 DEF NewRow
  <1>6. RowOK(NewRow(b))
    BY <1>3 DEF RowOK
  <1> QED
    BY <1>3, <1>4, <1>5, <1>6 DEF NoRow, RowOK

\* A failed attempt requeues the row while attempts are left, and fails it after.
LEMMA FailedRow ==
    ASSUME NEW st, NEW n \in Nat, NEW r \in Row(st, n), "queued" \in st, "failed" \in st,
           RowOK(r), r.status = "running", MaxAttempts \in Nat
    PROVE  /\ Failed(r) \in Row(st, n)
           /\ RowOK(Failed(r))
           /\ Failed(r).status = IF r.attempts >= MaxAttempts THEN "failed" ELSE "queued"
           /\ Failed(r).attempts = r.attempts
           /\ Failed(r).epoch = r.epoch
  <1>3. r.attempts > 0 /\ r.attempts \in Nat
    BY DEF RowOK, Row
  <1>1. CASE r.attempts >= MaxAttempts
    <2>1. Failed(r) = Released(r, "failed")
      BY <1>1 DEF Failed
    <2> QED
      BY <1>1, <1>3, <2>1, ReleasedRow
  <1>2. CASE ~(r.attempts >= MaxAttempts)
    <2>1. Failed(r) = Requeued(r, FALSE)
      BY <1>2 DEF Failed
    <2> QED
      BY <1>2, <2>1, RequeuedRow, ZenonT(30)
  <1> QED
    BY <1>1, <1>2

\* The rows of the two bounded queues.
LEMMA FreshWorkRow ==
    ASSUME NEW b \in BOOLEAN
    PROVE  /\ NewRow(b) \in WorkRow /\ RowOK(NewRow(b))
           /\ NewRow(b).status = "queued" /\ NewRow(b).attempts = 0 /\ NewRow(b).epoch = 0
           /\ NoRow \in WorkRow /\ RowOK(NoRow)
           /\ NoRow.status = "none" /\ NoRow.attempts = 0 /\ NoRow.epoch = 0
  <1>1. "queued" \in DreamStatus /\ "none" \in DreamStatus /\ MaxAttempts \in Nat
    BY LeaseAssumption DEF DreamStatus
  <1> QED
    BY <1>1, FreshRow DEF WorkRow

-----------------------------------------------------------------------------
(* What an operation on one row is for the bounded work queue.             *)

\* The view of a table with one row replaced.
LEMMA ViewTouched ==
    ASSUME NEW I, NEW rows \in [I -> WorkRow], NEW i \in I, NEW r,
           NEW q, q = Put(rows, i, r)
    PROVE  /\ View(q) = Put(View(rows), i, Abs(r))
           /\ DOMAIN View(rows) = I
           /\ \A j \in I : View(rows)[j] = Abs(rows[j])
  BY DEF View, Put

\* A row whose state and attempts stay is no step at all.
LEMMA SameStep ==
    ASSUME NEW I, NEW rows \in [I -> WorkRow], NEW i \in I, NEW r,
           NEW q, q = Put(rows, i, r),
           r.status = rows[i].status
             \/ (r.status = "queued" /\ rows[i].status = "running"),
           r.attempts = rows[i].attempts
    PROVE  WorkStep(I, View(rows), View(q))
  <1>1. Abs(r) = Abs(rows[i])
    BY DEF Abs
  <1>2. View(q) = View(rows)
    BY <1>1 DEF View, Put
  <1> QED
    BY <1>2 DEF WorkStep

\* A row inserted, by itself or by a trigger that claims it at once.
LEMMA AddStep ==
    ASSUME NEW I, NEW rows \in [I -> WorkRow], NEW i \in I, NEW r,
           NEW q, q = Put(rows, i, r),
           rows[i].status = "none",
           \/ r.status = "queued" /\ r.attempts = rows[i].attempts
           \/ r.status = "running" /\ r.attempts = 1
    PROVE  WorkStep(I, View(rows), View(q))
  <1>1. /\ Abs(rows[i]) = [state |-> "absent", tries |-> rows[i].attempts]
        /\ Abs(r) = [state |-> "open", tries |-> r.attempts]
    BY DEF Abs
  <1>2. View(q) = Put(View(rows), i, Abs(r)) /\ View(rows)[i] = Abs(rows[i])
    BY ViewTouched
  <1> QED
    BY <1>1, <1>2 DEF WorkStep

\* A completion by the holder of the lease.
LEMMA FinishStep ==
    ASSUME NEW I, NEW rows \in [I -> WorkRow], NEW i \in I, NEW r,
           NEW q, q = Put(rows, i, r),
           rows[i].status = "running", RowOK(rows[i]),
           r.status = "completed", r.attempts = rows[i].attempts
    PROVE  WorkStep(I, View(rows), View(q))
  <1>1. /\ Abs(rows[i]) = [state |-> "open", tries |-> rows[i].attempts]
        /\ Abs(r) = [state |-> "done", tries |-> rows[i].attempts]
        /\ rows[i].attempts > 0
    BY DEF Abs, RowOK
  <1>2. View(q) = Put(View(rows), i, Abs(r)) /\ View(rows)[i] = Abs(rows[i])
    BY ViewTouched
  <1> QED
    BY <1>1, <1>2 DEF WorkStep

\* A failure on the last attempt gives the item up.
LEMMA BuryStep ==
    ASSUME NEW I, NEW rows \in [I -> WorkRow], NEW i \in I, NEW r,
           NEW q, q = Put(rows, i, r),
           rows[i].status \in {"running", "queued"}, rows[i].attempts = MaxAttempts,
           r.status = "failed", r.attempts = rows[i].attempts
    PROVE  WorkStep(I, View(rows), View(q))
  <1> DEFINE a == View(rows)
  <1>1. /\ Abs(rows[i]) = [state |-> "open", tries |-> MaxAttempts]
        /\ Abs(r) = [state |-> "dead", tries |-> MaxAttempts]
    BY DEF Abs
  <1>2. /\ View(q) = Put(a, i, Abs(r)) /\ a[i] = Abs(rows[i])
        /\ DOMAIN a = I
    BY ViewTouched
  <1> HIDE DEF a
  <1>3. View(q) = Buried(a, {i})
    BY <1>1, <1>2 DEF Buried, Put
  <1>4. {i} \in SUBSET {j \in I : a[j].state = "open" /\ a[j].tries = MaxAttempts}
    BY <1>1, <1>2
  <1>5. WorkStep(I, a, View(q))
    BY <1>3, <1>4 DEF WorkStep
  <1> QED
    BY <1>5 DEF a

\* A sweep gives up spent items; a claim also tries one that is not spent.
LEMMA SweptRows ==
    ASSUME NEW I, NEW rows \in [I -> WorkRow], \A j \in I : RowOK(rows[j]), NEW q, q = Swept(rows)
    PROVE  /\ q \in [I -> WorkRow]
           /\ \A j \in I : /\ RowOK(q[j]) /\ q[j].epoch = rows[j].epoch
                           /\ q[j].attempts = rows[j].attempts
                           /\ q[j] = rows[j] \/ q[j].status = "failed"
                           /\ q[j].status = "none" <=> rows[j].status = "none"
                           /\ Spent(rows[j]) =>
                                /\ rows[j].status \in {"queued", "running"}
                                /\ rows[j].attempts = MaxAttempts /\ q[j].status = "failed"
                           /\ ~Spent(rows[j]) => q[j] = rows[j]
  <1>1. ASSUME NEW j \in I, Spent(rows[j])
        PROVE  /\ rows[j].status \in {"queued", "running"} /\ rows[j].attempts = MaxAttempts
               /\ Released(rows[j], "failed") \in WorkRow /\ RowOK(Released(rows[j], "failed"))
               /\ Released(rows[j], "failed").status = "failed"
               /\ Released(rows[j], "failed").attempts = rows[j].attempts
               /\ Released(rows[j], "failed").epoch = rows[j].epoch
    <2>1. rows[j].status \in {"queued", "running"} /\ rows[j].attempts = MaxAttempts
      BY <1>1, LeaseAssumption DEF Spent, Takeable, WorkRow, Row
    <2>2. "failed" \in DreamStatus
      BY DEF DreamStatus
    <2> QED
      BY <1>1, <2>1, <2>2, ReleasedRow, LeaseAssumption DEF WorkRow
  <1>2. q = [j \in I |-> IF Spent(rows[j]) THEN Released(rows[j], "failed") ELSE rows[j]]
    BY DEF Swept
  <1>3. ASSUME NEW j \in I
        PROVE  /\ q[j] \in WorkRow
               /\ RowOK(q[j]) /\ q[j].epoch = rows[j].epoch
               /\ q[j].attempts = rows[j].attempts
               /\ q[j] = rows[j] \/ q[j].status = "failed"
               /\ q[j].status = "none" <=> rows[j].status = "none"
               /\ Spent(rows[j]) =>
                    /\ rows[j].status \in {"queued", "running"}
                    /\ rows[j].attempts = MaxAttempts /\ q[j].status = "failed"
               /\ ~Spent(rows[j]) => q[j] = rows[j]
    <2>1. CASE Spent(rows[j])
      BY <1>1, <1>2, <2>1
    <2>2. CASE ~Spent(rows[j])
      BY <1>2, <2>2
    <2> QED
      BY <2>1, <2>2
  <1> QED
    BY <1>2, <1>3

\* In the view: spent rows are buried.
LEMMA SweptView ==
    ASSUME NEW I, NEW rows \in [I -> WorkRow], \A j \in I : RowOK(rows[j])
    PROVE  LET dead == {j \in I : Spent(rows[j])} IN
           /\ dead \in SUBSET {j \in I : View(rows)[j].state = "open"
                                         /\ View(rows)[j].tries = MaxAttempts}
           /\ View(Swept(rows)) = Buried(View(rows), dead)
           /\ Swept(rows) \in [I -> WorkRow]
  <1> DEFINE gone == {j \in I : Spent(rows[j])}
             q == Swept(rows)
  <1> HIDE DEF q
  <1>1. /\ q \in [I -> WorkRow]
        /\ \A j \in I : /\ q[j].attempts = rows[j].attempts
                        /\ Spent(rows[j]) =>
                             /\ rows[j].status \in {"queued", "running"}
                             /\ rows[j].attempts = MaxAttempts /\ q[j].status = "failed"
                        /\ ~Spent(rows[j]) => q[j] = rows[j]
    <2>1. q = Swept(rows)
      BY DEF q
    <2> QED
      BY <2>1, SweptRows
  <1>2. ASSUME NEW j \in I
        PROVE  Abs(q[j]) = IF j \in gone THEN [state |-> "dead", tries |-> Abs(rows[j]).tries]
                           ELSE Abs(rows[j])
    BY <1>1 DEF Abs
  <1>3. View(q) = Buried(View(rows), gone)
    BY <1>1, <1>2 DEF View, Buried
  <1>4. ASSUME NEW j \in gone
        PROVE  View(rows)[j].state = "open" /\ View(rows)[j].tries = MaxAttempts
    BY <1>1 DEF View, Abs
  <1> QED
    BY <1>1, <1>3, <1>4 DEF q

\* The sweep before a claim gives up what has spent its attempts, and nothing else.
LEMMA SweepStep ==
    ASSUME NEW I, NEW rows \in [I -> WorkRow], \A j \in I : RowOK(rows[j])
    PROVE  WorkStep(I, View(rows), View(Swept(rows)))
  <1> DEFINE a == View(rows)
             b == View(Swept(rows))
             dead == {j \in I : Spent(rows[j])}
  <1>1. /\ dead \in SUBSET {j \in I : a[j].state = "open" /\ a[j].tries = MaxAttempts}
        /\ b = Buried(a, dead)
    BY SweptView
  <1> HIDE DEF a, b, dead
  <1>2. WorkStep(I, a, b)
    BY <1>1 DEF WorkStep
  <1> QED
    BY <1>2 DEF a, b

\* A claim, with the sweep before it or without, is one attempt at one item.
LEMMA ClaimStep ==
    ASSUME NEW I, NEW rows \in [I -> WorkRow], \A j \in I : RowOK(rows[j]),
           NEW i \in I, NEW r, rows[i].status \in {"queued", "running"},
           rows[i].attempts < MaxAttempts,
           r.status = "running", r.attempts = rows[i].attempts + 1,
           NEW q, q = Put(Swept(rows), i, r) \/ q = Put(rows, i, r)
    PROVE  WorkStep(I, View(rows), View(q))
  <1> DEFINE a == View(rows)
             dead == {j \in I : Spent(rows[j])}
             all == {j \in I : a[j].state = "open" /\ a[j].tries = MaxAttempts}
  <1>0. rows[i].attempts \in Nat /\ MaxAttempts \in Nat
    BY LeaseAssumption DEF WorkRow, Row
  <1>1. i \notin dead
    BY <1>0 DEF Spent
  <1>2. DOMAIN a = I /\ a[i] = Abs(rows[i])
    BY DEF View
  <1>3. /\ Abs(rows[i]) = [state |-> "open", tries |-> rows[i].attempts]
        /\ Abs(r) = [state |-> "open", tries |-> rows[i].attempts + 1]
    BY DEF Abs
  <1>4. /\ dead \in SUBSET all /\ View(Swept(rows)) = Buried(a, dead)
        /\ Swept(rows) \in [I -> WorkRow]
    BY SweptView
  <1>5. CASE q = Put(Swept(rows), i, r)
    <2>1. View(q) = Put(Buried(a, dead), i, Abs(r))
      BY <1>4, <1>5, ViewTouched
    <2> HIDE DEF a, dead
    <2>3. /\ a[i].state = "open" /\ a[i].tries < MaxAttempts
          /\ View(q) = Put(Buried(a, dead), i, [state |-> "open", tries |-> a[i].tries + 1])
      BY <1>2, <1>3, <2>1
    <2>2. WorkStep(I, a, View(q))
      BY <1>1, <1>4, <2>3 DEF WorkStep
    <2> QED
      BY <2>2 DEF a
  <1>6. CASE q = Put(rows, i, r)
    <2>1. View(q) = Put(a, i, Abs(r))
      BY <1>6, ViewTouched
    <2>2. \A j \in I : a[j] = Abs(rows[j])
      BY DEF View
    <2> HIDE DEF a, dead
    <2>3. Put(Buried(a, {}), i, Abs(r)) = Put(a, i, Abs(r))
      BY <1>2 DEF Buried, Put
    <2>4. {} \in SUBSET all
      OBVIOUS
    <2>6. /\ a[i].state = "open" /\ a[i].tries < MaxAttempts
          /\ View(q) = Put(Buried(a, {}), i, [state |-> "open", tries |-> a[i].tries + 1])
      BY <1>2, <1>3, <2>1, <2>3
    <2>5. WorkStep(I, a, View(q))
      BY <2>4, <2>6 DEF WorkStep
    <2> QED
      BY <2>5 DEF a
  <1> QED
    BY <1>5, <1>6

-----------------------------------------------------------------------------
(* The scheduler: its inductive invariant.                                 *)

DaemonSet ==
    [pc : {"down", "sleep", "fill", "claim", "open", "run", "report", "complete", "fail"},
     at : 0..(MaxFire + 1), quota : 0..(MaxCatchUp + ClaimsPerTick), fire : 0..MaxFire,
     lease : [owner : LeaseOwners \cup {NoOwner}, epoch : 0..MaxAttempts],
     session : 0..MaxSessions]

\* A daemon at work has claimed a fire; one that has a session drew it from
\* those created so far.
DaemonOK(p, n) ==
    /\ p.pc \in {"open", "run", "report", "complete", "fail"} => p.fire \in Fires
    /\ p.pc \in {"run", "report", "complete"} => p.session # 0
    /\ p.session <= n

\* A session belongs to one execution: the daemon that runs it, and afterwards
\* the run it completed.
SessionsApart ==
    /\ \A f \in Fires : runSession[f] <= sessions
    /\ \A f, g \in Fires : f # g /\ runSession[f] # 0 => runSession[f] # runSession[g]
    /\ \A v, w \in Slots : v # w /\ daemon[v].session # 0 => daemon[v].session # daemon[w].session
    /\ \A w \in Slots, f \in Fires : daemon[w].session # 0 => daemon[w].session # runSession[f]

CronInv ==
    /\ CronTypeOK
    /\ cursor >= 1
    /\ \A f \in Fires : RowOK(cronRun[f])
    /\ \A w \in Slots : DaemonOK(daemon[w], sessions)
    /\ NoFireSkipped
    /\ SessionsApart
    /\ \A f \in Fires : cronRun[f].status = "completed" => runSession[f] # 0

\* The rows after a step: well formed, none taken back, a step of the work queue.
RowsMove(rows, next) ==
    /\ next \in [Fires -> WorkRow]
    /\ \A f \in Fires : RowOK(next[f])
    /\ \A f \in Fires : rows[f].status # "none" => next[f].status # "none"
    /\ WorkStep(Fires, View(rows), View(next))

CronGoal == CronInv' /\ cursor' >= cursor /\ WorkStep(Fires, View(cronRun), View(cronRun'))

\* The typing of the scheduler in the terms of the lemmas above.
LEMMA CronTyping ==
    ASSUME CronInv
    PROVE  /\ cronRun \in [Fires -> WorkRow]
           /\ daemon \in [Slots -> DaemonSet]
           /\ clock \in Nat /\ clock <= MaxFire /\ cursor \in Nat /\ cursor <= MaxFire + 1
           /\ MaxFire \in Nat /\ sessions \in Nat /\ MaxSessions \in Nat
           /\ MaxAttempts \in Nat /\ MaxAttempts > 0
  BY LeaseAssumption, CronAssumption
     DEF CronInv, CronTypeOK, WorkRow, DaemonSet, CronStatus, DreamStatus

\* Nothing happens to the rows.
LEMMA RowsStay ==
    ASSUME CronInv
    PROVE  RowsMove(cronRun, cronRun)
  BY CronTyping DEF RowsMove, WorkStep, CronInv

\* One row is replaced.
LEMMA RowMoves ==
    ASSUME CronInv, NEW f \in Fires, NEW r \in WorkRow, RowOK(r), r.status # "none",
           WorkStep(Fires, View(cronRun), View(Put(cronRun, f, r)))
    PROVE  RowsMove(cronRun, Put(cronRun, f, r))
  BY CronTyping DEF RowsMove, Put, CronInv

\* A step in which no session is created or given to a run.
LEMMA CronQuiet ==
    ASSUME CronInv,
           daemon' \in [Slots -> DaemonSet],
           \A w \in Slots : /\ DaemonOK(daemon'[w], sessions)
                            /\ daemon'[w].session \in {0, daemon[w].session},
           RowsMove(cronRun, cronRun'),
           \A f \in Fires : cronRun'[f].status = "completed" => cronRun[f].status = "completed",
           UNCHANGED <<runSession, sessions>>,
           clock' \in 0..MaxFire, cronCrashes' \in 0..MaxCronCrashes,
           \/ cursor' = cursor
           \/ cursor' = cursor + 1 /\ cursor <= MaxFire /\ cronRun'[cursor].status # "none"
    PROVE  CronGoal
  <1>0. /\ cursor \in Nat /\ MaxFire \in Nat /\ cursor <= MaxFire + 1 /\ cursor >= 1
        /\ cursor' >= cursor
    BY CronTyping DEF CronInv
  <1>1. CronTypeOK'
    <2>1. cronRun' \in [Fires -> Row(CronStatus, MaxAttempts)]
      BY DEF RowsMove, WorkRow, CronStatus, DreamStatus
    <2>2. cursor' \in 0..(MaxFire + 1)
      BY <1>0
    <2> QED
      BY <2>1, <2>2 DEF CronInv, CronTypeOK, DaemonSet
  <1>2. NoFireSkipped'
    <2> SUFFICES ASSUME NEW f \in Fires, f < cursor'
                 PROVE  cronRun'[f].status # "none"
      BY DEF NoFireSkipped
    <2>1. f < cursor \/ (f = cursor /\ cursor' = cursor + 1)
      BY <1>0 DEF Fires
    <2> QED
      BY <2>1 DEF CronInv, NoFireSkipped, RowsMove
  <1>3. SessionsApart'
    <2>1. \A v, w \in Slots : v # w /\ daemon'[v].session # 0 => daemon'[v].session # daemon'[w].session
      BY DEF CronInv, SessionsApart
    <2>2. \A w \in Slots, f \in Fires : daemon'[w].session # 0 => daemon'[w].session # runSession[f]
      BY DEF CronInv, SessionsApart
    <2> QED
      BY <2>1, <2>2 DEF CronInv, SessionsApart
  <1>4. (\A f \in Fires : cronRun[f].status = "completed" => runSession[f] # 0)'
    BY DEF CronInv
  <1>5. (\A f \in Fires : RowOK(cronRun[f]))'
    BY DEF RowsMove
  <1>6. (\A w \in Slots : DaemonOK(daemon[w], sessions))'
    OBVIOUS
  <1>7. cursor' >= 1
    BY <1>0
  <1> QED
    BY <1>0, <1>1, <1>2, <1>3, <1>4, <1>5, <1>6, <1>7 DEF CronGoal, CronInv, RowsMove

\* One daemon moves.
LEMMA DaemonMoves ==
    ASSUME CronInv, NEW w \in Slots, NEW p \in DaemonSet, daemon' = [daemon EXCEPT ![w] = p],
           DaemonOK(p, sessions), p.session \in {0, daemon[w].session}
    PROVE  /\ daemon' \in [Slots -> DaemonSet]
           /\ \A v \in Slots : /\ DaemonOK(daemon'[v], sessions)
                               /\ daemon'[v].session \in {0, daemon[v].session}
  BY CronTyping DEF CronInv

-----------------------------------------------------------------------------
(* The scheduler: its steps.                                               *)

\* A daemon that is not at work.
LEMMA IdleDaemon ==
    ASSUME CronInv, NEW s \in {"down", "sleep"}, NEW a \in 0..(MaxFire + 1),
           NEW k \in 0..(MaxCatchUp + ClaimsPerTick), NEW p,
           p = [pc |-> s, at |-> a, quota |-> k, fire |-> 0, lease |-> LeaseOf(NoRow), session |-> 0]
    PROVE  p \in DaemonSet /\ DaemonOK(p, sessions) /\ p.session = 0
  <1>1. LeaseOf(NoRow) \in [owner : LeaseOwners \cup {NoOwner}, epoch : 0..MaxAttempts]
    BY CronTyping DEF LeaseOf, NoRow
  <1>2. 0 \in 0..MaxFire /\ 0 \in 0..MaxSessions /\ 0 <= sessions
    BY CronTyping
  <1> HIDE DEF LeaseOf
  <1>3. p \in DaemonSet
    BY <1>1, <1>2 DEF DaemonSet
  <1> QED
    BY <1>2, <1>3 DEF DaemonOK

\* A daemon put aside at one of these points.
Aside(s, a, k) == [Down EXCEPT !.pc = s, !.at = a, !.quota = k]

\* A daemon that is down or between two runs is typed and owns no session.
LEMMA AsideDaemon ==
    ASSUME CronInv
    PROVE  /\ Down \in DaemonSet /\ DaemonOK(Down, sessions) /\ Down.session = 0
           /\ LET p == [Down EXCEPT !.pc = "sleep"] IN
                p \in DaemonSet /\ DaemonOK(p, sessions) /\ p.session = 0
           /\ \A s \in {"sleep", "fill", "claim"}, a \in 0..(MaxFire + 1),
                 k \in 0..(MaxCatchUp + ClaimsPerTick) :
                /\ Aside(s, a, k) \in DaemonSet /\ DaemonOK(Aside(s, a, k), sessions)
                /\ Aside(s, a, k).session = 0
  <1>0. /\ 0 \in 0..(MaxFire + 1) /\ 0 \in 0..(MaxCatchUp + ClaimsPerTick)
        /\ sessions \in Nat
    BY CronTyping, CronAssumption DEF CronInv, CronTypeOK
  <1>1. Down \in DaemonSet /\ DaemonOK(Down, sessions) /\ Down.session = 0
    BY <1>0, IdleDaemon DEF Down
  <1> HIDE DEF Down
  <1>2. LET p == [Down EXCEPT !.pc = "sleep"] IN
          p \in DaemonSet /\ DaemonOK(p, sessions) /\ p.session = 0
    <2> DEFINE p == [Down EXCEPT !.pc = "sleep"]
    <2>1. p \in DaemonSet /\ p.pc = "sleep" /\ p.session = 0
      BY <1>1 DEF DaemonSet
    <2> HIDE DEF p
    <2>2. DaemonOK(p, sessions)
      BY <1>0, <2>1 DEF DaemonOK
    <2> QED
      BY <2>1, <2>2 DEF p
  <1>3. ASSUME NEW s \in {"sleep", "fill", "claim"}, NEW a \in 0..(MaxFire + 1),
               NEW k \in 0..(MaxCatchUp + ClaimsPerTick)
        PROVE  /\ Aside(s, a, k) \in DaemonSet /\ DaemonOK(Aside(s, a, k), sessions)
               /\ Aside(s, a, k).session = 0
    <2>1. /\ Aside(s, a, k) \in DaemonSet /\ Aside(s, a, k).pc = s
          /\ Aside(s, a, k).session = 0
      BY <1>1 DEF DaemonSet, Aside
    <2>2. DaemonOK(Aside(s, a, k), sessions)
      BY <1>0, <2>1 DEF DaemonOK
    <2> QED
      BY <2>1, <2>2
  <1> QED
    BY <1>1, <1>2, <1>3

\* A daemon put aside while the rows move.
LEMMA DaemonLeaves ==
    ASSUME CronInv, NEW w \in Slots, NEW p \in DaemonSet, DaemonOK(p, sessions), p.session = 0,
           daemon' = [daemon EXCEPT ![w] = p], RowsMove(cronRun, cronRun'),
           \A f \in Fires : cronRun'[f].status = "completed" => cronRun[f].status = "completed",
           UNCHANGED <<runSession, sessions, clock, cursor>>, cronCrashes' \in 0..MaxCronCrashes
    PROVE  CronGoal
  <1>1. p.session \in {0, daemon[w].session}
    OBVIOUS
  <1>2. clock' \in 0..MaxFire
    BY DEF CronInv, CronTypeOK
  <1> QED
    BY <1>1, <1>2, DaemonMoves, CronQuiet

\* The clock moves and the tables do not.
LEMMA CronClockStep ==
    ASSUME CronInv, AdvanceClock
    PROVE  CronGoal
  <1>1. clock' \in 0..MaxFire /\ cronCrashes' \in 0..MaxCronCrashes
    BY CronTyping DEF AdvanceClock, CronInv, CronTypeOK
  <1>2. daemon' \in [Slots -> DaemonSet] /\ \A v \in Slots :
          DaemonOK(daemon'[v], sessions) /\ daemon'[v].session \in {0, daemon[v].session}
    BY CronTyping DEF AdvanceClock, CronInv
  <1> QED
    BY <1>1, <1>2, RowsStay, CronQuiet DEF AdvanceClock

\* A daemon is started, begins a tick or dies.
LEMMA CronIdleSteps ==
    ASSUME CronInv, NEW w \in Slots, StartDaemon(w) \/ BeginTick(w) \/ CrashDaemon(w)
    PROVE  CronGoal
  <1>0. /\ RowsMove(cronRun, cronRun) /\ cronCrashes \in 0..MaxCronCrashes
        /\ clock \in 0..MaxFire
    BY RowsStay DEF CronInv, CronTypeOK
  <1>1. CASE StartDaemon(w)
    <2>1. cursor' = cursor
      BY <1>1, CronTyping DEF StartDaemon, Registered, CronInv
    <2> QED
      BY <1>0, <1>1, <2>1, AsideDaemon, DaemonLeaves DEF StartDaemon
  <1>2. CASE BeginTick(w)
    <2> DEFINE p == Aside("fill", cursor, MaxCatchUp)
    <2>3. cursor \in 0..(MaxFire + 1) /\ MaxCatchUp \in 0..(MaxCatchUp + ClaimsPerTick)
      BY CronAssumption DEF CronInv, CronTypeOK
    <2>1. p \in DaemonSet /\ DaemonOK(p, sessions) /\ p.session = 0
      BY <2>3, AsideDaemon
    <2>2. daemon' = [daemon EXCEPT ![w] = p]
      BY <1>2 DEF BeginTick, Aside
    <2> HIDE DEF p
    <2> QED
      BY <1>0, <1>2, <2>1, <2>2, DaemonLeaves DEF BeginTick
  <1>3. CASE CrashDaemon(w)
    <2>1. cronCrashes' \in 0..MaxCronCrashes
      BY <1>0, <1>3, CronAssumption DEF CrashDaemon
    <2> QED
      BY <1>0, <1>3, <2>1, AsideDaemon, DaemonLeaves DEF CrashDaemon
  <1> QED
    BY <1>1, <1>2, <1>3

\* materialize_cron_run and the end of the filling.
LEMMA CronFillSteps ==
    ASSUME CronInv, NEW w \in Slots, MaterializeRun(w) \/ EndFill(w)
    PROVE  CronGoal
  <1>0. /\ RowsMove(cronRun, cronRun) /\ cronCrashes \in 0..MaxCronCrashes
        /\ clock \in 0..MaxFire
    BY RowsStay DEF CronInv, CronTypeOK
  <1>1. CASE MaterializeRun(w)
    <2> DEFINE f == daemon[w].at
               r == IF cronRun[f].status = "none" THEN NewRow(TRUE) ELSE cronRun[f]
               p == [daemon[w] EXCEPT !.at = f + 1, !.quota = @ - 1]
    <2>1. /\ f = cursor /\ f \in Fires /\ cursor' = cursor + 1
          /\ daemon[w].quota > 0 /\ daemon[w].pc = "fill"
      BY <1>1, CronTyping DEF MaterializeRun, Filling, NextAfter, Fires, CronInv
    <2>2. daemon' = [daemon EXCEPT ![w] = p]
      BY <1>1, CronTyping DEF MaterializeRun, NextAfter
    <2>3. f + 1 \in 0..(MaxFire + 1) /\ daemon[w].quota - 1 \in 0..(MaxCatchUp + ClaimsPerTick)
      BY <2>1, CronTyping, CronAssumption, SMTT(30) DEF DaemonSet, Fires
    <2>4. p \in DaemonSet /\ p.session = daemon[w].session /\ p.pc = "fill"
      BY <2>1, <2>3, CronTyping DEF DaemonSet
    <2>5. DaemonOK(p, sessions)
      BY <2>4 DEF DaemonOK, CronInv
    <2>6. cronRun' = Put(cronRun, f, r)
      BY <1>1, <2>1, CronTyping DEF MaterializeRun, Put
    <2>7. r \in WorkRow /\ RowOK(r) /\ r.status # "none"
          /\ (r.status = "completed" => cronRun[f].status = "completed")
      BY <2>1, FreshWorkRow, CronTyping DEF CronInv
    <2>8. WorkStep(Fires, View(cronRun), View(Put(cronRun, f, r)))
      <3>1. CASE cronRun[f].status = "none"
        <4>1. r.status = "queued" /\ r.attempts = 0 /\ cronRun[f].attempts = 0
          BY <2>1, <3>1, FreshWorkRow DEF CronInv, RowOK
        <4> HIDE DEF r, f
        <4> QED
          BY <2>1, <3>1, <4>1, AddStep, CronTyping
      <3>2. CASE cronRun[f].status # "none"
        <4>1. r.status = cronRun[f].status /\ r.attempts = cronRun[f].attempts
          BY <3>2
        <4> HIDE DEF r, f
        <4> QED
          BY <2>1, <4>1, SameStep, CronTyping
      <3> QED
        BY <3>1, <3>2
    <2> HIDE DEF f, r, p
    <2>9. RowsMove(cronRun, cronRun')
      BY <2>1, <2>6, <2>7, <2>8, RowMoves
    <2>10. \A g \in Fires : cronRun'[g] = IF g = f THEN r ELSE cronRun[g]
      BY <2>6, CronTyping DEF Put
    <2>11. cronRun'[cursor].status # "none" /\ cursor <= MaxFire
      BY <2>1, <2>7, <2>10, CronTyping DEF Fires
    <2>12. \A g \in Fires : cronRun'[g].status = "completed" => cronRun[g].status = "completed"
      BY <2>7, <2>10
    <2>13. /\ daemon' \in [Slots -> DaemonSet]
           /\ \A v \in Slots : /\ DaemonOK(daemon'[v], sessions)
                               /\ daemon'[v].session \in {0, daemon[v].session}
      BY <2>2, <2>4, <2>5, DaemonMoves
    <2>14. UNCHANGED <<runSession, sessions, clock, cronCrashes>>
      BY <1>1 DEF MaterializeRun
    <2> QED
      BY <1>0, <2>1, <2>9, <2>11, <2>12, <2>13, <2>14, CronQuiet
  <1>2. CASE EndFill(w)
    <2> DEFINE p == [daemon[w] EXCEPT !.pc = "claim", !.quota = ClaimsPerTick]
    <2>1. daemon' = [daemon EXCEPT ![w] = p]
      BY <1>2, CronTyping DEF EndFill
    <2>2. ClaimsPerTick \in 0..(MaxCatchUp + ClaimsPerTick)
      BY CronAssumption
    <2>3. p \in DaemonSet /\ p.session = daemon[w].session /\ p.pc = "claim"
      BY <2>2, CronTyping DEF DaemonSet
    <2>4. DaemonOK(p, sessions)
      BY <2>3 DEF DaemonOK, CronInv
    <2> HIDE DEF p
    <2>5. /\ daemon' \in [Slots -> DaemonSet]
          /\ \A v \in Slots : /\ DaemonOK(daemon'[v], sessions)
                              /\ daemon'[v].session \in {0, daemon[v].session}
      BY <2>1, <2>3, <2>4, DaemonMoves
    <2> QED
      BY <1>0, <1>2, <2>5, CronQuiet DEF EndFill
  <1> QED
    BY <1>1, <1>2

\* claim_ready_cron_run.
LEMMA CronClaimSteps ==
    ASSUME CronInv, NEW w \in Slots, ClaimRun(w) \/ EndTick(w)
    PROVE  CronGoal
  <1>0. /\ RowsMove(cronRun, cronRun) /\ cronCrashes \in 0..MaxCronCrashes
        /\ clock \in 0..MaxFire /\ \A g \in Fires : RowOK(cronRun[g])
        /\ cronRun \in [Fires -> WorkRow]
    BY RowsStay, CronTyping DEF CronInv, CronTypeOK
  <1>9. /\ RowsMove(cronRun, Swept(cronRun))
        /\ \A g \in Fires : Swept(cronRun)[g].status = "completed" => cronRun[g].status = "completed"
    <2>1. WorkStep(Fires, View(cronRun), View(Swept(cronRun)))
      BY <1>0, SweepStep
    <2> QED
      BY <1>0, <2>1, SweptRows DEF RowsMove
  <1>1. CASE ClaimRun(w)
    <2>1. PICK f \in ReadyRuns :
            /\ cronRun' = [Swept(cronRun) EXCEPT ![f] = Taken(cronRun[f], w)]
            /\ daemon' = [daemon EXCEPT ![w].pc = "open", ![w].fire = f, ![w].quota = @ - 1,
                                        ![w].lease = LeaseOf(Taken(cronRun[f], w))]
      BY <1>1 DEF ClaimRun
    <2> DEFINE r == Taken(cronRun[f], w)
               l == LeaseOf(r)
               p == [daemon[w] EXCEPT !.pc = "open", !.fire = f, !.quota = @ - 1, !.lease = l]
    <2>2. /\ f \in Fires /\ cronRun[f].attempts < MaxAttempts
          /\ cronRun[f].status \in {"queued", "running"}
      BY <2>1 DEF ReadyRuns, Takeable
    <2>3. /\ r \in WorkRow /\ RowOK(r) /\ r.status = "running"
          /\ r.attempts = cronRun[f].attempts + 1 /\ r.epoch = cronRun[f].epoch + 1
          /\ r.owner = OwnerOf[w] /\ OwnerOf[w] \in LeaseOwners
      BY <1>0, <2>2, TakenRow, CronTyping DEF WorkRow, DreamStatus
    <2>4. l \in [owner : LeaseOwners \cup {NoOwner}, epoch : 0..MaxAttempts]
      BY <2>3 DEF LeaseOf, WorkRow, Row
    <2>5. daemon' = [daemon EXCEPT ![w] = p]
      BY <2>1, CronTyping
    <2> HIDE DEF r, l
    <2>6. f \in 0..MaxFire /\ daemon[w].quota - 1 \in 0..(MaxCatchUp + ClaimsPerTick)
      <3>1. daemon[w].quota > 0
        BY <1>1 DEF ClaimRun
      <3>2. daemon[w].quota \in 0..(MaxCatchUp + ClaimsPerTick)
        BY CronTyping DEF DaemonSet
      <3> QED
        BY <2>2, <3>1, <3>2, CronAssumption DEF Fires
    <2>7. /\ p \in DaemonSet /\ p.session = daemon[w].session /\ p.pc = "open"
          /\ p.fire = f
      BY <2>4, <2>6, CronTyping, ZenonT(30) DEF DaemonSet
    <2>8. DaemonOK(p, sessions)
      BY <2>2, <2>7 DEF DaemonOK, CronInv
    <2> HIDE DEF p
    <2>9. /\ daemon' \in [Slots -> DaemonSet]
          /\ \A v \in Slots : /\ DaemonOK(daemon'[v], sessions)
                              /\ daemon'[v].session \in {0, daemon[v].session}
      BY <2>5, <2>7, <2>8, DaemonMoves
    <2>10. Swept(cronRun) \in [Fires -> WorkRow]
      BY <1>0, SweptView
    <2>11. cronRun' = Put(Swept(cronRun), f, r)
      BY <2>1, <2>2, <2>10 DEF Put, r
    <2>12. WorkStep(Fires, View(cronRun), View(cronRun'))
      BY <1>0, <2>2, <2>3, <2>11, ClaimStep
    <2>13. \A g \in Fires : cronRun'[g] = IF g = f THEN r ELSE Swept(cronRun)[g]
      BY <2>10, <2>11 DEF Put
    <2>14. cronRun' \in [Fires -> WorkRow]
      BY <2>3, <2>10, <2>11 DEF Put
    <2>15. RowsMove(cronRun, cronRun')
      BY <1>9, <2>3, <2>12, <2>13, <2>14 DEF RowsMove
    <2>16. \A g \in Fires : cronRun'[g].status = "completed" => cronRun[g].status = "completed"
      BY <1>9, <2>3, <2>13
    <2> QED
      BY <1>0, <1>1, <2>9, <2>15, <2>16, CronQuiet DEF ClaimRun
  <1>2. CASE EndTick(w)
    <2> DEFINE p == [Down EXCEPT !.pc = "sleep"]
    <2>1. p \in DaemonSet /\ DaemonOK(p, sessions) /\ p.session = 0
      BY AsideDaemon
    <2>2. daemon' = [daemon EXCEPT ![w] = p]
      BY <1>2 DEF EndTick
    <2> HIDE DEF p
    <2>3. cronRun' = cronRun \/ cronRun' = Swept(cronRun)
      BY <1>2 DEF EndTick
    <2>4. /\ RowsMove(cronRun, cronRun')
          /\ \A g \in Fires : cronRun'[g].status = "completed" => cronRun[g].status = "completed"
      BY <1>0, <1>9, <2>3
    <2> QED
      BY <1>0, <1>2, <2>1, <2>2, <2>4, DaemonLeaves DEF EndTick
  <1> QED
    BY <1>1, <1>2

\* A manual trigger.
LEMMA CronTriggerStep ==
    ASSUME CronInv, NEW w \in Slots, NEW f \in Fires, TriggerRun(w, f)
    PROVE  CronGoal
  <1> DEFINE r == cronRun[f]
             fresh == IF r.status = "none" THEN NoRow ELSE r
             t == Taken(fresh, w)
             l == LeaseOf(t)
             p == [Down EXCEPT !.pc = "open", !.fire = f, !.lease = l]
  <1>0. /\ RowsMove(cronRun, cronRun) /\ cronCrashes \in 0..MaxCronCrashes
        /\ clock \in 0..MaxFire /\ \A g \in Fires : RowOK(cronRun[g])
        /\ cronRun \in [Fires -> WorkRow] /\ sessions \in Nat
    BY RowsStay, CronTyping DEF CronInv, CronTypeOK
  <1>u. UNCHANGED <<clock, cursor, runSession, sessions, cronCrashes>>
    BY DEF TriggerRun
  <1>1. CASE /\ r.status = "none" \/ (Takeable(r) /\ ~Spent(r))
             /\ cronRun' = [cronRun EXCEPT ![f] = t]
             /\ daemon' = [daemon EXCEPT ![w] = p]
    <2>1. /\ fresh \in WorkRow /\ RowOK(fresh) /\ fresh.attempts < MaxAttempts
          /\ fresh.attempts = r.attempts
      <3>1. CASE r.status = "none"
        <4>1. fresh = NoRow /\ r.attempts = 0
          BY <1>0, <3>1 DEF RowOK
        <4> QED
          BY <4>1, FreshWorkRow, CronTyping
      <3>2. CASE r.status # "none"
        <4>1. fresh = r /\ r.attempts < MaxAttempts
          BY <1>0, <1>1, <3>2, CronTyping DEF Spent, WorkRow, Row
        <4> QED
          BY <1>0, <4>1
      <3> QED
        BY <3>1, <3>2
    <2> HIDE DEF fresh
    <2>2. /\ t \in WorkRow /\ RowOK(t) /\ t.status = "running"
          /\ t.attempts = r.attempts + 1
      BY <2>1, TakenRow, CronTyping DEF WorkRow, DreamStatus
    <2> HIDE DEF t
    <2>3. l \in [owner : LeaseOwners \cup {NoOwner}, epoch : 0..MaxAttempts]
      BY <2>2 DEF LeaseOf, WorkRow, Row
    <2> HIDE DEF l
    <2>4. p \in DaemonSet /\ p.pc = "open" /\ p.fire = f /\ p.session = 0
      <3>1. f \in 0..MaxFire
        BY CronTyping DEF Fires
      <3>2. Down \in DaemonSet /\ Down.session = 0
        BY AsideDaemon
      <3> QED
        BY <2>3, <3>1, <3>2 DEF DaemonSet
    <2>5. DaemonOK(p, sessions)
      BY <1>0, <2>4 DEF DaemonOK
    <2>6. cronRun' = Put(cronRun, f, t)
      BY <1>0, <1>1 DEF Put
    <2>7. WorkStep(Fires, View(cronRun), View(Put(cronRun, f, t)))
      <3>1. CASE r.status = "none"
        <4>1. r.attempts = 0 /\ t.attempts = 1
          BY <1>0, <2>2, <3>1 DEF RowOK
        <4> QED
          BY <1>0, <2>2, <3>1, <4>1, AddStep
      <3>2. CASE r.status # "none"
        <4>1. r.status \in {"queued", "running"} /\ r.attempts < MaxAttempts
          BY <1>1, <2>1, <3>2 DEF Takeable
        <4> QED
          BY <1>0, <2>2, <4>1, ClaimStep
      <3> QED
        BY <3>1, <3>2
    <2>8. RowsMove(cronRun, cronRun')
      BY <2>2, <2>6, <2>7, RowMoves
    <2>9. \A g \in Fires : cronRun'[g].status = "completed" => cronRun[g].status = "completed"
      BY <1>0, <2>2, <2>6 DEF Put
    <2> HIDE DEF p
    <2> QED
      BY <1>0, <1>1, <1>u, <2>4, <2>5, <2>8, <2>9, DaemonLeaves
  <1>2. CASE /\ Spent(r)
             /\ cronRun' = [cronRun EXCEPT ![f] = Released(r, "failed")]
             /\ UNCHANGED daemon
    <2> DEFINE q == Released(r, "failed")
    <2>1. r.status \in {"queued", "running"} /\ r.attempts = MaxAttempts /\ r \in WorkRow /\ RowOK(r)
      BY <1>0, <1>2, CronTyping DEF Spent, Takeable, WorkRow, Row
    <2>2. q \in WorkRow /\ RowOK(q) /\ q.status = "failed" /\ q.attempts = r.attempts
      BY <2>1, ReleasedRow, CronTyping DEF WorkRow, DreamStatus
    <2> HIDE DEF q
    <2>3. cronRun' = Put(cronRun, f, q)
      BY <1>0, <1>2 DEF Put, q
    <2>4. WorkStep(Fires, View(cronRun), View(Put(cronRun, f, q)))
      BY <1>0, <2>1, <2>2, BuryStep
    <2>5. RowsMove(cronRun, cronRun')
      BY <2>2, <2>3, <2>4, RowMoves
    <2>6. \A g \in Fires : cronRun'[g].status = "completed" => cronRun[g].status = "completed"
      BY <1>0, <2>2, <2>3 DEF Put
    <2>7. daemon' \in [Slots -> DaemonSet] /\ \A v \in Slots :
            DaemonOK(daemon'[v], sessions) /\ daemon'[v].session \in {0, daemon[v].session}
      BY <1>2, CronTyping DEF CronInv
    <2> QED
      BY <1>0, <1>u, <2>5, <2>6, <2>7, CronQuiet
  <1>3. \/ /\ r.status = "none" \/ (Takeable(r) /\ ~Spent(r))
           /\ cronRun' = [cronRun EXCEPT ![f] = t]
           /\ daemon' = [daemon EXCEPT ![w] = p]
        \/ /\ Spent(r)
           /\ cronRun' = [cronRun EXCEPT ![f] = Released(r, "failed")]
           /\ UNCHANGED daemon
    BY DEF TriggerRun, FoundRow
  <1> QED
    BY <1>1, <1>2, <1>3

\* The daemon goes from one point of an execution to the next.
LEMMA CronTurnSteps ==
    ASSUME CronInv, NEW w \in Slots, RunTurn(w) \/ ReportRun(w)
    PROVE  CronGoal
  <1>1. PICK s \in {"report", "complete", "fail"} :
          daemon' = [daemon EXCEPT ![w].pc = s]
    BY DEF RunTurn, ReportRun, CronTo
  <1> DEFINE p == [daemon[w] EXCEPT !.pc = s]
  <1>2. daemon' = [daemon EXCEPT ![w] = p]
    BY <1>1, CronTyping
  <1>3. daemon[w].pc \in {"run", "report"}
    BY DEF RunTurn, ReportRun
  <1>4. /\ p \in DaemonSet /\ p.pc = s /\ p.fire = daemon[w].fire
        /\ p.session = daemon[w].session
    BY CronTyping DEF DaemonSet
  <1> HIDE DEF p
  <1>5. DaemonOK(p, sessions)
    BY <1>3, <1>4 DEF DaemonOK, CronInv
  <1>6. daemon' \in [Slots -> DaemonSet] /\ \A v \in Slots :
          DaemonOK(daemon'[v], sessions) /\ daemon'[v].session \in {0, daemon[v].session}
    BY <1>2, <1>4, <1>5, DaemonMoves
  <1>7. UNCHANGED <<clock, cursor, cronRun, runSession, sessions, cronCrashes>>
    BY DEF RunTurn, ReportRun
  <1>8. /\ RowsMove(cronRun, cronRun) /\ cronCrashes \in 0..MaxCronCrashes
        /\ clock \in 0..MaxFire
    BY RowsStay DEF CronInv, CronTypeOK
  <1> QED
    BY <1>6, <1>7, <1>8, CronQuiet

\* An execution's session is one that no daemon and no run has.
LEMMA CronOpenStep ==
    ASSUME CronInv, NEW w \in Slots, OpenSession(w)
    PROVE  CronGoal
  <1> DEFINE n == sessions + 1
             p == [daemon[w] EXCEPT !.pc = "run", !.session = n]
  <1>1. /\ sessions' = n /\ daemon[w].pc = "open" /\ n \in 0..MaxSessions /\ sessions \in Nat
        /\ UNCHANGED <<clock, cursor, cronRun, runSession, cronCrashes>>
    BY CronTyping DEF OpenSession
  <1>2. daemon' = [daemon EXCEPT ![w] = p]
    BY CronTyping DEF OpenSession
  <1>3. /\ p \in DaemonSet /\ p.pc = "run" /\ p.session = n /\ p.fire = daemon[w].fire
    BY <1>1, CronTyping DEF DaemonSet
  <1> HIDE DEF p
  <1>4. daemon' \in [Slots -> DaemonSet] /\ \A v \in Slots : daemon'[v] = IF v = w THEN p ELSE daemon[v]
    BY <1>2, <1>3, CronTyping
  <1>5. \A v \in Slots : daemon[v].session \in Nat /\ daemon[v].session <= sessions
    BY CronTyping DEF CronInv, DaemonOK, DaemonSet
  <1>6. \A f \in Fires : runSession[f] \in Nat /\ runSession[f] <= sessions
    BY DEF CronInv, CronTypeOK, SessionsApart
  <1>7. (\A v \in Slots : DaemonOK(daemon[v], sessions))'
    <2> SUFFICES ASSUME NEW v \in Slots PROVE DaemonOK(daemon'[v], n)
      BY <1>1
    <2>1. CASE v = w
      BY <1>1, <1>3, <1>4, <2>1 DEF CronInv, DaemonOK
    <2>2. CASE v # w
      BY <1>1, <1>4, <1>5, <2>2 DEF CronInv, DaemonOK
    <2> QED
      BY <2>1, <2>2
  <1>8. SessionsApart'
    <2>1. \A f \in Fires : runSession[f] <= n
      BY <1>1, <1>6
    <2>2. \A u, v \in Slots : u # v /\ daemon'[u].session # 0 => daemon'[u].session # daemon'[v].session
      BY <1>1, <1>3, <1>4, <1>5 DEF CronInv, SessionsApart
    <2>3. \A v \in Slots, f \in Fires : daemon'[v].session # 0 => daemon'[v].session # runSession[f]
      BY <1>1, <1>3, <1>4, <1>6 DEF CronInv, SessionsApart
    <2> HIDE DEF n
    <2> QED
      BY <1>1, <2>1, <2>2, <2>3 DEF CronInv, SessionsApart
  <1>9. CronTypeOK'
    BY <1>1, <1>4 DEF CronInv, CronTypeOK, DaemonSet
  <1>10. WorkStep(Fires, View(cronRun), View(cronRun')) /\ cursor' >= cursor
    BY <1>1, CronTyping DEF WorkStep
  <1>11. NoFireSkipped' /\ (\A f \in Fires : RowOK(cronRun[f]))' /\ cursor' >= 1
         /\ (\A f \in Fires : cronRun[f].status = "completed" => runSession[f] # 0)'
    BY <1>1 DEF CronInv, NoFireSkipped
  <1> QED
    BY <1>7, <1>8, <1>9, <1>10, <1>11 DEF CronGoal, CronInv

\* The settling of a run: only its holder changes it.
LEMMA CronSettleSteps ==
    ASSUME CronInv, NEW w \in Slots, CompleteRun(w) \/ FailRun(w)
    PROVE  CronGoal
  <1> DEFINE f == daemon[w].fire
             held == Holds(cronRun[f], daemon[w].lease)
             p == Aside(IF daemon[w].at = 0 THEN "sleep" ELSE "claim", daemon[w].at, daemon[w].quota)
  <1>0. /\ RowsMove(cronRun, cronRun) /\ cronCrashes \in 0..MaxCronCrashes
        /\ clock \in 0..MaxFire /\ \A g \in Fires : RowOK(cronRun[g])
        /\ cronRun \in [Fires -> WorkRow] /\ sessions \in Nat
    BY RowsStay, CronTyping DEF CronInv, CronTypeOK
  <1>1. f \in Fires
    BY DEF CompleteRun, FailRun, CronInv, DaemonOK
  <1>2. p \in DaemonSet /\ DaemonOK(p, sessions) /\ p.session = 0
    <2>1. daemon[w].at \in 0..(MaxFire + 1) /\ daemon[w].quota \in 0..(MaxCatchUp + ClaimsPerTick)
      BY CronTyping DEF DaemonSet
    <2> QED
      BY <2>1, AsideDaemon
  <1>3. daemon' = [daemon EXCEPT ![w] = p]
    BY DEF CompleteRun, FailRun, AfterRun, Aside
  <1> HIDE DEF p
  <1>4. UNCHANGED <<clock, cursor, sessions, cronCrashes>>
    BY DEF CompleteRun, FailRun
  <1>5. CASE ~held
    <2>1. UNCHANGED <<cronRun, runSession>>
      BY <1>5 DEF CompleteRun, FailRun
    <2> QED
      BY <1>0, <1>2, <1>3, <1>4, <2>1, DaemonLeaves
  <1>6. CASE held /\ FailRun(w)
    <2> DEFINE r == Failed(cronRun[f])
    <2>1. cronRun[f].status = "running" /\ RowOK(cronRun[f]) /\ cronRun[f] \in WorkRow
      BY <1>0, <1>1, <1>6 DEF Holds
    <2>2. /\ r \in WorkRow /\ RowOK(r) /\ r.attempts = cronRun[f].attempts
          /\ r.status = IF cronRun[f].attempts >= MaxAttempts THEN "failed" ELSE "queued"
      BY <2>1, FailedRow, CronTyping DEF WorkRow, DreamStatus
    <2>3. cronRun' = Put(cronRun, f, r)
      BY <1>0, <1>6 DEF FailRun, Put
    <2> HIDE DEF r, f
    <2>4. WorkStep(Fires, View(cronRun), View(Put(cronRun, f, r)))
      <3>1. CASE cronRun[f].attempts >= MaxAttempts
        <4>1. cronRun[f].attempts = MaxAttempts
          BY <2>1, <3>1, CronTyping DEF WorkRow, Row
        <4> QED
          BY <1>0, <1>1, <2>1, <2>2, <3>1, <4>1, BuryStep
      <3>2. CASE ~(cronRun[f].attempts >= MaxAttempts)
        BY <1>0, <1>1, <2>1, <2>2, <3>2, SameStep
      <3> QED
        BY <3>1, <3>2
    <2>5. r.status # "none" /\ r.status # "completed"
      BY <2>2
    <2>6. RowsMove(cronRun, cronRun')
      BY <1>1, <2>2, <2>3, <2>4, <2>5, RowMoves
    <2>7. \A g \in Fires : cronRun'[g].status = "completed" => cronRun[g].status = "completed"
      BY <1>0, <2>3, <2>5 DEF Put
    <2>8. runSession' = runSession
      BY <1>6 DEF FailRun
    <2> QED
      BY <1>0, <1>2, <1>3, <1>4, <2>6, <2>7, <2>8, DaemonLeaves
  <1>7. CASE held /\ CompleteRun(w)
    <2> DEFINE r == Released(cronRun[f], "completed")
               x == daemon[w].session
    <2>1. cronRun[f].status = "running" /\ RowOK(cronRun[f]) /\ cronRun[f] \in WorkRow
          /\ cronRun[f].attempts > 0
      BY <1>0, <1>1, <1>7 DEF Holds, RowOK
    <2>2. r \in WorkRow /\ RowOK(r) /\ r.attempts = cronRun[f].attempts /\ r.status = "completed"
      BY <2>1, ReleasedRow, CronTyping DEF WorkRow, DreamStatus
    <2>3. cronRun' = Put(cronRun, f, r)
      BY <1>0, <1>7 DEF CompleteRun, Put
    <2>4. runSession' = [runSession EXCEPT ![f] = x]
      BY <1>7 DEF CompleteRun
    <2>5. x # 0 /\ x <= sessions /\ x \in 0..MaxSessions
      BY <1>7, CronTyping DEF CompleteRun, CronInv, DaemonOK, DaemonSet
    <2> HIDE DEF r, f
    <2>6. WorkStep(Fires, View(cronRun), View(Put(cronRun, f, r)))
      BY <1>0, <1>1, <2>1, <2>2, FinishStep
    <2>7. RowsMove(cronRun, cronRun')
      BY <1>1, <2>2, <2>3, <2>6, RowMoves
    <2>8. \A g \in Fires : cronRun'[g] = IF g = f THEN r ELSE cronRun[g]
      BY <1>0, <2>3 DEF Put
    <2>9. /\ runSession' \in [Fires -> 0..MaxSessions]
          /\ \A g \in Fires : runSession'[g] = IF g = f THEN x ELSE runSession[g]
      BY <1>1, <2>4, <2>5 DEF CronInv, CronTypeOK
    <2>10. daemon' \in [Slots -> DaemonSet] /\ \A v \in Slots : daemon'[v] = IF v = w THEN p ELSE daemon[v]
      BY <1>2, <1>3, CronTyping
    <2>11. SessionsApart'
      <3>1. \A g \in Fires : runSession'[g] <= sessions
        BY <2>5, <2>9 DEF CronInv, SessionsApart
      <3>2. \A g, h \in Fires : g # h /\ runSession'[g] # 0 => runSession'[g] # runSession'[h]
        BY <2>5, <2>9 DEF CronInv, SessionsApart
      <3>3. \A u, v \in Slots : u # v /\ daemon'[u].session # 0 => daemon'[u].session # daemon'[v].session
        BY <1>2, <2>10 DEF CronInv, SessionsApart
      <3>4. \A v \in Slots, g \in Fires : daemon'[v].session # 0 => daemon'[v].session # runSession'[g]
        <4> SUFFICES ASSUME NEW v \in Slots, NEW g \in Fires, daemon'[v].session # 0
                     PROVE  daemon'[v].session # runSession'[g]
          OBVIOUS
        <4>1. v # w /\ daemon'[v] = daemon[v]
          BY <1>2, <2>10
        <4>2. CASE g = f
          BY <2>5, <2>9, <4>1, <4>2 DEF CronInv, SessionsApart
        <4>3. CASE g # f
          BY <2>9, <4>1, <4>3 DEF CronInv, SessionsApart
        <4> QED
          BY <4>2, <4>3
      <3> QED
        BY <1>4, <3>1, <3>2, <3>3, <3>4 DEF SessionsApart
    <2>12. CronTypeOK'
      <3>1. cronRun' \in [Fires -> Row(CronStatus, MaxAttempts)]
        BY <2>7 DEF RowsMove, WorkRow, CronStatus, DreamStatus
      <3> QED
        BY <1>4, <2>9, <2>10, <3>1 DEF CronInv, CronTypeOK, DaemonSet
    <2>13. (\A v \in Slots : DaemonOK(daemon[v], sessions))'
      BY <1>2, <1>4, <2>10 DEF CronInv
    <2>14. (\A g \in Fires : cronRun[g].status = "completed" => runSession[g] # 0)'
      BY <2>5, <2>8, <2>9 DEF CronInv
    <2>15. NoFireSkipped' /\ (\A g \in Fires : RowOK(cronRun[g]))'
      BY <1>4, <2>7 DEF RowsMove, NoFireSkipped, CronInv
    <2>16. cursor' >= 1 /\ cursor' >= cursor
      BY <1>4, CronTyping DEF CronInv
    <2> QED
      BY <2>7, <2>11, <2>12, <2>13, <2>14, <2>15, <2>16 DEF CronGoal, CronInv, RowsMove
  <1> QED
    BY <1>5, <1>6, <1>7

\* One row changes in a column that is neither its status nor its attempts.
LEMMA CronRowKept ==
    ASSUME CronInv, NEW f \in Fires, NEW r \in WorkRow, RowOK(r), r.status = cronRun[f].status,
           r.attempts = cronRun[f].attempts, r.status # "none", cronRun' = [cronRun EXCEPT ![f] = r]
    PROVE  /\ RowsMove(cronRun, cronRun')
           /\ \A h \in Fires : cronRun'[h].status = "completed" => cronRun[h].status = "completed"
  <1>1. cronRun \in [Fires -> WorkRow]
    BY CronTyping
  <1>2. cronRun' = Put(cronRun, f, r)
    BY <1>1 DEF Put
  <1>3. WorkStep(Fires, View(cronRun), View(Put(cronRun, f, r)))
    BY <1>1, SameStep
  <1>4. RowsMove(cronRun, cronRun')
    BY <1>2, <1>3, RowMoves
  <1> QED
    BY <1>1, <1>2, <1>4 DEF Put

\* Time passes for a row.
LEMMA CronElapseStep ==
    ASSUME CronInv, NEW g \in Fires, ElapseRun(g)
    PROVE  CronGoal
  <1>0. /\ RowsMove(cronRun, cronRun) /\ cronCrashes \in 0..MaxCronCrashes
        /\ clock \in 0..MaxFire /\ \A h \in Fires : RowOK(cronRun[h])
        /\ cronRun \in [Fires -> WorkRow]
    BY RowsStay, CronTyping DEF CronInv, CronTypeOK
  <1> DEFINE r == Elapse(cronRun[g])
  <1>2. /\ r \in WorkRow /\ RowOK(r) /\ r.status = cronRun[g].status
        /\ r.attempts = cronRun[g].attempts
    BY <1>0, ElapsedRow, CronTyping DEF WorkRow
  <1>3. cronRun' = [cronRun EXCEPT ![g] = r] /\ cronRun' # cronRun
    BY <1>2 DEF ElapseRun
  <1>4. r.status # "none"
    <2> SUFFICES ASSUME r.status = "none" PROVE FALSE
      OBVIOUS
    <2>1. cronRun[g] \in WorkRow /\ cronRun[g].status = "none"
      BY <1>0, <1>2
    <2>2. Elapse(cronRun[g]) = cronRun[g]
      BY <2>1 DEF Elapse, WorkRow, Row
    <2> QED
      BY <1>0, <1>3, <2>2
  <1> HIDE DEF r
  <1>5. daemon' \in [Slots -> DaemonSet] /\ \A v \in Slots :
          DaemonOK(daemon'[v], sessions) /\ daemon'[v].session \in {0, daemon[v].session}
    BY CronTyping DEF CronInv, ElapseRun
  <1> QED
    BY <1>0, CronRowKept, <1>2, <1>3, <1>4, <1>5, CronQuiet DEF ElapseRun

\* heartbeat_cron_run.
LEMMA CronHeartbeatStep ==
    ASSUME CronInv, NEW w \in Slots, HeartbeatRun(w)
    PROVE  CronGoal
  <1>0. /\ RowsMove(cronRun, cronRun) /\ cronCrashes \in 0..MaxCronCrashes
        /\ clock \in 0..MaxFire /\ \A h \in Fires : RowOK(cronRun[h])
        /\ cronRun \in [Fires -> WorkRow]
    BY RowsStay, CronTyping DEF CronInv, CronTypeOK
  <1> DEFINE f == daemon[w].fire
             held == Holds(cronRun[f], daemon[w].lease)
             r == Renewed(cronRun[f])
             p == [daemon[w] EXCEPT !.pc = "fail"]
  <1>2. f \in Fires /\ daemon[w].pc = "run"
    BY DEF HeartbeatRun, CronInv, DaemonOK
  <1>3. UNCHANGED <<clock, cursor, runSession, sessions, cronCrashes>>
    BY DEF HeartbeatRun
  <1>4. CASE held
    <2>1. /\ r \in WorkRow /\ RowOK(r) /\ r.status = cronRun[f].status
          /\ r.attempts = cronRun[f].attempts /\ r.status # "none"
      BY <1>0, <1>2, <1>4, RenewedRow, CronTyping DEF WorkRow, Holds
    <2>2. cronRun' = [cronRun EXCEPT ![f] = r] /\ daemon' = daemon
      BY <1>4 DEF HeartbeatRun
    <2> HIDE DEF r, f
    <2>3. daemon' \in [Slots -> DaemonSet] /\ \A v \in Slots :
            DaemonOK(daemon'[v], sessions) /\ daemon'[v].session \in {0, daemon[v].session}
      BY <2>2, CronTyping DEF CronInv
    <2> QED
      BY <1>0, CronRowKept, <1>2, <1>3, <2>1, <2>2, <2>3, CronQuiet
  <1>5. CASE ~held
    <2>1. cronRun' = cronRun /\ daemon' = [daemon EXCEPT ![w] = p]
      BY <1>5, CronTyping DEF HeartbeatRun
    <2>2. p \in DaemonSet /\ p.pc = "fail" /\ p.fire = f /\ p.session = daemon[w].session
      BY CronTyping DEF DaemonSet
    <2>3. DaemonOK(p, sessions)
      BY <1>2, <2>2 DEF DaemonOK, CronInv
    <2> HIDE DEF p
    <2>4. daemon' \in [Slots -> DaemonSet] /\ \A v \in Slots :
            DaemonOK(daemon'[v], sessions) /\ daemon'[v].session \in {0, daemon[v].session}
      BY <2>1, <2>2, <2>3, DaemonMoves
    <2> QED
      BY <1>0, <1>3, <2>1, <2>4, CronQuiet
  <1> QED
    BY <1>4, <1>5

-----------------------------------------------------------------------------
(* The scheduler: what it promises.                                        *)

Item == [state : {"absent", "open", "done", "dead"}, tries : Nat]

\* A view is a state of the work queue.
LEMMA ViewIsWork ==
    ASSUME NEW I, NEW rows \in [I -> WorkRow]
    PROVE  View(rows) \in [I -> Item] /\ View(rows) = [i \in I |-> Abs(rows[i])]
  <1>1. ASSUME NEW r \in WorkRow
        PROVE  Abs(r) \in Item
    BY LeaseAssumption DEF Abs, Item, WorkRow, Row
  <1> QED
    BY <1>1 DEF View

\* LeasedWork's next-state relation with its variable and its next value as arguments.
GivenUp(I, a, dead) ==
    [i \in I |-> IF i \in dead THEN [a[i] EXCEPT !.state = "dead"] ELSE a[i]]

NextWork(I, a, b) ==
    \/ \E i \in I :
         \/ a[i].state = "absent" /\ b = [a EXCEPT ![i].state = "open"]
         \/ a[i].state = "absent" /\ b = [a EXCEPT ![i] = [state |-> "open", tries |-> 1]]
         \/ a[i].state = "open" /\ a[i].tries > 0 /\ b = [a EXCEPT ![i].state = "done"]
    \/ \E dead \in SUBSET {i \in I : a[i].state = "open" /\ a[i].tries = MaxAttempts} :
         \/ b = GivenUp(I, a, dead)
         \/ \E i \in I \ dead :
              /\ a[i].state = "open" /\ a[i].tries < MaxAttempts
              /\ b = [GivenUp(I, a, dead) EXCEPT ![i].tries = @ + 1]

\* What a step does to a queue's view is a step of LeasedWork, or none.
LEMMA WorkStepIsNextWork ==
    ASSUME NEW I, NEW a \in [I -> Item], NEW b, WorkStep(I, a, b)
    PROVE  NextWork(I, a, b) \/ b = a
  <1>1. ASSUME NEW i \in I, a[i].state = "absent",
               b = Put(a, i, [state |-> "open", tries |-> a[i].tries])
        PROVE  NextWork(I, a, b)
    <2>2. [a[i] EXCEPT !.state = "open"] = [state |-> "open", tries |-> a[i].tries]
      BY DEF Item
    <2>1. b = [a EXCEPT ![i].state = "open"]
      BY <1>1, <2>2 DEF Put
    <2> QED
      BY <1>1, <2>1 DEF NextWork
  <1>2. ASSUME NEW i \in I, a[i].state = "absent", b = Put(a, i, [state |-> "open", tries |-> 1])
        PROVE  NextWork(I, a, b)
    <2>1. b = [a EXCEPT ![i] = [state |-> "open", tries |-> 1]]
      BY <1>2 DEF Put
    <2> QED
      BY <1>2, <2>1 DEF NextWork
  <1>3. ASSUME NEW i \in I, a[i].state = "open", a[i].tries > 0,
               b = Put(a, i, [state |-> "done", tries |-> a[i].tries])
        PROVE  NextWork(I, a, b)
    <2>2. [a[i] EXCEPT !.state = "done"] = [state |-> "done", tries |-> a[i].tries]
      BY DEF Item
    <2>1. b = [a EXCEPT ![i].state = "done"]
      BY <1>3, <2>2 DEF Put
    <2> QED
      BY <1>3, <2>1 DEF NextWork
  <1> DEFINE all == {i \in I : a[i].state = "open" /\ a[i].tries = MaxAttempts}
  <1>4. ASSUME NEW dead PROVE GivenUp(I, a, dead) = Buried(a, dead)
    <2>1. ASSUME NEW j \in I
          PROVE  [a[j] EXCEPT !.state = "dead"] = [state |-> "dead", tries |-> a[j].tries]
      BY DEF Item
    <2> QED
      BY <2>1 DEF GivenUp, Buried
  <1>5. ASSUME NEW dead \in SUBSET all, b = Buried(a, dead)
        PROVE  NextWork(I, a, b)
    BY <1>4, <1>5 DEF NextWork
  <1>6. ASSUME NEW dead \in SUBSET all, NEW i \in I \ dead,
               a[i].state = "open", a[i].tries < MaxAttempts,
               b = Put(Buried(a, dead), i, [state |-> "open", tries |-> a[i].tries + 1])
        PROVE  NextWork(I, a, b)
    <2> DEFINE c == GivenUp(I, a, dead)
    <2>1. c \in [I -> Item] /\ c[i] = a[i]
      <3>1. \A j \in I : [a[j] EXCEPT !.state = "dead"] \in Item
        BY DEF Item
      <3> QED
        BY <1>6, <3>1 DEF GivenUp
    <2>2. b = Put(c, i, [state |-> c[i].state, tries |-> c[i].tries + 1])
      BY <1>4, <1>6, <2>1
    <2>3. [c[i] EXCEPT !.tries = @ + 1] = [state |-> c[i].state, tries |-> c[i].tries + 1]
      BY <2>1 DEF Item
    <2>4. b = [c EXCEPT ![i].tries = @ + 1]
      BY <2>1, <2>2, <2>3 DEF Put
    <2> QED
      BY <1>6, <2>4 DEF NextWork
  <1> HIDE DEF all
  <1>7. \/ b = a
        \/ \E i \in I : a[i].state = "absent" /\ b = Put(a, i, [state |-> "open", tries |-> a[i].tries])
        \/ \E i \in I : a[i].state = "absent" /\ b = Put(a, i, [state |-> "open", tries |-> 1])
        \/ \E i \in I : /\ a[i].state = "open" /\ a[i].tries > 0
                        /\ b = Put(a, i, [state |-> "done", tries |-> a[i].tries])
        \/ \E dead \in SUBSET all : b = Buried(a, dead)
        \/ \E dead \in SUBSET all : \E i \in I \ dead :
             /\ a[i].state = "open" /\ a[i].tries < MaxAttempts
             /\ b = Put(Buried(a, dead), i, [state |-> "open", tries |-> a[i].tries + 1])
    BY DEF WorkStep, all
  <1> QED
    BY <1>1, <1>2, <1>3, <1>5, <1>6, <1>7

\* The state of the work queue that the runs stand for.
CronQueue ==
    [f \in Fires |-> [state |-> CASE cronRun[f].status = "none" -> "absent"
                                  [] cronRun[f].status = "completed" -> "done"
                                  [] cronRun[f].status = "failed" -> "dead"
                                  [] OTHER -> "open",
                      tries |-> cronRun[f].attempts]]

\* The steps on the view of the cron runs are those of their LeasedWork.
LEMMA CronNextWork ==
    ASSUME NextWork(Fires, CronQueue, CronQueue')
    PROVE  CronWork!WorkNext
  BY DEF NextWork, GivenUp, CronQueue, CronWork!WorkNext, CronWork!Add, CronWork!AddAndTry,
         CronWork!Finish, CronWork!Claim, CronWork!GiveUpOn, CronWork!Spendable

\* An empty schedule satisfies the invariant and maps to an empty queue.
LEMMA CronInitInv ==
    ASSUME CronInit
    PROVE  CronInv /\ CronWork!WorkInit
  <1>1. /\ \A f \in Fires : cronRun[f] = NoRow
        /\ NoRow \in WorkRow /\ RowOK(NoRow) /\ NoRow.status = "none" /\ NoRow.attempts = 0
    BY FreshWorkRow DEF CronInit
  <1>2. cronRun \in [Fires -> Row(CronStatus, MaxAttempts)]
    BY <1>1 DEF CronInit, WorkRow, CronStatus, DreamStatus
  <1>3. /\ 0 \in 0..MaxFire /\ 0 \in 0..(MaxFire + 1) /\ 0 \in 0..(MaxCatchUp + ClaimsPerTick)
        /\ 0 \in 0..MaxSessions /\ 0 \in 0..MaxAttempts /\ 0 \in 0..MaxCronCrashes
        /\ 1 \in 0..(MaxFire + 1)
    BY CronAssumption, LeaseAssumption
  <1>4. Down \in DaemonSet /\ Down.pc = "down" /\ Down.session = 0
    <2>1. LeaseOf(NoRow) \in [owner : LeaseOwners \cup {NoOwner}, epoch : 0..MaxAttempts]
      BY <1>3 DEF LeaseOf, NoRow
    <2> QED
      BY <1>3, <2>1 DEF Down, DaemonSet
  <1> HIDE DEF Down, NoRow
  <1>5. daemon \in [Slots -> DaemonSet] /\ \A w \in Slots : daemon[w] = Down
    BY <1>4 DEF CronInit
  <1>6. CronTypeOK
    BY <1>2, <1>3, <1>5, CronAssumption DEF CronInit, CronTypeOK, DaemonSet
  <1>7. \A w \in Slots : DaemonOK(daemon[w], sessions)
    BY <1>4, <1>5 DEF CronInit, DaemonOK
  <1>8. NoFireSkipped
    BY CronAssumption DEF CronInit, NoFireSkipped, Fires
  <1>9. SessionsApart
    BY <1>4, <1>5 DEF CronInit, SessionsApart
  <1>10. CronInv
    BY <1>1, <1>6, <1>7, <1>8, <1>9 DEF CronInit, CronInv
  <1>11. CronWork!WorkInit
    BY <1>1 DEF CronWork!WorkInit
  <1> QED
    BY <1>10, <1>11

\* Every step of the scheduler keeps the invariant, moves the cursor forwards only
\* and maps to a step of LeasedWork.
LEMMA CronStepInv ==
    ASSUME CronInv, [CronNext]_cronVars
    PROVE  CronInv' /\ cursor' >= cursor /\ (CronWork!WorkNext \/ CronQueue' = CronQueue)
  <1>1. CronGoal
    <2>1. CASE CronNext
      <3>1. ASSUME NEW w \in Slots, CronStep(w) \/ HeartbeatRun(w) \/ CrashDaemon(w)
            PROVE  CronGoal
        <4>1. CASE HeartbeatRun(w)
          BY <4>1, CronHeartbeatStep
        <4>2. CASE CrashDaemon(w)
          BY <4>2, CronIdleSteps
        <4>3. CASE CronStep(w)
          BY <4>3, CronIdleSteps, CronFillSteps, CronClaimSteps, CronOpenStep, CronTurnSteps,
             CronSettleSteps DEF CronStep
        <4> QED
          BY <3>1, <4>1, <4>2, <4>3
      <3> QED
        BY <2>1, <3>1, CronClockStep, CronElapseStep, CronTriggerStep DEF CronNext
    <2>2. CASE UNCHANGED cronVars
      <3>1. clock' \in 0..MaxFire /\ cronCrashes' \in 0..MaxCronCrashes
        BY <2>2, CronTyping DEF cronVars, CronInv, CronTypeOK
      <3>2. daemon' \in [Slots -> DaemonSet] /\ \A v \in Slots :
              DaemonOK(daemon'[v], sessions) /\ daemon'[v].session \in {0, daemon[v].session}
        BY <2>2, CronTyping DEF cronVars, CronInv
      <3> QED
        BY <2>2, <3>1, <3>2, RowsStay, CronQuiet DEF cronVars
    <2> QED
      BY <2>1, <2>2
  <1>2. CronInv' /\ cursor' >= cursor /\ WorkStep(Fires, View(cronRun), View(cronRun'))
    BY <1>1 DEF CronGoal
  <1>3. cronRun \in [Fires -> WorkRow] /\ cronRun' \in [Fires -> WorkRow]
    BY <1>2, CronTyping DEF CronInv, CronTypeOK, WorkRow, CronStatus, DreamStatus
  <1>4. /\ View(cronRun) \in [Fires -> Item] /\ View(cronRun) = CronQueue
        /\ View(cronRun') = CronQueue'
    BY <1>3, ViewIsWork DEF CronQueue, Abs
  <1>5. NextWork(Fires, CronQueue, CronQueue') \/ CronQueue' = CronQueue
    BY <1>2, <1>4, WorkStepIsNextWork
  <1> QED
    BY <1>2, <1>5, CronNextWork

\* The scheduler keeps what it promises, for any schedule, quotas and number of
\* daemons, with manual triggers, lost leases and crashes at any moment: no fire is
\* skipped, the cursor never goes back, a completed run names a session of its
\* own, and the runs implement the bounded work queue.
THEOREM SchedulerIsCorrect == CronSpec => CronCorrect
  <1>1. CronInv => CronTypeOK /\ NoFireSkipped /\ RunNamesItsSession
    BY DEF CronInv, RunNamesItsSession, SessionsApart
  <1>2. CronInit => CronInv /\ CronWork!WorkInit
    BY CronInitInv
  <1>3. CronInv /\ [CronNext]_cronVars => CronInv'
    BY CronStepInv
  <1>4. CronInv /\ [CronNext]_cronVars => [cursor' >= cursor]_cronVars
    BY CronStepInv
  <1>5. CronInv /\ [CronNext]_cronVars =>
          [CronWork!WorkNext]_([f \in Fires |->
             [state |-> CASE cronRun[f].status = "none" -> "absent"
                          [] cronRun[f].status = "completed" -> "done"
                          [] cronRun[f].status = "failed" -> "dead"
                          [] OTHER -> "open",
              tries |-> cronRun[f].attempts]])
    <2>1. CronInv /\ [CronNext]_cronVars => CronWork!WorkNext \/ CronQueue' = CronQueue
      BY CronStepInv
    <2> QED
      BY <2>1 DEF CronQueue
  <1> QED
    BY <1>1, <1>2, <1>3, <1>4, <1>5, PTL
       DEF CronSpec, CronCorrect, CursorAdvances, RunsAreLeasedWork, CronWork!WorkSpec

-----------------------------------------------------------------------------
(* The push outbox.                                                        *)

PushRow == Row(PushStatus, MaxPushClaims)

PusherSet ==
    [pc : {"sleep", "requested", "resolved", "ready", "claim", "send", "delivered",
           "transient", "permanent"},
     item : Deliveries \cup {NoItem},
     lease : [owner : LeaseOwners \cup {NoOwner}, epoch : 0..MaxPushClaims]]

\* A worker between its claim and its settlement has a delivery in hand.
PusherOK(p) == p.pc \in {"send", "delivered", "transient", "permanent"} => p.item \in Deliveries

PushInv ==
    /\ PushTypeOK
    /\ \A x \in Deliveries : RowOK(delivery[x])
    /\ \A w \in Slots : PusherOK(pusher[w])
    /\ ToldInOrder

\* What a step may do to the outbox: what ended stays, and the message of a decision
\* is added only where the request was delivered.
OutboxMoves(next) ==
    /\ next \in [Deliveries -> PushRow]
    /\ \A x \in Deliveries : RowOK(next[x])
    /\ \A x \in Deliveries : delivery[x].status \in {"delivered", "failed"} => next[x] = delivery[x]
    /\ \A x \in Deliveries :
         x.kind = "resolved" /\ delivery[x].status = "none" /\ next[x].status # "none" =>
           /\ delivery[Requested(x.device, x.about)].status = "delivered"
           /\ approvalNow[x.about] = "decided"

Final ==
    \A x \in Deliveries : delivery[x].status \in {"delivered", "failed"} => delivery'[x] = delivery[x]

PushGoal == PushInv' /\ Final

\* The types the outbox proofs use, in the form the provers expand best.
LEMMA PushTyping ==
    ASSUME PushInv
    PROVE  /\ delivery \in [Deliveries -> PushRow] /\ pusher \in [Slots -> PusherSet]
           /\ MaxPushClaims \in Nat
           /\ \A x \in Deliveries : x.device \in PushDevices
           /\ \A x \in Deliveries : x.kind \in {"requested", "resolved"} =>
                                      x.about \in PushApprovals
  BY PushAssumption DEF PushInv, PushTypeOK, PushRow, PusherSet, Deliveries

\* A delivery just inserted, and one that is not there, are rows.
LEMMA FreshPushRow ==
    /\ NewRow(TRUE) \in PushRow /\ RowOK(NewRow(TRUE))
    /\ NoRow \in PushRow /\ RowOK(NoRow) /\ NoRow.status = "none"
  <1>1. "queued" \in PushStatus /\ "none" \in PushStatus /\ MaxPushClaims \in Nat
        /\ TRUE \in BOOLEAN
    BY PushAssumption DEF PushStatus
  <1> QED
    BY <1>1, FreshRow DEF PushRow

\* The messages about one approval.
LEMMA Messages ==
    ASSUME NEW d \in PushDevices, NEW a \in PushApprovals
    PROVE  /\ Requested(d, a) \in Deliveries /\ Resolved(d, a) \in Deliveries
           /\ Resolved(d, a).kind = "resolved" /\ Resolved(d, a).device = d
           /\ Resolved(d, a).about = a
  BY DEF Requested, Resolved, Deliveries

\* A step that keeps the outbox in order keeps the invariant.
LEMMA PushKeeps ==
    ASSUME PushInv, OutboxMoves(delivery'),
           pusher' \in [Slots -> PusherSet], \A w \in Slots : PusherOK(pusher'[w]),
           approvalNow' \in [PushApprovals -> {"unlogged", "pending", "overdue", "decided"}],
           \A a \in PushApprovals : approvalNow[a] = "decided" => approvalNow'[a] = "decided",
           registration' \in [PushDevices -> {"none", "enabled", "disabled"}],
           revokedDevices' \subseteq PushDevices,
           answer' \in [age : {"none", "fresh", "old"}, to : SUBSET PushDevices],
           shown' \in [PushDevices -> SUBSET PushApprovals],
           pushCrashes' \in 0..MaxPushCrashes
    PROVE  PushGoal
  <1>1. PushTypeOK'
    BY DEF PushTypeOK, OutboxMoves, PushRow, PusherSet
  <1>2. Final
    BY DEF Final, OutboxMoves
  <1>3. ToldInOrder'
    <2> SUFFICES ASSUME NEW d \in PushDevices, NEW a \in PushApprovals,
                        delivery'[Resolved(d, a)].status # "none"
                 PROVE  delivery'[Requested(d, a)].status = "delivered" /\ approvalNow'[a] = "decided"
      BY DEF ToldInOrder, Resolved, Requested
    <2>1. delivery[Requested(d, a)].status = "delivered" /\ approvalNow[a] = "decided"
      <3>1. CASE delivery[Resolved(d, a)].status # "none"
        BY <3>1 DEF PushInv, ToldInOrder
      <3>2. CASE delivery[Resolved(d, a)].status = "none"
        BY <3>2, Messages DEF OutboxMoves
      <3> QED
        BY <3>1, <3>2
    <2> QED
      BY <1>2, <2>1, Messages DEF Final
  <1>4. (\A x \in Deliveries : RowOK(delivery[x]))'
    BY DEF OutboxMoves
  <1>5. (\A w \in Slots : PusherOK(pusher[w]))'
    OBVIOUS
  <1> QED
    BY <1>1, <1>2, <1>3, <1>4, <1>5 DEF PushGoal, PushInv

\* The parts of a state that most steps leave alone.
LEMMA PushRest ==
    ASSUME PushInv
    PROVE  /\ approvalNow \in [PushApprovals -> {"unlogged", "pending", "overdue", "decided"}]
           /\ registration \in [PushDevices -> {"none", "enabled", "disabled"}]
           /\ revokedDevices \subseteq PushDevices
           /\ answer \in [age : {"none", "fresh", "old"}, to : SUBSET PushDevices]
           /\ shown \in [PushDevices -> SUBSET PushApprovals]
           /\ pushCrashes \in 0..MaxPushCrashes
           /\ OutboxMoves(delivery)
           /\ \A w \in Slots : PusherOK(pusher[w])
  BY PushTyping DEF PushInv, PushTypeOK, OutboxMoves

\* One row that had not ended, and was there, changes.
LEMMA OneDelivery ==
    ASSUME PushInv, NEW x \in Deliveries, NEW r \in PushRow, RowOK(r),
           delivery[x].status \in {"queued", "running"},
           NEW q, q = [delivery EXCEPT ![x] = r]
    PROVE  OutboxMoves(q)
  <1>1. q \in [Deliveries -> PushRow] /\ \A y \in Deliveries : q[y] = IF y = x THEN r ELSE delivery[y]
    BY PushTyping
  <1> QED
    BY <1>1 DEF OutboxMoves, PushInv

\* The rows of inactive devices fail together.
LEMMA FailTogether ==
    ASSUME PushInv, NEW items, \A x \in items : x \in Deliveries => Undelivered(x)
    PROVE  OutboxMoves(FailAll(items))
  <1>1. ASSUME NEW x \in Deliveries, x \in items
        PROVE  /\ delivery[x].status \in {"queued", "running"}
               /\ Released(delivery[x], "failed") \in PushRow
               /\ RowOK(Released(delivery[x], "failed"))
    <2>1. delivery[x] \in PushRow /\ RowOK(delivery[x])
      BY PushTyping DEF PushInv
    <2>2. delivery[x].status \in {"queued", "running"} /\ "failed" \in PushStatus
      BY <1>1 DEF Undelivered, PushStatus
    <2> QED
      BY <2>1, <2>2, ReleasedRow, PushTyping DEF PushRow
  <1>2. FailAll(items) = [x \in Deliveries |-> IF x \in items THEN Released(delivery[x], "failed")
                                               ELSE delivery[x]]
    BY DEF FailAll
  <1>3. \A x \in Deliveries : /\ FailAll(items)[x] \in PushRow /\ RowOK(FailAll(items)[x])
                              /\ delivery[x].status \in {"delivered", "failed", "none"} =>
                                   FailAll(items)[x] = delivery[x]
    BY <1>1, <1>2, PushTyping DEF PushInv
  <1>4. FailAll(items) \in [Deliveries -> PushRow]
    BY <1>2, <1>3
  <1> QED
    BY <1>3, <1>4 DEF OutboxMoves

\* Devices, approvals, answers and time.
LEMMA PushWorldSteps ==
    ASSUME PushInv, NEW d \in PushDevices,
           Register(d) \/ Unregister(d) \/ RevokeDevice(d)
    PROVE  PushGoal
  <1>1. CASE Register(d)
    BY <1>1, PushRest, PushTyping, PushKeeps DEF Register
  <1>2. CASE Unregister(d)
    <2>1. OutboxMoves(delivery')
      <3> DEFINE items == {x \in Deliveries : x.device = d /\ Undelivered(x)}
      <3>1. \A x \in items : x \in Deliveries => Undelivered(x)
        OBVIOUS
      <3>2. delivery' = FailAll(items)
        BY <1>2 DEF Unregister
      <3> HIDE DEF items
      <3> QED
        BY <3>1, <3>2, FailTogether
    <2> QED
      BY <1>2, <2>1, PushRest, PushTyping, PushKeeps DEF Unregister
  <1>3. CASE RevokeDevice(d)
    BY <1>3, PushRest, PushTyping, PushKeeps DEF RevokeDevice
  <1> QED
    BY <1>1, <1>2, <1>3

\* An approval is logged, falls due or is decided: the outbox is untouched.
LEMMA PushApprovalStep ==
    ASSUME PushInv, NEW a \in PushApprovals, ApprovalMoves(a)
    PROVE  PushGoal
  <1>1. /\ approvalNow' \in [PushApprovals -> {"unlogged", "pending", "overdue", "decided"}]
        /\ \A b \in PushApprovals : approvalNow[b] = "decided" => approvalNow'[b] = "decided"
    BY PushRest DEF ApprovalMoves
  <1> QED
    BY <1>1, PushRest, PushTyping, PushKeeps DEF ApprovalMoves

\* An answer becomes ready, or old: the outbox is untouched.
LEMMA PushAnswerStep ==
    ASSUME PushInv, AnswerMoves
    PROVE  PushGoal
  <1>1. answer' \in [age : {"none", "fresh", "old"}, to : SUBSET PushDevices]
    <2>1. CASE answer' = [age |-> "fresh", to |-> {d \in PushDevices : registration[d] # "none"}]
      BY <2>1
    <2>2. CASE answer' = [answer EXCEPT !.age = "old"]
      BY <2>2, PushRest
    <2> QED
      BY <2>1, <2>2 DEF AnswerMoves
  <1> QED
    BY <1>1, PushRest, PushTyping, PushKeeps DEF AnswerMoves

\* The lease of a delivery runs down.
LEMMA PushElapseStep ==
    ASSUME PushInv, NEW x \in Deliveries, ElapseDelivery(x)
    PROVE  PushGoal
  <1> DEFINE r == Elapse(delivery[x])
  <1>1. delivery[x] \in PushRow /\ RowOK(delivery[x])
    BY PushTyping DEF PushInv
  <1>2. r \in PushRow /\ RowOK(r)
    BY <1>1, ElapsedRow, PushTyping DEF PushRow
  <1>3. delivery' = [delivery EXCEPT ![x] = r] /\ delivery' # delivery
    BY DEF ElapseDelivery
  <1>4. delivery[x].status \in {"queued", "running"}
    <2> SUFFICES ASSUME delivery[x].status \notin {"queued", "running"} PROVE FALSE
      OBVIOUS
    <2>1. r = delivery[x]
      BY <1>1 DEF Elapse, PushRow, Row
    <2> QED
      BY <1>3, <2>1, PushTyping
  <1> HIDE DEF r
  <1>5. OutboxMoves(delivery')
    BY <1>2, <1>3, <1>4, OneDelivery
  <1> QED
    BY <1>5, PushRest, PushTyping, PushKeeps DEF ElapseDelivery

\* One worker moves.
LEMMA PusherMoves ==
    ASSUME PushInv, NEW w \in Slots, NEW p \in PusherSet, PusherOK(p),
           pusher' = [pusher EXCEPT ![w] = p]
    PROVE  pusher' \in [Slots -> PusherSet] /\ \A v \in Slots : PusherOK(pusher'[v])
  BY PushTyping DEF PushInv

\* A worker without a delivery, and one that goes on with the delivery it has.
LEMMA PusherGoes ==
    ASSUME PushInv, NEW w \in Slots
    PROVE  /\ Asleep \in PusherSet /\ PusherOK(Asleep)
           /\ LET p == [Asleep EXCEPT !.pc = "claim"] IN p \in PusherSet /\ PusherOK(p)
           /\ \A s \in {"requested", "resolved", "ready", "claim"} :
                Advance(w, s) => /\ pusher' \in [Slots -> PusherSet]
                                 /\ \A v \in Slots : PusherOK(pusher'[v])
           /\ \A s \in {"delivered", "transient", "permanent"} :
                Advance(w, s) /\ pusher[w].pc = "send" =>
                  /\ pusher' \in [Slots -> PusherSet]
                  /\ \A v \in Slots : PusherOK(pusher'[v])
  <1>1. Asleep \in PusherSet /\ Asleep.pc = "sleep"
    <2>1. LeaseOf(NoRow) \in [owner : LeaseOwners \cup {NoOwner}, epoch : 0..MaxPushClaims]
      BY PushTyping DEF LeaseOf, NoRow
    <2>2. NoItem \in Deliveries \cup {NoItem}
      OBVIOUS
    <2> QED
      BY <2>1, <2>2 DEF Asleep, PusherSet
  <1>2. PusherOK(Asleep)
    BY <1>1 DEF PusherOK
  <1>3. LET p == [Asleep EXCEPT !.pc = "claim"] IN p \in PusherSet /\ PusherOK(p)
    <2> HIDE DEF Asleep
    <2> DEFINE p == [Asleep EXCEPT !.pc = "claim"]
    <2>1. p \in PusherSet /\ p.pc = "claim"
      BY <1>1 DEF PusherSet
    <2> HIDE DEF p
    <2>2. PusherOK(p)
      BY <2>1 DEF PusherOK
    <2> QED
      BY <2>1, <2>2 DEF p
  <1>4. ASSUME NEW s \in {"requested", "resolved", "ready", "claim", "delivered", "transient", "permanent"},
               Advance(w, s),
               s \in {"delivered", "transient", "permanent"} => pusher[w].item \in Deliveries
        PROVE  pusher' \in [Slots -> PusherSet] /\ \A v \in Slots : PusherOK(pusher'[v])
    <2> DEFINE p == [pusher[w] EXCEPT !.pc = s]
    <2>1. pusher' = [pusher EXCEPT ![w] = p]
      BY <1>4, PushTyping DEF Advance
    <2>2. p \in PusherSet /\ p.pc = s /\ p.item = pusher[w].item
      BY PushTyping DEF PusherSet
    <2> HIDE DEF p
    <2>3. PusherOK(p)
      BY <1>4, <2>2 DEF PusherOK
    <2> QED
      BY <2>1, <2>2, <2>3, PusherMoves
  <1>5. pusher[w].pc = "send" => pusher[w].item \in Deliveries
    BY DEF PushInv, PusherOK
  <1> QED
    BY <1>1, <1>2, <1>3, <1>4, <1>5

\* The three inserting statements.
LEMMA PushInserts ==
    ASSUME PushInv, NEW w \in Slots, NEW items, NEW s \in {"resolved", "ready", "claim"},
           Materialize(w, items, s),
           \A x \in Deliveries : x \in items /\ x.kind = "resolved" =>
             /\ delivery[Requested(x.device, x.about)].status = "delivered"
             /\ approvalNow[x.about] = "decided"
    PROVE  PushGoal
  <1>1. NewRow(TRUE) \in PushRow /\ RowOK(NewRow(TRUE))
    BY FreshPushRow
  <1>2. delivery' = [x \in Deliveries |->
          IF x \in items /\ delivery[x].status = "none" THEN NewRow(TRUE) ELSE delivery[x]]
    BY DEF Materialize
  <1>3. delivery' \in [Deliveries -> PushRow]
    BY <1>1, <1>2, PushTyping
  <1>4. OutboxMoves(delivery')
    BY <1>1, <1>2, <1>3 DEF OutboxMoves, PushInv
  <1>5. pusher' \in [Slots -> PusherSet] /\ \A v \in Slots : PusherOK(pusher'[v])
    BY PusherGoes DEF Materialize
  <1> QED
    BY <1>4, <1>5, PushRest, PushTyping, PushKeeps DEF Materialize

\* The worker's pass over the outbox before its claim: failing what has no device
\* left, and inserting what has become due.
LEMMA PushFillSteps ==
    ASSUME PushInv, NEW w \in Slots,
           FailInactive(w) \/ MaterializeRequested(w) \/ MaterializeResolved(w) \/ MaterializeReady(w)
    PROVE  PushGoal
  <1>1. CASE FailInactive(w)
    <2> DEFINE items == {x \in Deliveries : Undelivered(x) /\ ~Active(x.device)}
    <2>1. delivery' = FailAll(items) /\ \A x \in items : x \in Deliveries => Undelivered(x)
      BY <1>1 DEF FailInactive
    <2> HIDE DEF items
    <2>2. OutboxMoves(delivery')
      BY <2>1, FailTogether
    <2>3. pusher' \in [Slots -> PusherSet] /\ \A v \in Slots : PusherOK(pusher'[v])
      BY <1>1, PusherGoes DEF FailInactive
    <2> QED
      BY <1>1, <2>2, <2>3, PushRest, PushTyping, PushKeeps DEF FailInactive
  <1>2. CASE MaterializeRequested(w)
    <2> DEFINE items == {x \in Deliveries : /\ x.kind = "requested" /\ Active(x.device)
                                            /\ approvalNow[x.about] = "pending"}
    <2>1. Materialize(w, items, "resolved") /\ \A x \in items : x.kind # "resolved"
      BY <1>2 DEF MaterializeRequested
    <2> HIDE DEF items
    <2> QED
      BY <2>1, PushInserts
  <1>3. CASE MaterializeResolved(w)
    <2> DEFINE items == {x \in Deliveries :
                           /\ x.kind = "resolved" /\ Active(x.device)
                           /\ delivery[Requested(x.device, x.about)].status = "delivered"
                           /\ approvalNow[x.about] = "decided"}
    <2>1. Materialize(w, items, "ready")
      BY <1>3 DEF MaterializeResolved
    <2>2. \A x \in items : /\ delivery[Requested(x.device, x.about)].status = "delivered"
                           /\ approvalNow[x.about] = "decided"
      OBVIOUS
    <2> HIDE DEF items
    <2> QED
      BY <2>1, <2>2, PushInserts
  <1>4. CASE MaterializeReady(w)
    <2> DEFINE items == {SessionReady(d) : d \in {c \in answer.to : answer.age = "fresh" /\ Active(c)}}
    <2>1. Materialize(w, items, "claim")
      BY <1>4 DEF MaterializeReady
    <2>2. \A x \in items : x.kind # "resolved"
      BY DEF SessionReady
    <2> HIDE DEF items
    <2> QED
      BY <2>1, <2>2, PushInserts
  <1> QED
    BY <1>1, <1>2, <1>3, <1>4

\* A claim leases one delivery that was takeable.
LEMMA PushClaimStep ==
    ASSUME PushInv, NEW w \in Slots, ClaimDelivery(w)
    PROVE  PushGoal
  <1>1. ASSUME NEW x \in Deliveries, Takeable(delivery[x]), delivery[x].attempts < MaxPushClaims,
               delivery' = [delivery EXCEPT ![x] = Taken(delivery[x], w)],
               pusher' = [pusher EXCEPT ![w] =
                 [pc |-> "send", item |-> x, lease |-> LeaseOf(Taken(delivery[x], w))]]
        PROVE  PushGoal
    <2> DEFINE r == Taken(delivery[x], w)
               p == [pc |-> "send", item |-> x, lease |-> LeaseOf(r)]
    <2>1. delivery[x] \in PushRow /\ RowOK(delivery[x]) /\ "running" \in PushStatus
      BY PushTyping DEF PushInv, PushStatus
    <2>2. r \in PushRow /\ RowOK(r)
      BY <1>1, <2>1, TakenRow, PushTyping DEF PushRow
    <2>3. LeaseOf(r) \in [owner : LeaseOwners \cup {NoOwner}, epoch : 0..MaxPushClaims]
      BY <2>2 DEF PushRow, Row, LeaseOf
    <2>4. delivery[x].status \in {"queued", "running"}
      BY <1>1 DEF Takeable
    <2> HIDE DEF r
    <2>5. OutboxMoves(delivery')
      BY <1>1, <2>2, <2>4, OneDelivery DEF r
    <2>6. p \in PusherSet /\ PusherOK(p)
      BY <2>3 DEF PusherSet, PusherOK
    <2>7. pusher' \in [Slots -> PusherSet] /\ \A v \in Slots : PusherOK(pusher'[v])
      BY <1>1, <2>6, PusherMoves DEF r
    <2> QED
      BY <2>5, <2>7, PushRest, PushTyping, PushKeeps DEF ClaimDelivery
  <1>2. ASSUME pusher' = [pusher EXCEPT ![w] = Asleep], UNCHANGED delivery
        PROVE  PushGoal
    <2>1. pusher' \in [Slots -> PusherSet] /\ \A v \in Slots : PusherOK(pusher'[v])
      BY <1>2, PusherGoes, PusherMoves
    <2> QED
      BY <1>2, <2>1, PushRest, PushTyping, PushKeeps DEF ClaimDelivery
  <1> QED
    BY <1>1, <1>2 DEF ClaimDelivery

\* The request to the push service: the device may show it.
LEMMA PushSendStep ==
    ASSUME PushInv, NEW w \in Slots, SendPush(w)
    PROVE  PushGoal
  <1>1. pusher[w].item \in Deliveries
    BY DEF PushInv, PusherOK, SendPush
  <1>2. Received(pusher[w].item) \in [PushDevices -> SUBSET PushApprovals]
    <2> DEFINE x == pusher[w].item
    <2>1. /\ x.device \in PushDevices
          /\ x.kind \in {"requested", "resolved"} => x.about \in PushApprovals
      BY <1>1, PushTyping
    <2> HIDE DEF x
    <2>2. shown[x.device] \in SUBSET PushApprovals
      BY <2>1, PushRest
    <2>3. CASE x.kind = "requested"
      <3>1. shown[x.device] \cup {x.about} \in SUBSET PushApprovals
        BY <2>1, <2>2, <2>3
      <3>2. Received(x) = [shown EXCEPT ![x.device] = @ \cup {x.about}]
        BY <2>3 DEF Received
      <3> QED
        BY <2>1, <3>1, <3>2, PushRest DEF x
    <2>4. CASE x.kind = "resolved"
      <3>1. shown[x.device] \ {x.about} \in SUBSET PushApprovals
        BY <2>2
      <3>2. Received(x) = [shown EXCEPT ![x.device] = @ \ {x.about}]
        BY <2>4 DEF Received
      <3> QED
        BY <2>1, <3>1, <3>2, PushRest DEF x
    <2>5. CASE x.kind \notin {"requested", "resolved"}
      BY <2>5, PushRest DEF Received, x
    <2> QED
      BY <2>3, <2>4, <2>5
  <1>3. shown' \in [PushDevices -> SUBSET PushApprovals]
    BY <1>2, PushRest DEF SendPush
  <1>4. pusher' \in [Slots -> PusherSet] /\ \A v \in Slots : PusherOK(pusher'[v])
    BY PusherGoes DEF SendPush
  <1> QED
    BY <1>3, <1>4, PushRest, PushTyping, PushKeeps DEF SendPush

\* A fenced statement: it changes the row its worker still holds, or nothing.
LEMMA PushSettles ==
    ASSUME PushInv, NEW w \in Slots, NEW r, Settle(w, r),
           pusher[w].item \in Deliveries,
           Holds(delivery[pusher[w].item], pusher[w].lease) => r \in PushRow /\ RowOK(r),
           registration' \in [PushDevices -> {"none", "enabled", "disabled"}]
    PROVE  PushGoal
  <1> DEFINE x == pusher[w].item
             held == Holds(delivery[x], pusher[w].lease)
  <1>1. OutboxMoves(delivery')
    <2>1. CASE held
      <3>1. delivery[x].status \in {"queued", "running"}
        BY <2>1 DEF Holds
      <3>2. delivery' = [delivery EXCEPT ![x] = r]
        BY <2>1 DEF Settle
      <3> HIDE DEF x
      <3> QED
        BY <2>1, <3>1, <3>2, OneDelivery DEF x
    <2>2. CASE ~held
      BY <2>2, PushRest DEF Settle
    <2> QED
      BY <2>1, <2>2
  <1>2. pusher' \in [Slots -> PusherSet] /\ \A v \in Slots : PusherOK(pusher'[v])
    <2> DEFINE p == IF held THEN [Asleep EXCEPT !.pc = "claim"] ELSE Asleep
    <2>1. p \in PusherSet /\ PusherOK(p)
      BY PusherGoes
    <2>2. pusher' = [pusher EXCEPT ![w] = p]
      BY DEF Settle
    <2> HIDE DEF p
    <2> QED
      BY <2>1, <2>2, PusherMoves
  <1>3. UNCHANGED <<revokedDevices, approvalNow, answer, shown, pushCrashes>>
    BY DEF Settle
  <1> QED
    BY <1>1, <1>2, <1>3, PushRest, PushKeeps

\* The three ends of an attempt, each only under the lease it was started with.
LEMMA PushSettleSteps ==
    ASSUME PushInv, NEW w \in Slots,
           CompleteDelivery(w) \/ RetryDelivery(w) \/ DropRegistration(w)
    PROVE  PushGoal
  <1> DEFINE x == pusher[w].item
             row == delivery[x]
             held == Holds(row, pusher[w].lease)
  <1>1. x \in Deliveries /\ row \in PushRow /\ RowOK(row)
    <2>1. x \in Deliveries
      BY DEF PushInv, PusherOK, CompleteDelivery, RetryDelivery, DropRegistration
    <2> QED
      BY <2>1, PushTyping DEF PushInv
  <1>2. held => /\ Released(row, "delivered") \in PushRow /\ RowOK(Released(row, "delivered"))
                /\ Released(row, "failed") \in PushRow /\ RowOK(Released(row, "failed"))
                /\ Requeued(row, FALSE) \in PushRow /\ RowOK(Requeued(row, FALSE))
    <2> SUFFICES ASSUME held PROVE
                /\ Released(row, "delivered") \in PushRow /\ RowOK(Released(row, "delivered"))
                /\ Released(row, "failed") \in PushRow /\ RowOK(Released(row, "failed"))
                /\ Requeued(row, FALSE) \in PushRow /\ RowOK(Requeued(row, FALSE))
      OBVIOUS
    <2>1. row.status = "running" /\ row.attempts > 0
      BY <1>1 DEF Holds, RowOK
    <2>2. {"delivered", "failed", "queued"} \subseteq PushStatus
      BY DEF PushStatus
    <2> HIDE DEF row
    <2> QED
      BY <1>1, <2>1, <2>2, ReleasedRow, RequeuedRow, PushTyping DEF PushRow
  <1>3. registration' \in [PushDevices -> {"none", "enabled", "disabled"}]
    <2>1. \/ registration' = registration
          \/ registration' = [registration EXCEPT ![x.device] = "disabled"]
      BY DEF CompleteDelivery, RetryDelivery, DropRegistration
    <2> QED
      BY <2>1, PushRest
  <1>4. \/ Settle(w, Released(row, "delivered")) \/ Settle(w, Released(row, "failed"))
        \/ Settle(w, Requeued(row, FALSE))
    BY DEF CompleteDelivery, RetryDelivery, DropRegistration
  <1> HIDE DEF row
  <1> QED
    BY <1>1, <1>2, <1>3, <1>4, PushSettles DEF row

\* Every step keeps the invariant of the outbox.
LEMMA PushStepKeeps ==
    ASSUME PushInv, [PushNext]_pushVars
    PROVE  PushGoal
  <1>1. ASSUME NEW w \in Slots, CrashPusher(w)
        PROVE  PushGoal
    <2>1. pusher' \in [Slots -> PusherSet] /\ \A v \in Slots : PusherOK(pusher'[v])
      BY <1>1, PusherGoes, PusherMoves DEF CrashPusher
    <2>2. pushCrashes' \in 0..MaxPushCrashes
      BY <1>1, PushRest, PushAssumption DEF CrashPusher
    <2> QED
      BY <1>1, <2>1, <2>2, PushRest, PushTyping, PushKeeps DEF CrashPusher
  <1>2. ASSUME NEW w \in Slots, PushStep(w)
        PROVE  PushGoal
    BY <1>2, PushFillSteps, PushClaimStep, PushSendStep, PushSettleSteps DEF PushStep
  <1>3. CASE UNCHANGED pushVars
    BY <1>3, PushRest, PushTyping, PushKeeps DEF pushVars
  <1> QED
    BY <1>1, <1>2, <1>3, PushWorldSteps, PushApprovalStep, PushAnswerStep, PushElapseStep DEF PushNext

\* The push outbox keeps what it promises for any devices, approvals, workers and
\* retries: a device hears of a decision only after it heard of the request, and a
\* delivery that ended is never touched again, by a late worker either.
THEOREM PushIsCorrect == PushSpec => PushCorrect
  <1>1. PushInit => PushInv
    <2> SUFFICES ASSUME PushInit PROVE PushInv
      OBVIOUS
    <2>1. NoRow \in PushRow /\ RowOK(NoRow) /\ NoRow.status = "none"
      BY FreshPushRow
    <2>2. Asleep \in PusherSet /\ Asleep.pc = "sleep"
      <3>1. LeaseOf(NoRow) \in [owner : LeaseOwners \cup {NoOwner}, epoch : 0..MaxPushClaims]
        BY PushAssumption DEF LeaseOf, NoRow
      <3>2. NoItem \in Deliveries \cup {NoItem}
        OBVIOUS
      <3> QED
        BY <3>1, <3>2 DEF Asleep, PusherSet
    <2> HIDE DEF NoRow, Asleep
    <2>3. PushTypeOK
      <3>1. 0 \in 0..MaxPushCrashes
        BY PushAssumption
      <3> QED
        BY <2>1, <2>2, <3>1 DEF PushInit, PushTypeOK, PushRow, PusherSet
    <2>4. \A d \in PushDevices, a \in PushApprovals : delivery[Resolved(d, a)].status = "none"
      BY <2>1, Messages DEF PushInit
    <2> QED
      BY <2>1, <2>2, <2>3, <2>4 DEF PushInit, PushInv, PusherOK, ToldInOrder
  <1>2. PushInv /\ [PushNext]_pushVars => PushInv'
    BY PushStepKeeps DEF PushGoal
  <1>3. PushInv /\ [PushNext]_pushVars =>
          [\A x \in Deliveries :
             delivery[x].status \in {"delivered", "failed"} => delivery'[x] = delivery[x]]_pushVars
    BY PushStepKeeps DEF PushGoal, Final
  <1>4. PushInv => PushTypeOK /\ ToldInOrder
    BY DEF PushInv
  <1> QED
    BY <1>1, <1>2, <1>3, <1>4, PTL DEF PushSpec, PushCorrect, EndedDeliveryIsFinal

-----------------------------------------------------------------------------
(* The dream queue: its inductive invariant.                               *)

DreamerSet ==
    [pc : {"idle", "claimed", "failing"} \cup Working, d : 0..MaxDreams,
     lease : [owner : LeaseOwners \cup {NoOwner}, epoch : 0..MaxAttempts]]

\* Before and after the memory proposal of a run.
Before == {"claimed", "value", "policies", "environment", "memory"}
After == {"skills", "complete"}

KeysOK(rows, keys) == \A d \in Dreams : rows[d].status = "none" <=> keys[d] = NoKey

SourcesOK(keys, src, logs) ==
    \A d \in Dreams : keys[d].kind = "end" =>
      src[d] \in {i \in DOMAIN logs[keys[d].session] : logs[keys[d].session][i] = "session_end"}

\* A run knows a lease that was given to it, and has proposed when it says so.
DreamerOK(p, rows, n) ==
    p.pc # "idle" =>
      /\ p.d \in Dreams /\ rows[p.d].status # "none" /\ p.lease.epoch <= rows[p.d].epoch
      /\ p.pc \in After => n[p.d] > 0

\* No two runs of a dream were given the same epoch.
Apart(runs) ==
    \A v, w \in Slots :
      v # w /\ runs[v].pc # "idle" /\ runs[w].pc # "idle" /\ runs[v].d = runs[w].d
        => runs[v].lease.epoch # runs[w].lease.epoch

\* Runs that may still propose, and the bound they share with the proposals made.
Pending(runs, d) == {w \in Slots : runs[w].d = d /\ runs[w].pc \in Before}

Counted(rows, runs, n) == \A d \in Dreams : Cardinality(Pending(runs, d)) + n[d] <= rows[d].attempts

DreamInv ==
    /\ DreamTypeOK
    /\ \A d \in Dreams : RowOK(dream[d])
    /\ KeysOK(dream, dkey)
    /\ SourcesOK(dkey, dsource, dlog)
    /\ \A w \in Slots : DreamerOK(dreamer[w], dream, proposed)
    /\ Apart(dreamer)
    /\ Counted(dream, dreamer, proposed)
    /\ CompletedAfterProposals

DreamGoal == DreamInv' /\ WorkStep(Dreams, View(dream), View(dream'))

\* The types the dream proofs use, in the form the provers expand best.
LEMMA DreamTyping ==
    ASSUME DreamInv
    PROVE  /\ dream \in [Dreams -> WorkRow] /\ \A d \in Dreams : RowOK(dream[d])
           /\ dreamer \in [Slots -> DreamerSet]
           /\ proposed \in [Dreams -> Nat] /\ MaxAttempts \in Nat /\ MaxAttempts > 0
           /\ \A d \in Dreams : dream[d].attempts \in Nat /\ dream[d].attempts <= MaxAttempts
           /\ \A d \in Dreams : dream[d].epoch = dream[d].attempts
  <1>1. /\ dream \in [Dreams -> WorkRow] /\ dreamer \in [Slots -> DreamerSet]
        /\ proposed \in [Dreams -> Nat] /\ MaxAttempts \in Nat /\ MaxAttempts > 0
    BY LeaseAssumption DEF DreamInv, DreamTypeOK, WorkRow, DreamerSet
  <1> QED
    BY <1>1 DEF WorkRow, Row, DreamInv, RowOK

\* The runs that still owe a proposal are finitely many.
LEMMA PendingFinite ==
    ASSUME NEW runs, NEW d
    PROVE  IsFiniteSet(Pending(runs, d)) /\ Cardinality(Pending(runs, d)) \in Nat
  <1>1. Pending(runs, d) \in SUBSET Slots
    BY DEF Pending
  <1>2. IsFiniteSet(Pending(runs, d))
    BY <1>1, FS_Subset, LeaseAssumption
  <1> QED
    BY <1>2, FS_CardinalityType

\* Rows that only move on, by a step of the work queue.
RowsGo(rows, next) ==
    /\ next \in [Dreams -> WorkRow]
    /\ \A d \in Dreams : /\ RowOK(next[d])
                         /\ next[d].attempts >= rows[d].attempts
                         /\ rows[d].status # "none" => next[d].status # "none"
    /\ WorkStep(Dreams, View(rows), View(next))

\* A run that stays, ends, or goes on with its lease without having proposed.
MovesOn(p, q) ==
    \/ q.pc = "idle"
    \/ /\ p.pc # "idle" /\ q.d = p.d /\ q.lease = p.lease
       /\ q.pc \in Before => p.pc \in Before
       /\ q.pc \in After => p.pc \in After

\* Runs that move on keep what the invariant says of them.
LEMMA RunsMoveOn ==
    ASSUME DreamInv, NEW rows, RowsGo(dream, rows), NEW runs \in [Slots -> DreamerSet],
           \A w \in Slots : MovesOn(dreamer[w], runs[w])
    PROVE  /\ \A w \in Slots : DreamerOK(runs[w], rows, proposed)
           /\ Apart(runs)
           /\ Counted(rows, runs, proposed)
  <1>0. \A d \in Dreams : /\ rows[d].attempts \in Nat /\ rows[d].epoch = rows[d].attempts
                          /\ rows[d].epoch >= dream[d].epoch
    BY DreamTyping DEF RowsGo, WorkRow, Row, RowOK
  <1>1. ASSUME NEW w \in Slots
        PROVE  DreamerOK(runs[w], rows, proposed)
    <2> SUFFICES ASSUME runs[w].pc # "idle"
                 PROVE  DreamerOK(runs[w], rows, proposed)
      BY DEF DreamerOK
    <2>1. /\ dreamer[w].pc # "idle" /\ runs[w].d = dreamer[w].d /\ runs[w].lease = dreamer[w].lease
          /\ runs[w].pc \in After => dreamer[w].pc \in After
      BY DEF MovesOn
    <2>2. DreamerOK(dreamer[w], dream, proposed) /\ dreamer[w] \in DreamerSet
      BY DreamTyping DEF DreamInv
    <2>3. dreamer[w].lease.epoch \in Nat
      BY <2>2 DEF DreamerSet
    <2>4. dreamer[w].d \in Dreams /\ dream[dreamer[w].d].epoch \in Nat
      BY <2>1, <2>2, DreamTyping DEF DreamerOK
    <2> QED
      BY <1>0, <2>1, <2>2, <2>3, <2>4 DEF DreamerOK, RowsGo
  <1>2. Apart(runs)
    BY DEF Apart, DreamInv, MovesOn
  <1>3. ASSUME NEW d \in Dreams
        PROVE  Cardinality(Pending(runs, d)) + proposed[d] <= rows[d].attempts
    <2>1. Pending(runs, d) \in SUBSET Pending(dreamer, d)
      BY DEF Pending, MovesOn, Before
    <2>2. Cardinality(Pending(runs, d)) <= Cardinality(Pending(dreamer, d))
      BY <2>1, PendingFinite, FS_Subset
    <2>3. Cardinality(Pending(dreamer, d)) + proposed[d] <= dream[d].attempts
      BY DEF DreamInv, Counted
    <2> QED
      BY <1>0, <2>2, <2>3, PendingFinite, DreamTyping DEF RowsGo
  <1> QED
    BY <1>1, <1>2, <1>3 DEF Counted

\* A step whose parts keep theirs keeps the whole.
LEMMA DreamKeeps ==
    ASSUME DreamInv, RowsGo(dream, dream'),
           dkey' \in [Dreams -> Keys \cup {NoKey}], KeysOK(dream', dkey'),
           dsource' \in [Dreams -> 0..MaxDreamLog], SourcesOK(dkey', dsource', dlog'),
           dended' \in [DreamSessions -> BOOLEAN],
           dlog' \in [DreamSessions -> Seq({"dream_queued", "session_end", "other"})],
           derived' \in [DreamSessions -> SUBSET Stages],
           bundles' \in [DreamSessions -> Nat],
           proposed' \in [Dreams -> Nat],
           dreamer' \in [Slots -> DreamerSet],
           \A w \in Slots : DreamerOK(dreamer'[w], dream', proposed'),
           Apart(dreamer'), Counted(dream', dreamer', proposed'),
           \A d \in Dreams : dream'[d].status = "completed" => proposed'[d] > 0
    PROVE  DreamGoal
  <1>1. proposed' \in [Dreams -> 0..MaxAttempts]
    <2>1. ASSUME NEW d \in Dreams
          PROVE  proposed'[d] \in 0..MaxAttempts
      <3>1. /\ Cardinality(Pending(dreamer', d)) + proposed'[d] <= dream'[d].attempts
            /\ Cardinality(Pending(dreamer', d)) \in Nat
        BY PendingFinite DEF Counted
      <3>2. dream'[d].attempts \in 0..MaxAttempts /\ proposed'[d] \in Nat
        BY DEF RowsGo, WorkRow, Row
      <3> QED
        BY <3>1, <3>2, DreamTyping
    <2> QED
      BY <2>1
  <1>2. DreamTypeOK'
    BY <1>1 DEF DreamTypeOK, RowsGo, WorkRow, DreamerSet
  <1>3. CompletedAfterProposals'
    BY DEF CompletedAfterProposals
  <1>4. (\A d \in Dreams : RowOK(dream[d]))'
    BY DEF RowsGo
  <1>5. KeysOK(dream, dkey)' /\ SourcesOK(dkey, dsource, dlog)' /\ Apart(dreamer)'
        /\ Counted(dream, dreamer, proposed)' /\ (\A w \in Slots : DreamerOK(dreamer[w], dream, proposed))'
    BY DEF KeysOK, SourcesOK, Apart, Counted, DreamerOK
  <1>6. DreamInv'
    BY <1>2, <1>3, <1>4, <1>5 DEF DreamInv
  <1> QED
    BY <1>6 DEF DreamGoal, RowsGo

\* The parts of a state that most steps leave alone.
LEMMA DreamRest ==
    ASSUME DreamInv
    PROVE  /\ dkey \in [Dreams -> Keys \cup {NoKey}] /\ KeysOK(dream, dkey)
           /\ dsource \in [Dreams -> 0..MaxDreamLog] /\ SourcesOK(dkey, dsource, dlog)
           /\ dended \in [DreamSessions -> BOOLEAN]
           /\ dlog \in [DreamSessions -> Seq({"dream_queued", "session_end", "other"})]
           /\ derived \in [DreamSessions -> SUBSET Stages]
           /\ bundles \in [DreamSessions -> Nat]
           /\ RowsGo(dream, dream)
           /\ \A w \in Slots : MovesOn(dreamer[w], dreamer[w])
  <1>1. RowsGo(dream, dream)
    BY DreamTyping DEF RowsGo, WorkStep
  <1> QED
    BY <1>1 DEF DreamInv, DreamTypeOK, MovesOn

\* A step of the workers that adds no dream, proposes nothing and completes nothing
\* before its proposals.
LEMMA DreamQuiet ==
    ASSUME DreamInv, RowsGo(dream, dream'), dreamer' \in [Slots -> DreamerSet],
           \A w \in Slots : MovesOn(dreamer[w], dreamer'[w]),
           \A d \in Dreams : dream'[d].status = "none" <=> dream[d].status = "none",
           \A d \in Dreams : dream'[d].status = "completed" =>
                               dream[d].status = "completed" \/ proposed[d] > 0,
           derived' \in [DreamSessions -> SUBSET Stages], bundles' \in [DreamSessions -> Nat],
           dended' \in [DreamSessions -> BOOLEAN],
           UNCHANGED <<dkey, dsource, dlog, proposed>>
    PROVE  DreamGoal
  <1>1. /\ \A w \in Slots : DreamerOK(dreamer'[w], dream', proposed)
        /\ Apart(dreamer') /\ Counted(dream', dreamer', proposed)
    BY RunsMoveOn
  <1>2. KeysOK(dream', dkey')
    BY DreamRest DEF KeysOK
  <1>3. SourcesOK(dkey', dsource', dlog')
    BY DreamRest
  <1>4. \A d \in Dreams : dream'[d].status = "completed" => proposed'[d] > 0
    BY DEF DreamInv, CompletedAfterProposals
  <1> QED
    BY <1>1, <1>2, <1>3, <1>4, DreamRest, DreamTyping, DreamKeeps

\* One run moves.
LEMMA OneRunMoves ==
    ASSUME DreamInv, NEW w \in Slots, NEW p \in DreamerSet, MovesOn(dreamer[w], p),
           dreamer' = [dreamer EXCEPT ![w] = p]
    PROVE  dreamer' \in [Slots -> DreamerSet] /\ \A v \in Slots : MovesOn(dreamer[v], dreamer'[v])
  BY DreamRest, DreamTyping

\* A slot with nothing claimed is typed.
LEMMA IdleRun ==
    Idle \in DreamerSet /\ Idle.pc = "idle"
  <1>1. LeaseOf(NoRow) \in [owner : LeaseOwners \cup {NoOwner}, epoch : 0..MaxAttempts]
    BY LeaseAssumption DEF LeaseOf, NoRow
  <1>2. 0 \in 0..MaxDreams
    BY DreamAssumption
  <1> QED
    BY <1>1, <1>2 DEF Idle, DreamerSet

\* A run moves to its next phase and keeps its dream, its lease and its source.
LEMMA MoveRun ==
    ASSUME DreamInv, NEW w \in Slots, NEW s \in {"failing"} \cup Working, Move(w, s),
           dreamer[w].pc # "idle", s \in Before => dreamer[w].pc \in Before,
           s \in After => dreamer[w].pc \in After
    PROVE  dreamer' \in [Slots -> DreamerSet] /\ \A v \in Slots : MovesOn(dreamer[v], dreamer'[v])
  <1> DEFINE p == [dreamer[w] EXCEPT !.pc = s]
  <1>1. dreamer' = [dreamer EXCEPT ![w] = p]
    BY DreamTyping DEF Move
  <1>2. p \in DreamerSet /\ p.pc = s /\ p.d = dreamer[w].d /\ p.lease = dreamer[w].lease
    BY DreamTyping DEF DreamerSet
  <1> HIDE DEF p
  <1>3. MovesOn(dreamer[w], p)
    BY <1>2 DEF MovesOn
  <1> QED
    BY <1>1, <1>2, <1>3, OneRunMoves

\* One row changes in place.
LEMMA RowGoes ==
    ASSUME DreamInv, NEW d \in Dreams, NEW r \in WorkRow, RowOK(r), r.status # "none",
           r.attempts >= dream[d].attempts,
           WorkStep(Dreams, View(dream), View(Put(dream, d, r))),
           dream' = [dream EXCEPT ![d] = r]
    PROVE  /\ RowsGo(dream, dream')
           /\ \A e \in Dreams : dream'[e] = IF e = d THEN r ELSE dream[e]
  <1>1. dream \in [Dreams -> WorkRow] /\ \A e \in Dreams : dream[e].attempts \in Nat
    BY DreamTyping
  <1>2. /\ dream' = Put(dream, d, r) /\ dream' \in [Dreams -> WorkRow]
        /\ \A e \in Dreams : dream'[e] = IF e = d THEN r ELSE dream[e]
    BY <1>1 DEF Put
  <1>3. ASSUME NEW e \in Dreams
        PROVE  /\ RowOK(dream'[e]) /\ dream'[e].attempts >= dream[e].attempts
               /\ dream[e].status # "none" => dream'[e].status # "none"
    <2>1. CASE e = d
      BY <1>2, <2>1
    <2>2. CASE e # d
      <3>1. dream'[e] = dream[e] /\ dream[e].attempts \in Nat /\ RowOK(dream[e])
        BY <1>1, <1>2, <2>2, DreamTyping
      <3> QED
        BY <3>1
    <2> QED
      BY <2>1, <2>2
  <1> QED
    BY <1>2, <1>3 DEF RowsGo

\* A worker's steps that leave the rows alone.
LEMMA DreamMoveSteps ==
    ASSUME DreamInv, NEW w \in Slots, StartDream(w) \/ BreakDream(w) \/ ProposeSkills(w)
    PROVE  DreamGoal
  <1>0. UNCHANGED <<dream, dkey, dsource, dended, dlog, derived, proposed>>
    BY DEF StartDream, BreakDream, ProposeSkills
  <1>1. dreamer' \in [Slots -> DreamerSet] /\ \A v \in Slots : MovesOn(dreamer[v], dreamer'[v])
    <2>1. CASE dreamer' = [dreamer EXCEPT ![w] = Idle]
      <3>1. MovesOn(dreamer[w], Idle)
        BY IdleRun DEF MovesOn
      <3> QED
        BY <2>1, <3>1, IdleRun, OneRunMoves
    <2>2. CASE StartDream(w) /\ Move(w, "value")
      BY <2>2, MoveRun DEF StartDream, Working, Before, After
    <2>3. CASE BreakDream(w)
      BY <2>3, MoveRun DEF BreakDream, Working, Before, After
    <2>4. CASE ProposeSkills(w)
      BY <2>4, MoveRun DEF ProposeSkills, Working, Before, After
    <2> QED
      BY <2>1, <2>2, <2>3, <2>4 DEF StartDream
  <1>2. bundles' \in [DreamSessions -> Nat]
    <2> DEFINE s == dkey[dreamer[w].d].session
    <2>1. \/ bundles' = bundles
          \/ bundles' = [bundles EXCEPT ![s] = IF bundles[s] = 0 THEN 1 ELSE bundles[s]]
      BY DEF StartDream, BreakDream, ProposeSkills
    <2>2. bundles \in [DreamSessions -> Nat]
      BY DreamRest
    <2> HIDE DEF s
    <2>3. ASSUME NEW b, b = IF bundles[s] = 0 THEN 1 ELSE bundles[s]
          PROVE  [bundles EXCEPT ![s] = b] \in [DreamSessions -> Nat]
      BY <2>2, <2>3
    <2> QED
      BY <2>1, <2>2, <2>3
  <1> QED
    BY <1>0, <1>1, <1>2, DreamRest, DreamQuiet

\* The settling of a dream: only its holder changes it.
LEMMA DreamSettleSteps ==
    ASSUME DreamInv, NEW w \in Slots, CompleteDream(w) \/ FailDream(w)
    PROVE  DreamGoal
  <1> DEFINE d == dreamer[w].d
             held == Holds(dream[d], dreamer[w].lease)
  <1>1. /\ d \in Dreams /\ (CompleteDream(w) => proposed[d] > 0)
        /\ dream[d] \in WorkRow /\ RowOK(dream[d])
    <2>1. d \in Dreams /\ (CompleteDream(w) => proposed[d] > 0)
      BY DEF DreamInv, DreamerOK, CompleteDream, FailDream, After
    <2> QED
      BY <2>1, DreamTyping
  <1>2. dreamer' \in [Slots -> DreamerSet] /\ \A v \in Slots : MovesOn(dreamer[v], dreamer'[v])
    <2>1. MovesOn(dreamer[w], Idle) /\ dreamer' = [dreamer EXCEPT ![w] = Idle]
      BY IdleRun DEF MovesOn, CompleteDream, FailDream
    <2> QED
      BY <2>1, IdleRun, OneRunMoves
  <1>3. UNCHANGED <<dkey, dsource, dended, dlog, derived, proposed, bundles>>
    BY DEF CompleteDream, FailDream
  <1>4. CASE ~held
    <2>1. dream' = dream
      BY <1>4 DEF CompleteDream, FailDream
    <2> QED
      BY <1>2, <1>3, <2>1, DreamRest, DreamQuiet
  <1>5. CASE held /\ CompleteDream(w)
    <2> DEFINE r0 == Released(dream[d], "completed")
               r == [r0 EXCEPT !.ready = TRUE]
    <2>1. dream[d].status = "running" /\ dream[d].attempts > 0 /\ dream[d].attempts \in Nat
      BY <1>1, <1>5, DreamTyping DEF Holds, RowOK
    <2>2. r0 \in WorkRow /\ RowOK(r0) /\ r0.attempts = dream[d].attempts /\ r0.status = "completed"
      BY <1>1, <2>1, ReleasedRow, DreamTyping DEF WorkRow, DreamStatus
    <2>3. dream' = [dream EXCEPT ![d] = r]
      BY <1>5 DEF CompleteDream
    <2> HIDE DEF r0
    <2>4. r \in WorkRow /\ RowOK(r) /\ r.attempts = dream[d].attempts /\ r.status = "completed"
      BY <2>2 DEF WorkRow, Row, RowOK
    <2> HIDE DEF r, d
    <2>5. WorkStep(Dreams, View(dream), View(Put(dream, d, r)))
      BY <1>1, <2>1, <2>4, FinishStep, DreamTyping
    <2>6. /\ RowsGo(dream, dream')
          /\ \A e \in Dreams : dream'[e] = IF e = d THEN r ELSE dream[e]
      <3>1. r.attempts >= dream[d].attempts
        BY <2>1, <2>4
      <3> QED
        BY <1>1, <2>3, <2>4, <2>5, <3>1, RowGoes
    <2> QED
      BY <1>1, <1>2, <1>3, <1>5, <2>1, <2>4, <2>6, DreamRest, DreamQuiet
  <1>6. CASE held /\ FailDream(w)
    <2> DEFINE r == Failed(dream[d])
    <2>1. dream[d].status = "running" /\ dream[d].attempts > 0 /\ dream[d].attempts \in Nat
      BY <1>1, <1>6, DreamTyping DEF Holds, RowOK
    <2>2. /\ r \in WorkRow /\ RowOK(r) /\ r.attempts = dream[d].attempts
          /\ r.status = IF dream[d].attempts >= MaxAttempts THEN "failed" ELSE "queued"
      BY <1>1, <2>1, FailedRow, DreamTyping DEF WorkRow, DreamStatus
    <2>3. dream' = [dream EXCEPT ![d] = r]
      BY <1>6 DEF FailDream
    <2> HIDE DEF r, d
    <2>4. WorkStep(Dreams, View(dream), View(Put(dream, d, r)))
      <3>1. CASE dream[d].attempts >= MaxAttempts
        <4>1. dream[d].attempts = MaxAttempts
          BY <1>1, <3>1, DreamTyping
        <4> QED
          BY <1>1, <2>1, <2>2, <3>1, <4>1, BuryStep, DreamTyping
      <3>2. CASE ~(dream[d].attempts >= MaxAttempts)
        BY <1>1, <2>1, <2>2, <3>2, SameStep, DreamTyping
      <3> QED
        BY <3>1, <3>2
    <2>5. r.status \notin {"none", "completed"}
      BY <2>2
    <2>6. /\ RowsGo(dream, dream')
          /\ \A e \in Dreams : dream'[e] = IF e = d THEN r ELSE dream[e]
      <3>1. r.attempts >= dream[d].attempts
        BY <2>1, <2>2
      <3> QED
        BY <1>1, <2>2, <2>3, <2>4, <2>5, <3>1, RowGoes
    <2> QED
      BY <1>1, <1>2, <1>3, <2>1, <2>5, <2>6, DreamRest, DreamQuiet
  <1> QED
    BY <1>4, <1>5, <1>6

\* One row changes in a column that is neither its status nor its attempts.
LEMMA DreamRowKept ==
    ASSUME DreamInv, NEW d \in Dreams, NEW r \in WorkRow, RowOK(r), r.status = dream[d].status,
           r.attempts = dream[d].attempts, r.status # "none", dream' = [dream EXCEPT ![d] = r]
    PROVE  /\ RowsGo(dream, dream')
           /\ \A e \in Dreams : dream'[e].status = dream[e].status
  <1>1. WorkStep(Dreams, View(dream), View(Put(dream, d, r)))
    BY SameStep, DreamTyping
  <1>2. r.attempts >= dream[d].attempts
    BY DreamTyping
  <1>3. RowsGo(dream, dream') /\ \A e \in Dreams : dream'[e] = IF e = d THEN r ELSE dream[e]
    BY <1>1, <1>2, RowGoes
  <1> QED
    BY <1>3

\* The lease of a dream runs down.
LEMMA DreamElapseStep ==
    ASSUME DreamInv, NEW d \in Dreams, ElapseDream(d)
    PROVE  DreamGoal
  <1> DEFINE r == Elapse(dream[d])
  <1>1. dream[d] \in WorkRow /\ RowOK(dream[d]) /\ dream \in [Dreams -> WorkRow]
    BY DreamTyping
  <1>2. /\ r \in WorkRow /\ RowOK(r) /\ r.status = dream[d].status
        /\ r.attempts = dream[d].attempts
    BY <1>1, ElapsedRow, DreamTyping DEF WorkRow
  <1>3. dream' = [dream EXCEPT ![d] = r] /\ dream' # dream
    BY DEF ElapseDream
  <1>4. r.status # "none"
    <2> SUFFICES ASSUME r.status = "none" PROVE FALSE
      OBVIOUS
    <2>1. Elapse(dream[d]) = dream[d]
      BY <1>1, <1>2 DEF Elapse, WorkRow, Row
    <2> QED
      BY <1>1, <1>3, <2>1
  <1> HIDE DEF r
  <1>5. RowsGo(dream, dream') /\ \A e \in Dreams : dream'[e].status = dream[e].status
    BY <1>2, <1>3, <1>4, DreamRowKept
  <1> QED
    BY <1>5, DreamRest, DreamTyping, DreamQuiet DEF ElapseDream

\* The heartbeat of a run renews its lease, or finds it lost.
LEMMA DreamHeartbeatStep ==
    ASSUME DreamInv, NEW w \in Slots, HeartbeatDream(w)
    PROVE  DreamGoal
  <1> DEFINE d == dreamer[w].d
             held == Holds(dream[d], dreamer[w].lease)
             r == Renewed(dream[d])
  <1>1. d \in Dreams /\ dream[d] \in WorkRow /\ RowOK(dream[d]) /\ dreamer[w].pc # "idle"
    <2>1. d \in Dreams /\ dreamer[w].pc # "idle"
      BY DEF DreamInv, DreamerOK, HeartbeatDream, Working
    <2> QED
      BY <2>1, DreamTyping
  <1>2. UNCHANGED <<dkey, dsource, dended, dlog, derived, proposed, bundles>>
    BY DEF HeartbeatDream
  <1>3. CASE held
    <2>1. /\ r \in WorkRow /\ RowOK(r) /\ r.status = dream[d].status
          /\ r.attempts = dream[d].attempts /\ r.status # "none"
      BY <1>1, <1>3, RenewedRow, DreamTyping DEF WorkRow, Holds
    <2>2. dream' = [dream EXCEPT ![d] = r] /\ dreamer' = dreamer
      BY <1>3 DEF HeartbeatDream
    <2> HIDE DEF r, d
    <2>3. RowsGo(dream, dream') /\ \A e \in Dreams : dream'[e].status = dream[e].status
      BY <1>1, <2>1, <2>2, DreamRowKept
    <2> QED
      BY <1>2, <2>2, <2>3, DreamRest, DreamTyping, DreamQuiet
  <1>4. CASE ~held
    <2>1. dream' = dream /\ Move(w, "failing")
      BY <1>4 DEF HeartbeatDream, Move
    <2>2. dreamer' \in [Slots -> DreamerSet] /\ \A v \in Slots : MovesOn(dreamer[v], dreamer'[v])
      BY <1>1, <2>1, MoveRun DEF Before, After
    <2> QED
      BY <1>2, <2>1, <2>2, DreamRest, DreamQuiet
  <1> QED
    BY <1>3, <1>4

\* The process stops: its runs are forgotten, its rows stay leased.
LEMMA DreamCrashStep ==
    ASSUME DreamInv, NEW o, CrashDreams(o)
    PROVE  DreamGoal
  <1>1. dreamer' \in [Slots -> DreamerSet] /\ \A v \in Slots : MovesOn(dreamer[v], dreamer'[v])
    <2>1. dreamer' = [w \in Slots |-> IF OwnerOf[w] = o THEN Idle ELSE dreamer[w]]
      BY DEF CrashDreams
    <2> QED
      BY <2>1, IdleRun, DreamRest, DreamTyping DEF MovesOn
  <1> QED
    BY <1>1, DreamRest, DreamQuiet DEF CrashDreams

\* claim_ready_dream_bounded when it settles spent dreams only.
LEMMA DreamSweepStep ==
    ASSUME DreamInv, NEW w \in Slots, SweepDreams(w)
    PROVE  DreamGoal
  <1>1. dream' = Swept(dream) /\ dream \in [Dreams -> WorkRow] /\ \A d \in Dreams : RowOK(dream[d])
    BY DreamTyping DEF SweepDreams
  <1>2. WorkStep(Dreams, View(dream), View(dream'))
    BY <1>1, SweepStep
  <1>3. /\ dream' \in [Dreams -> WorkRow]
        /\ \A d \in Dreams : /\ RowOK(dream'[d]) /\ dream'[d].attempts = dream[d].attempts
                             /\ dream'[d] = dream[d] \/ dream'[d].status = "failed"
                             /\ dream'[d].status = "none" <=> dream[d].status = "none"
    BY <1>1, SweptRows
  <1>4. RowsGo(dream, dream')
    BY <1>2, <1>3, DreamTyping DEF RowsGo
  <1>5. UNCHANGED <<dkey, dsource, dended, dlog, derived, proposed, bundles, dreamer>>
    BY DEF SweepDreams
  <1> QED
    BY <1>3, <1>4, <1>5, DreamRest, DreamTyping, DreamQuiet

\* A claim gives its run an epoch no other run has, and one more proposal to make.
LEMMA DreamClaimStep ==
    ASSUME DreamInv, NEW w \in Slots, ClaimDream(w)
    PROVE  DreamGoal
  <1>0. dream \in [Dreams -> WorkRow] /\ \A e \in Dreams : RowOK(dream[e])
    BY DreamTyping
  <1>1. PICK d \in Ready :
          /\ dream' = [Swept(dream) EXCEPT ![d] = Taken(dream[d], w)]
          /\ dreamer' = [dreamer EXCEPT ![w] =
               [pc |-> "claimed", d |-> d, lease |-> LeaseOf(Taken(dream[d], w))]]
    BY DEF ClaimDream
  <1> DEFINE r == Taken(dream[d], w)
             p == [pc |-> "claimed", d |-> d, lease |-> LeaseOf(r)]
  <1>2. /\ d \in Dreams /\ dream[d].attempts < MaxAttempts
        /\ dream[d].status \in {"queued", "running"} /\ dreamer[w].pc = "idle"
        /\ UNCHANGED <<dkey, dsource, dended, dlog, derived, proposed, bundles>>
    BY <1>1 DEF Ready, Takeable, ClaimDream
  <1>3. /\ r \in WorkRow /\ RowOK(r) /\ r.status = "running"
        /\ r.attempts = dream[d].attempts + 1 /\ r.epoch = dream[d].epoch + 1
    BY <1>0, <1>2, TakenRow, DreamTyping DEF WorkRow, DreamStatus
  <1>4. /\ LeaseOf(r) \in [owner : LeaseOwners \cup {NoOwner}, epoch : 0..MaxAttempts]
        /\ LeaseOf(r).epoch = r.epoch
    BY <1>3 DEF WorkRow, Row, LeaseOf
  <1> HIDE DEF r
  <1>5. p \in DreamerSet
    <2>1. d \in 0..MaxDreams
      BY <1>2, DreamAssumption DEF Dreams
    <2> QED
      BY <1>4, <2>1 DEF DreamerSet
  <1>6. /\ dreamer' \in [Slots -> DreamerSet]
        /\ \A v \in Slots : dreamer'[v] = IF v = w THEN p ELSE dreamer[v]
    BY <1>1, <1>5, DreamTyping DEF r
  <1>7. /\ Swept(dream) \in [Dreams -> WorkRow]
        /\ \A e \in Dreams : /\ RowOK(Swept(dream)[e]) /\ Swept(dream)[e].attempts = dream[e].attempts
                             /\ Swept(dream)[e] = dream[e] \/ Swept(dream)[e].status = "failed"
                             /\ Swept(dream)[e].status = "none" <=> dream[e].status = "none"
                             /\ Swept(dream)[e].epoch = dream[e].epoch
    BY <1>0, SweptRows
  <1>8. /\ dream' = Put(Swept(dream), d, r) /\ dream' \in [Dreams -> WorkRow]
        /\ \A e \in Dreams : dream'[e] = IF e = d THEN r ELSE Swept(dream)[e]
    BY <1>1, <1>2, <1>3, <1>7 DEF Put, r
  <1>9. WorkStep(Dreams, View(dream), View(dream'))
    BY <1>0, <1>2, <1>3, <1>8, ClaimStep
  <1>10. ASSUME NEW e \in Dreams
         PROVE  /\ RowOK(dream'[e]) /\ dream'[e].attempts >= dream[e].attempts
                /\ dream'[e].status = "none" <=> dream[e].status = "none"
                /\ dream'[e].status = "completed" => dream[e].status = "completed"
                /\ dream'[e].attempts \in Nat
                /\ dream'[e].epoch = dream'[e].attempts
    <2>1. CASE e = d
      BY <1>2, <1>3, <1>8, <2>1, DreamTyping DEF RowOK
    <2>2. CASE e # d
      BY <1>7, <1>8, <2>2, DreamTyping DEF RowOK
    <2> QED
      BY <2>1, <2>2
  <1>11. RowsGo(dream, dream')
    BY <1>8, <1>9, <1>10 DEF RowsGo
  <1>12. ASSUME NEW v \in Slots
         PROVE  DreamerOK(dreamer'[v], dream', proposed')
    <2>1. CASE v = w
      <3>1. dreamer'[v] = p /\ p.pc = "claimed" /\ p.d = d /\ p.lease.epoch = r.epoch
        BY <1>4, <1>6, <2>1
      <3>2. dream'[d] = r /\ r.epoch \in Nat
        BY <1>2, <1>3, <1>8, DreamTyping
      <3> HIDE DEF p
      <3> QED
        BY <1>2, <1>3, <3>1, <3>2 DEF DreamerOK, After
    <2>2. CASE v # w
      <3>1. dreamer'[v] = dreamer[v] /\ DreamerOK(dreamer[v], dream, proposed) /\ dreamer[v] \in DreamerSet
        BY <1>6, <2>2, DreamTyping DEF DreamInv
      <3>2. dreamer[v].lease.epoch \in Nat
        BY <3>1 DEF DreamerSet
      <3> QED
        BY <1>2, <1>10, <3>1, <3>2, DreamTyping DEF DreamerOK
    <2> QED
      BY <2>1, <2>2
  <1>13. ASSUME NEW v \in Slots, v # w, dreamer[v].pc # "idle", dreamer[v].d = d
         PROVE  dreamer[v].lease.epoch # p.lease.epoch
    <2>1. dreamer[v].lease.epoch <= dream[d].epoch /\ dreamer[v] \in DreamerSet
      BY <1>13, DreamTyping DEF DreamInv, DreamerOK
    <2>2. dreamer[v].lease.epoch \in Nat /\ dream[d].epoch \in Nat
      BY <1>2, <2>1, DreamTyping DEF DreamerSet
    <2> QED
      BY <1>3, <1>4, <2>1, <2>2
  <1>14. Apart(dreamer')
    <2>1. p.d = d /\ p.pc # "idle"
      OBVIOUS
    <2> HIDE DEF p
    <2> QED
      BY <1>6, <1>13, <2>1 DEF Apart, DreamInv
  <1>15. ASSUME NEW e \in Dreams
         PROVE  Cardinality(Pending(dreamer', e)) + proposed'[e] <= dream'[e].attempts
    <2>0. Cardinality(Pending(dreamer, e)) + proposed[e] <= dream[e].attempts
      BY DEF DreamInv, Counted
    <2>1. CASE e = d
      <3>1. w \notin Pending(dreamer, d)
        BY <1>2 DEF Pending, Before
      <3>2. Pending(dreamer', d) = Pending(dreamer, d) \cup {w}
        BY <1>6 DEF Pending, Before
      <3>3. Cardinality(Pending(dreamer', d)) = Cardinality(Pending(dreamer, d)) + 1
        BY <3>1, <3>2, PendingFinite, FS_AddElement
      <3>4. dream'[d].attempts = dream[d].attempts + 1
        BY <1>2, <1>3, <1>8
      <3> QED
        BY <1>2, <2>0, <2>1, <3>3, <3>4, PendingFinite, DreamTyping
    <2>2. CASE e # d
      <3>1. Pending(dreamer', e) = Pending(dreamer, e)
        BY <1>2, <1>6, <2>2 DEF Pending, Before
      <3> QED
        BY <1>2, <1>10, <2>0, <3>1, PendingFinite, DreamTyping
    <2> QED
      BY <2>1, <2>2
  <1>16. KeysOK(dream', dkey')
    BY <1>2, <1>10, DreamRest DEF KeysOK
  <1>17. \A e \in Dreams : dream'[e].status = "completed" => proposed'[e] > 0
    BY <1>2, <1>10 DEF DreamInv, CompletedAfterProposals
  <1>18. Counted(dream', dreamer', proposed')
    BY <1>15 DEF Counted
  <1> HIDE DEF p
  <1> QED
    BY <1>2, <1>6, <1>11, <1>12, <1>14, <1>16, <1>17, <1>18, DreamRest, DreamTyping, DreamKeeps

\* A proposal uses up what its run had to make.
LEMMA DreamProposeStep ==
    ASSUME DreamInv, NEW w \in Slots, ProposeMemory(w)
    PROVE  DreamGoal
  <1> DEFINE d == dreamer[w].d
             p == [dreamer[w] EXCEPT !.pc = "skills"]
  <1>1. d \in Dreams /\ dreamer[w].pc = "memory"
    BY DEF ProposeMemory, DreamInv, DreamerOK
  <1>2. /\ proposed' = [proposed EXCEPT ![d] = proposed[d] + 1]
        /\ UNCHANGED <<dream, dkey, dsource, dended, dlog, derived, bundles>>
    BY DEF ProposeMemory
  <1>3. dreamer' = [dreamer EXCEPT ![w] = p]
    BY DreamTyping DEF ProposeMemory, Move
  <1>4. p \in DreamerSet /\ p.pc = "skills" /\ p.d = d /\ p.lease = dreamer[w].lease
    <2>1. "skills" \in Working
      BY DEF Working
    <2> QED
      BY <2>1, DreamTyping DEF DreamerSet
  <1> HIDE DEF p
  <1>5. /\ dreamer' \in [Slots -> DreamerSet]
        /\ \A v \in Slots : dreamer'[v] = IF v = w THEN p ELSE dreamer[v]
    BY <1>3, <1>4, DreamTyping
  <1>6. /\ proposed' \in [Dreams -> Nat]
        /\ \A e \in Dreams : proposed'[e] = IF e = d THEN proposed[e] + 1 ELSE proposed[e]
    BY <1>1, <1>2, DreamTyping
  <1>7. ASSUME NEW v \in Slots
        PROVE  DreamerOK(dreamer'[v], dream', proposed')
    <2>1. DreamerOK(dreamer[v], dream, proposed)
      BY DEF DreamInv
    <2>2. CASE v = w
      BY <1>1, <1>2, <1>4, <1>5, <1>6, <2>1, <2>2, DreamTyping DEF DreamerOK
    <2>3. CASE v # w
      <3>1. dreamer'[v] = dreamer[v]
        BY <1>5, <2>3
      <3>2. \A e \in Dreams : proposed[e] > 0 => proposed'[e] > 0
        BY <1>6, DreamTyping
      <3> QED
        BY <1>2, <2>1, <3>1, <3>2 DEF DreamerOK
    <2> QED
      BY <2>2, <2>3
  <1>8. Apart(dreamer')
    BY <1>1, <1>4, <1>5 DEF Apart, DreamInv
  <1>9. ASSUME NEW e \in Dreams
        PROVE  Cardinality(Pending(dreamer', e)) + proposed'[e] <= dream'[e].attempts
    <2>0. Cardinality(Pending(dreamer, e)) + proposed[e] <= dream[e].attempts
      BY DEF DreamInv, Counted
    <2>1. CASE e = d
      <3>1. w \in Pending(dreamer, d)
        BY <1>1 DEF Pending, Before
      <3>2. Pending(dreamer', d) = Pending(dreamer, d) \ {w}
        BY <1>4, <1>5 DEF Pending, Before
      <3>3. Cardinality(Pending(dreamer', d)) = Cardinality(Pending(dreamer, d)) - 1
        BY <3>1, <3>2, PendingFinite, FS_RemoveElement, ZenonT(30)
      <3> HIDE DEF d
      <3> QED
        BY <1>1, <1>2, <1>6, <2>0, <2>1, <3>3, PendingFinite, DreamTyping
    <2>2. CASE e # d
      <3>1. Pending(dreamer', e) = Pending(dreamer, e)
        BY <1>4, <1>5, <2>2 DEF Pending, Before
      <3> QED
        BY <1>2, <1>6, <2>0, <2>2, <3>1
    <2> QED
      BY <2>1, <2>2
  <1>10. Counted(dream', dreamer', proposed')
    BY <1>9 DEF Counted
  <1>11. \A e \in Dreams : dream'[e].status = "completed" => proposed'[e] > 0
    BY <1>2, <1>6, DreamTyping DEF DreamInv, CompletedAfterProposals
  <1> QED
    BY <1>2, <1>5, <1>6, <1>7, <1>8, <1>10, <1>11, DreamRest, DreamKeeps

EndsOf(log) == {i \in DOMAIN log : log[i] = "session_end"}

\* Logs whose session ends stay where they are.
LogsGrow(logs, next) == \A s \in DreamSessions : EndsOf(logs[s]) \subseteq EndsOf(next[s])

\* No key is the missing one, and a key names a session.
LEMMA KeyFacts ==
    /\ NoKey \notin Keys /\ NoKey.kind # "end"
    /\ \A k \in Keys : k.session \in DreamSessions
  BY DEF NoKey, Keys

\* A source stays a session's end while the logs grow.
LEMMA SourcesStay ==
    ASSUME DreamInv, NEW logs, LogsGrow(dlog, logs)
    PROVE  SourcesOK(dkey, dsource, logs)
  <1>1. ASSUME NEW d \in Dreams, dkey[d].kind = "end"
        PROVE  dsource[d] \in EndsOf(logs[dkey[d].session])
    <2>1. dkey[d].session \in DreamSessions
      BY <1>1, DreamRest, KeyFacts
    <2>2. dsource[d] \in EndsOf(dlog[dkey[d].session])
      BY <1>1, DreamRest DEF SourcesOK, EndsOf
    <2> QED
      BY <2>1, <2>2 DEF LogsGrow
  <1> QED
    BY <1>1 DEF SourcesOK, EndsOf

\* A queued dream is new, or one of the same key that keeps a source it has.
LEMMA EnqueueGoes ==
    ASSUME DreamInv, NEW key \in Keys, NEW source, NEW ready \in BOOLEAN,
           Enqueue(key, source, ready),
           key.kind # "end" \/ Keyed(key) = {} => source \in 0..MaxDreamLog,
           NEW logs, LogsGrow(dlog, logs),
           Keyed(key) = {} /\ key.kind = "end" => source \in EndsOf(logs[key.session])
    PROVE  /\ RowsGo(dream, dream')
           /\ dkey' \in [Dreams -> Keys \cup {NoKey}] /\ KeysOK(dream', dkey')
           /\ dsource' \in [Dreams -> 0..MaxDreamLog] /\ SourcesOK(dkey', dsource', logs)
           /\ \A d \in Dreams : dream'[d].status = "completed" => dream[d].status = "completed"
  <1>0. /\ dream \in [Dreams -> WorkRow] /\ dkey \in [Dreams -> Keys \cup {NoKey}]
        /\ dsource \in [Dreams -> 0..MaxDreamLog] /\ KeysOK(dream, dkey)
        /\ SourcesOK(dkey, dsource, logs) /\ SourcesOK(dkey, dsource, dlog)
        /\ RowsGo(dream, dream)
    BY DreamTyping, DreamRest, SourcesStay
  <1>1. CASE Keyed(key) # {}
    <2>1. /\ UNCHANGED <<dream, dkey>>
          /\ dsource' = [d \in Dreams |-> IF d \in Keyed(key) /\ dsource[d] = 0
                                          THEN source ELSE dsource[d]]
      BY <1>1 DEF Enqueue
    <2>2. ASSUME NEW d \in Dreams, dkey[d].kind = "end"
          PROVE  dsource'[d] = dsource[d]
      <3>1. dkey[d].session \in DreamSessions /\ dsource[d] \in DOMAIN dlog[dkey[d].session]
        BY <1>0, <2>2, KeyFacts DEF SourcesOK
      <3>2. dsource[d] # 0
        BY <3>1, DreamRest
      <3> QED
        BY <2>1, <3>2
    <2>3. ASSUME NEW d \in Dreams
          PROVE  dsource'[d] \in 0..MaxDreamLog
      BY <1>0, <2>1, <2>2 DEF Keyed
    <2>4. SourcesOK(dkey', dsource', logs)
      BY <1>0, <2>1, <2>2 DEF SourcesOK
    <2>5. dsource' \in [Dreams -> 0..MaxDreamLog]
      BY <2>1, <2>3
    <2> QED
      BY <1>0, <2>1, <2>4, <2>5
  <1>2. CASE Keyed(key) = {}
    <2>1. PICK d \in Dreams :
            /\ dkey[d] = NoKey
            /\ dream' = [dream EXCEPT ![d] = NewRow(ready)]
            /\ dkey' = [dkey EXCEPT ![d] = key]
            /\ dsource' = [dsource EXCEPT ![d] = source]
      BY <1>2 DEF Enqueue
    <2> DEFINE r == NewRow(ready)
    <2>2. r \in WorkRow /\ RowOK(r) /\ r.status = "queued" /\ r.attempts = 0
      BY FreshWorkRow
    <2> HIDE DEF r
    <2>3. dream[d].status = "none" /\ dream[d].attempts = 0
      BY <1>0, <2>1, DreamTyping DEF KeysOK, RowOK
    <2>4. dream' = [dream EXCEPT ![d] = r]
      BY <2>1 DEF r
    <2>5. WorkStep(Dreams, View(dream), View(Put(dream, d, r)))
      BY <1>0, <2>2, <2>3, AddStep
    <2>6. r.status # "none" /\ r.attempts >= dream[d].attempts
      BY <2>2, <2>3
    <2>7. RowsGo(dream, dream') /\ \A e \in Dreams : dream'[e] = IF e = d THEN r ELSE dream[e]
      BY <2>2, <2>4, <2>5, <2>6, RowGoes
    <2>8. /\ dkey' \in [Dreams -> Keys \cup {NoKey}]
          /\ \A e \in Dreams : dkey'[e] = IF e = d THEN key ELSE dkey[e]
      BY <1>0, <2>1
    <2>9. /\ dsource' \in [Dreams -> 0..MaxDreamLog]
          /\ \A e \in Dreams : dsource'[e] = IF e = d THEN source ELSE dsource[e]
      BY <1>0, <1>2, <2>1
    <2>10. KeysOK(dream', dkey')
      BY <1>0, <2>6, <2>7, <2>8, KeyFacts DEF KeysOK
    <2>11. SourcesOK(dkey', dsource', logs)
      BY <1>0, <1>2, <2>8, <2>9 DEF SourcesOK, EndsOf
    <2>12. \A e \in Dreams : dream'[e].status = "completed" => dream[e].status = "completed"
      BY <2>2, <2>7
    <2> QED
      BY <2>7, <2>8, <2>9, <2>10, <2>11, <2>12
  <1> QED
    BY <1>1, <1>2

\* A step that may add a dream and log events, and proposes nothing.
LEMMA DreamAdds ==
    ASSUME DreamInv, RowsGo(dream, dream'),
           dkey' \in [Dreams -> Keys \cup {NoKey}], KeysOK(dream', dkey'),
           dsource' \in [Dreams -> 0..MaxDreamLog], SourcesOK(dkey', dsource', dlog'),
           \A d \in Dreams : dream'[d].status = "completed" => dream[d].status = "completed",
           dended' \in [DreamSessions -> BOOLEAN],
           dlog' \in [DreamSessions -> Seq({"dream_queued", "session_end", "other"})],
           dreamer' \in [Slots -> DreamerSet], \A w \in Slots : MovesOn(dreamer[w], dreamer'[w]),
           UNCHANGED <<derived, proposed, bundles>>
    PROVE  DreamGoal
  <1>1. /\ \A w \in Slots : DreamerOK(dreamer'[w], dream', proposed)
        /\ Apart(dreamer') /\ Counted(dream', dreamer', proposed)
    BY RunsMoveOn
  <1>2. \A d \in Dreams : dream'[d].status = "completed" => proposed'[d] > 0
    BY DEF DreamInv, CompletedAfterProposals
  <1> QED
    BY <1>1, <1>2, DreamRest, DreamTyping, DreamKeeps

\* A stage succeeds, or fails and queues the dream that tries it again.
LEMMA DreamDeriveStep ==
    ASSUME DreamInv, NEW w \in Slots, NEW stage \in Stages, DeriveStage(w, stage)
    PROVE  DreamGoal
  <1> DEFINE d == dreamer[w].d
             s == dkey[d].session
  <1>1. d \in Dreams /\ dreamer[w].pc = stage /\ stage \in Before
    <2>1. dreamer[w].pc = stage /\ stage \in Before /\ stage # "idle"
      BY DEF DeriveStage, Stages, Before
    <2> QED
      BY <2>1 DEF DreamInv, DreamerOK
  <1>2. dkey[d] \in Keys /\ s \in DreamSessions
    <2>1. dream[d].status # "none"
      BY <1>1 DEF DreamInv, DreamerOK, Before
    <2> QED
      BY <1>1, <2>1, DreamRest, KeyFacts DEF KeysOK
  <1>3. CASE /\ derived' = [derived EXCEPT ![s] = @ \cup {stage}]
             /\ Move(w, StageAfter[stage])
             /\ UNCHANGED <<dream, dkey, dsource>>
    <2>1. /\ StageAfter[stage] \in {"failing"} \cup Working
          /\ StageAfter[stage] \in Before /\ StageAfter[stage] \notin After
      BY DEF StageAfter, Stages, Working, Before, After
    <2>2. dreamer' \in [Slots -> DreamerSet] /\ \A v \in Slots : MovesOn(dreamer[v], dreamer'[v])
      BY <1>1, <1>3, <2>1, MoveRun DEF Before
    <2>3. derived' \in [DreamSessions -> SUBSET Stages]
      <3>1. derived \in [DreamSessions -> SUBSET Stages]
        BY DreamRest
      <3> QED
        BY <1>2, <1>3, <3>1
    <2>4. UNCHANGED <<dended, dlog, proposed, bundles>>
      BY DEF DeriveStage
    <2> QED
      BY <1>3, <2>2, <2>3, <2>4, DreamRest, DreamQuiet
  <1>4. CASE /\ Enqueue(SuccessorKey(stage, d), dsource[d], FALSE)
             /\ Move(w, "memory")
             /\ UNCHANGED derived
    <2>1. SuccessorKey(stage, d) \in Keys /\ SuccessorKey(stage, d).kind # "end"
      BY <1>1, <1>2 DEF SuccessorKey, Keys, Stages
    <2>2. dsource[d] \in 0..MaxDreamLog /\ LogsGrow(dlog, dlog)
      BY <1>1, DreamRest DEF LogsGrow
    <2>3. /\ RowsGo(dream, dream')
          /\ dkey' \in [Dreams -> Keys \cup {NoKey}] /\ KeysOK(dream', dkey')
          /\ dsource' \in [Dreams -> 0..MaxDreamLog] /\ SourcesOK(dkey', dsource', dlog)
          /\ \A e \in Dreams : dream'[e].status = "completed" => dream[e].status = "completed"
      <3> DEFINE key == SuccessorKey(stage, d)
      <3>1. key \in Keys /\ key.kind # "end" /\ Enqueue(key, dsource[d], FALSE)
        BY <1>4, <2>1
      <3> HIDE DEF key, d
      <3> QED
        BY <2>2, <3>1, EnqueueGoes
    <2>4. dreamer' \in [Slots -> DreamerSet] /\ \A v \in Slots : MovesOn(dreamer[v], dreamer'[v])
      BY <1>1, <1>4, MoveRun DEF Working, Before, After
    <2>5. UNCHANGED <<derived, dended, dlog, proposed, bundles>>
      BY <1>4 DEF DeriveStage
    <2> QED
      BY <2>3, <2>4, <2>5, DreamRest, DreamAdds
  <1> QED
    BY <1>3, <1>4 DEF DeriveStage

\* What an append leaves of a session's ends.
LEMMA AppendKeepsEnds ==
    ASSUME NEW s \in DreamSessions, NEW more \in Seq({"dream_queued", "session_end", "other"}),
           dlog \in [DreamSessions -> Seq({"dream_queued", "session_end", "other"})],
           NEW logs, logs = [dlog EXCEPT ![s] = dlog[s] \o more]
    PROVE  /\ logs \in [DreamSessions -> Seq({"dream_queued", "session_end", "other"})]
           /\ LogsGrow(dlog, logs)
           /\ logs[s] = dlog[s] \o more
  <1>1. dlog[s] \o more \in Seq({"dream_queued", "session_end", "other"})
    OBVIOUS
  <1>2. EndsOf(dlog[s]) \subseteq EndsOf(dlog[s] \o more)
    BY DEF EndsOf
  <1>3. \A t \in DreamSessions : logs[t] = IF t = s THEN dlog[s] \o more ELSE dlog[t]
    OBVIOUS
  <1>4. LogsGrow(dlog, logs)
    BY <1>2, <1>3 DEF LogsGrow
  <1> QED
    BY <1>1, <1>3, <1>4

\* The transaction that ends a session: a dream it adds names the event it logs.
LEMMA DreamEndStep ==
    ASSUME DreamInv, NEW s \in DreamSessions, EndSessionAndEnqueueDream(s)
    PROVE  DreamGoal
  <1> DEFINE Events == {"dream_queued", "session_end", "other"}
             inserts == Keyed(EndKey(s)) = {}
             emitsEnd == ~dended[s] \/ Ends(s) = {} \/ inserts
             queued == IF inserts THEN <<"dream_queued">> ELSE <<>>
             end == IF emitsEnd THEN <<"session_end">> ELSE <<>>
             source == IF emitsEnd THEN EndSeq(s, inserts)
                       ELSE CHOOSE i \in Ends(s) : \A j \in Ends(s) : j <= i
             log == (dlog[s] \o queued) \o end
  <1>1. /\ Len(dlog[s]) + Len(queued) + Len(end) <= MaxDreamLog
        /\ dended' = [dended EXCEPT ![s] = TRUE]
        /\ dlog' = [dlog EXCEPT ![s] = log]
        /\ Enqueue(EndKey(s), source, TRUE)
        /\ UNCHANGED <<derived, proposed, bundles, dreamer>>
    BY DEF EndSessionAndEnqueueDream
  <1>2. dlog[s] \in Seq(Events) /\ dlog \in [DreamSessions -> Seq(Events)]
    BY DreamRest
  <1>3. queued \in Seq(Events) /\ end \in Seq(Events) /\ queued \o end \in Seq(Events)
    <2>1. /\ <<"dream_queued">> \in Seq(Events) /\ <<"session_end">> \in Seq(Events)
          /\ <<>> \in Seq(Events)
      OBVIOUS
    <2>2. queued \in Seq(Events) /\ end \in Seq(Events)
      BY <2>1
    <2> HIDE DEF queued, end
    <2> QED
      BY <2>2
  <1>4. log = dlog[s] \o (queued \o end)
    <2>1. ASSUME NEW a \in Seq(Events), NEW b \in Seq(Events), NEW c \in Seq(Events)
          PROVE  (a \o b) \o c = a \o (b \o c)
      BY SMTT(30)
    <2> QED
      BY <1>2, <1>3, <2>1, ZenonT(30)
  <1>5. /\ dlog' \in [DreamSessions -> Seq(Events)] /\ LogsGrow(dlog, dlog') /\ dlog'[s] = log
    BY <1>1, <1>2, <1>3, <1>4, AppendKeepsEnds
  <1>6. ASSUME inserts
        PROVE  source \in 0..MaxDreamLog /\ source \in EndsOf(log)
    <2>1. /\ queued = <<"dream_queued">> /\ end = <<"session_end">>
          /\ source = Len(dlog[s]) + 2
      BY <1>6 DEF EndSeq
    <2>2. Len(dlog[s]) \in Nat /\ Len(queued) = 1 /\ Len(end) = 1
      BY <1>2, <2>1
    <2>4. /\ log \in Seq(Events) /\ Len(log) = Len(dlog[s]) + 2
          /\ log[Len(dlog[s]) + 2] = "session_end"
      <3>1. ASSUME NEW a \in Seq(Events), NEW b, b = (a \o <<"dream_queued">>) \o <<"session_end">>
            PROVE  b \in Seq(Events) /\ Len(b) = Len(a) + 2 /\ b[Len(a) + 2] = "session_end"
        BY <3>1
      <3>2. log = (dlog[s] \o <<"dream_queued">>) \o <<"session_end">>
        BY <2>1
      <3> HIDE DEF log
      <3> QED
        BY <1>2, <3>1, <3>2
    <2>6. Len(dlog[s]) + Len(queued) + Len(end) <= MaxDreamLog
      BY <1>1
    <2> HIDE DEF source, queued, end
    <2>3. source \in 0..MaxDreamLog
      BY <2>1, <2>2, <2>6, DreamAssumption
    <2> HIDE DEF source, log
    <2>5. source \in DOMAIN log
      BY <2>1, <2>2, <2>4
    <2> QED
      BY <2>1, <2>3, <2>4, <2>5 DEF EndsOf
  <1>7. EndKey(s) \in Keys /\ EndKey(s).kind = "end" /\ EndKey(s).session = s
    BY DEF EndKey, Keys
  <1>8. dended' \in [DreamSessions -> BOOLEAN]
    BY <1>1, DreamRest
  <1>9. /\ RowsGo(dream, dream')
        /\ dkey' \in [Dreams -> Keys \cup {NoKey}] /\ KeysOK(dream', dkey')
        /\ dsource' \in [Dreams -> 0..MaxDreamLog] /\ SourcesOK(dkey', dsource', dlog')
        /\ \A e \in Dreams : dream'[e].status = "completed" => dream[e].status = "completed"
    <2> DEFINE key == EndKey(s)
    <2>1. /\ key \in Keys /\ key.kind = "end" /\ key.session = s /\ Enqueue(key, source, TRUE)
          /\ Keyed(key) = {} => source \in 0..MaxDreamLog /\ source \in EndsOf(dlog'[key.session])
      BY <1>1, <1>5, <1>6, <1>7
    <2> HIDE DEF key, source
    <2> QED
      BY <1>5, <2>1, EnqueueGoes
  <1> HIDE DEF source, log, queued, end, emitsEnd, inserts
  <1> QED
    BY <1>1, <1>5, <1>8, <1>9, DreamRest, DreamTyping, DreamAdds

\* The other steps of a session.
LEMMA DreamSessionSteps ==
    ASSUME DreamInv, NEW s \in DreamSessions, EndSessionOnly(s) \/ AppendOther(s)
    PROVE  DreamGoal
  <1>1. CASE EndSessionOnly(s)
    <2>1. dended' \in [DreamSessions -> BOOLEAN]
      BY <1>1, DreamRest DEF EndSessionOnly
    <2> QED
      BY <1>1, <2>1, DreamRest, DreamTyping, DreamQuiet DEF EndSessionOnly
  <1>2. CASE AppendOther(s)
    <2>1. /\ dlog \in [DreamSessions -> Seq({"dream_queued", "session_end", "other"})]
          /\ <<"other">> \in Seq({"dream_queued", "session_end", "other"})
      BY DreamRest
    <2>2. dlog' = [dlog EXCEPT ![s] = dlog[s] \o <<"other">>]
      <3>1. Append(dlog[s], "other") = dlog[s] \o <<"other">>
        BY <2>1
      <3> QED
        BY <1>2, <3>1 DEF AppendOther
    <2>3. /\ dlog' \in [DreamSessions -> Seq({"dream_queued", "session_end", "other"})]
          /\ LogsGrow(dlog, dlog')
      BY <2>1, <2>2, AppendKeepsEnds
    <2>4. UNCHANGED <<dream, dkey, dsource, dended, derived, proposed, bundles, dreamer>>
      BY <1>2 DEF AppendOther
    <2>5. SourcesOK(dkey', dsource', dlog')
      BY <2>3, <2>4, SourcesStay
    <2> QED
      BY <2>3, <2>4, <2>5, DreamRest, DreamTyping, DreamAdds
  <1> QED
    BY <1>1, <1>2

\* The state of the work queue that the dreams stand for.
DreamsQueued ==
    [d \in Dreams |-> [state |-> CASE dream[d].status = "none" -> "absent"
                                   [] dream[d].status = "completed" -> "done"
                                   [] dream[d].status = "failed" -> "dead"
                                   [] OTHER -> "open",
                       tries |-> dream[d].attempts]]

\* The steps on the view of the dreams are those of their LeasedWork.
LEMMA DreamNextWork ==
    ASSUME NextWork(Dreams, DreamsQueued, DreamsQueued')
    PROVE  DreamWork!WorkNext
  BY DEF NextWork, GivenUp, DreamsQueued, DreamWork!WorkNext, DreamWork!Add, DreamWork!AddAndTry,
         DreamWork!Finish, DreamWork!Claim, DreamWork!GiveUpOn, DreamWork!Spendable

\* An empty queue satisfies the invariant and maps to an empty LeasedWork.
LEMMA DreamInitInv ==
    ASSUME DreamInit
    PROVE  DreamInv /\ DreamWork!WorkInit
  <1>1. /\ \A d \in Dreams : dream[d] = NoRow
        /\ NoRow \in WorkRow /\ RowOK(NoRow) /\ NoRow.status = "none" /\ NoRow.attempts = 0
        /\ NoRow.epoch = 0
    BY FreshWorkRow DEF DreamInit
  <1>2. Idle \in DreamerSet /\ Idle.pc = "idle"
    BY IdleRun
  <1> HIDE DEF Idle, NoRow
  <1>3. 0 \in 0..MaxDreamLog /\ 0 \in 0..MaxAttempts
    BY DreamAssumption, LeaseAssumption
  <1>4. dreamer \in [Slots -> DreamerSet] /\ \A w \in Slots : dreamer[w] = Idle
    BY <1>2 DEF DreamInit
  <1>5. DreamTypeOK
    <2>1. /\ dream \in [Dreams -> Row(DreamStatus, MaxAttempts)]
          /\ dkey \in [Dreams -> Keys \cup {NoKey}]
          /\ dsource \in [Dreams -> 0..MaxDreamLog]
          /\ dended \in [DreamSessions -> BOOLEAN]
          /\ proposed \in [Dreams -> 0..MaxAttempts]
      BY <1>1, <1>3 DEF DreamInit, WorkRow
    <2>2. /\ dlog \in [DreamSessions -> Seq({"dream_queued", "session_end", "other"})]
          /\ derived \in [DreamSessions -> SUBSET Stages]
          /\ bundles \in [DreamSessions -> Nat]
      BY DEF DreamInit
    <2> QED
      BY <1>4, <2>1, <2>2 DEF DreamTypeOK, DreamerSet
  <1>6. \A d \in Dreams : dkey[d] = NoKey /\ proposed[d] = 0
    BY DEF DreamInit
  <1>7. KeysOK(dream, dkey) /\ SourcesOK(dkey, dsource, dlog)
    BY <1>1, <1>6, KeyFacts DEF KeysOK, SourcesOK
  <1>8. Counted(dream, dreamer, proposed)
    <2>1. ASSUME NEW d \in Dreams
          PROVE  Cardinality(Pending(dreamer, d)) + proposed[d] <= dream[d].attempts
      <3>1. Pending(dreamer, d) = {}
        BY <1>2, <1>4 DEF Pending, Before
      <3>2. Cardinality(Pending(dreamer, d)) = 0
        BY <3>1, FS_EmptySet
      <3> QED
        BY <1>1, <1>6, <3>2
    <2> QED
      BY <2>1 DEF Counted
  <1>9. (\A w \in Slots : DreamerOK(dreamer[w], dream, proposed)) /\ Apart(dreamer)
    BY <1>2, <1>4 DEF DreamerOK, Apart
  <1>10. DreamInv
    BY <1>1, <1>5, <1>7, <1>8, <1>9 DEF DreamInv, CompletedAfterProposals
  <1>11. DreamWork!WorkInit
    BY <1>1 DEF DreamWork!WorkInit
  <1> QED
    BY <1>10, <1>11

\* Every step keeps the invariant and maps to a step of LeasedWork.
LEMMA DreamStepInv ==
    ASSUME DreamInv, [DreamNext]_dreamVars
    PROVE  DreamInv' /\ (DreamWork!WorkNext \/ DreamsQueued' = DreamsQueued)
  <1>1. DreamGoal
    <2>1. CASE DreamNext
      <3>1. ASSUME NEW s \in DreamSessions,
                   EndSessionAndEnqueueDream(s) \/ EndSessionOnly(s) \/ AppendOther(s)
            PROVE  DreamGoal
        BY <3>1, DreamEndStep, DreamSessionSteps
      <3>2. ASSUME NEW w \in Slots, DreamStep(w) \/ HeartbeatDream(w)
            PROVE  DreamGoal
        BY <3>2, DreamClaimStep, DreamSweepStep, DreamMoveSteps, DreamDeriveStep, DreamProposeStep,
           DreamSettleSteps, DreamHeartbeatStep DEF DreamStep
      <3> QED
        BY <2>1, <3>1, <3>2, DreamElapseStep, DreamCrashStep DEF DreamNext
    <2>2. CASE UNCHANGED dreamVars
      BY <2>2, DreamRest, DreamTyping, DreamQuiet DEF dreamVars
    <2> QED
      BY <2>1, <2>2
  <1>2. DreamInv' /\ WorkStep(Dreams, View(dream), View(dream'))
    BY <1>1 DEF DreamGoal
  <1>3. dream \in [Dreams -> WorkRow] /\ dream' \in [Dreams -> WorkRow]
    BY <1>2 DEF DreamInv, DreamTypeOK, WorkRow
  <1>4. /\ View(dream) \in [Dreams -> Item] /\ View(dream) = DreamsQueued
        /\ View(dream') = DreamsQueued'
    BY <1>3, ViewIsWork DEF DreamsQueued, Abs
  <1>5. NextWork(Dreams, DreamsQueued, DreamsQueued') \/ DreamsQueued' = DreamsQueued
    BY <1>2, <1>4, WorkStepIsNextWork
  <1> QED
    BY <1>2, <1>5, DreamNextWork

\* The dream queue, for any number of workers, sessions, dreams and attempts: two
\* runs never hold one lease, a completed dream has proposed, an end dream names
\* a session_end event of its session, and every step of a row is one the bounded
\* work queue allows (claim_ready_dream_bounded, complete_dream, fail_dream,
\* heartbeat_dream and end_session_and_enqueue_dream under retries and crashes).
THEOREM DreamsAreCorrect == DreamSpec => DreamsCorrect
  <1>1. DreamInv => DreamTypeOK /\ OneDreamHolder /\ CompletedAfterProposals /\ SourceIsSessionEnd
    <2> SUFFICES ASSUME DreamInv
                 PROVE  OneDreamHolder /\ SourceIsSessionEnd
      BY DEF DreamInv
    <2>1. OneDreamHolder
      BY DEF DreamInv, OneDreamHolder, Apart, Holds
    <2>2. SourceIsSessionEnd
      BY DEF DreamInv, SourceIsSessionEnd, SourcesOK, Ends
    <2> QED
      BY <2>1, <2>2
  <1>2. DreamInit => DreamInv /\ DreamWork!WorkInit
    BY DreamInitInv
  <1>3. DreamInv /\ [DreamNext]_dreamVars => DreamInv'
    BY DreamStepInv
  <1>4. DreamInv /\ [DreamNext]_dreamVars =>
          [DreamWork!WorkNext]_([d \in Dreams |->
             [state |-> CASE dream[d].status = "none" -> "absent"
                          [] dream[d].status = "completed" -> "done"
                          [] dream[d].status = "failed" -> "dead"
                          [] OTHER -> "open",
              tries |-> dream[d].attempts]])
    <2>1. DreamInv /\ [DreamNext]_dreamVars => DreamWork!WorkNext \/ DreamsQueued' = DreamsQueued
      BY DreamStepInv
    <2> QED
      BY <2>1 DEF DreamsQueued
  <1> QED
    BY <1>1, <1>2, <1>3, <1>4, PTL
       DEF DreamSpec, DreamsCorrect, DreamsAreLeasedWork, DreamWork!WorkSpec

-----------------------------------------------------------------------------
(* The actors of an agent tree.                                            *)

TokenSet == Actors \X Incs
ActorEnds == {"absent", "live", "completed", "failed", "cancelled"}
ActorRecord ==
  [end : ActorEnds, parent : Actors \cup {Root}, kind : {"spawn", "run", "wave"}, inc : 0..MaxInc]
TreeItem == [op : {"cancel", "stop", "restart"}, who : Actors]
RunStates == {"none", "queued", "running", "gone"} \cup Outcomes

TreeTypes ==
  /\ rec \in [Actors -> ActorRecord]
  /\ children \in [Groups -> Seq(Actors)]
  /\ attempts \in [Actors -> Nat]
  /\ tripped \subseteq TokenSet /\ stray \subseteq TokenSet
  /\ exec \in [TokenSet -> RunStates]
  /\ todo \in [TokenSet -> Seq(TreeItem)]
  /\ endedBy \in [Actors -> 0..MaxInc]

\* A group lists actors that were registered, each once, and every actor is listed.
Listed(seq, a) == \E k \in 1..Len(seq) : seq[k] = a
ChildrenHold ==
  /\ \A g \in Groups :
       /\ \A k \in 1..Len(children[g]) : rec[children[g][k]].end # "absent"
       /\ \A k, l \in 1..Len(children[g]) : children[g][k] = children[g][l] => k = l
  /\ \A a \in Actors : rec[a].end # "absent" => Listed(children[GroupOf(a)], a)

RecordHolds(a) ==
  /\ rec[a].end = "absent" <=> rec[a].inc = 0
  /\ rec[a].kind = "wave" => rec[a].inc = 1
  /\ rec[a].end \in {"completed", "failed", "cancelled"} => endedBy[a] \in {0, rec[a].inc}

\* What is left to do can hold a restart only of the reporter, and then nothing else.
RestartsItself(a, s) ==
  \A k \in 1..Len(s) : s[k].op = "restart" => Len(s) = 1 /\ s[k].who = a /\ rec[a].kind # "wave"

\* Later incarnations have not begun, earlier ones are over or have been told to stop.
ThreadHolds(a, i) ==
  LET t == <<a, i>> IN
  /\ i > rec[a].inc => exec[t] = "none" /\ t \notin stray
  /\ i < rec[a].inc => exec[t] = "gone" /\ (t \in stray => t \in tripped)
  /\ i # rec[a].inc => todo[t] = <<>>
  /\ todo[t] # <<>> => exec[t] = "gone"
  /\ t \in stray => exec[t] \in {"timeout", "gone"}
  /\ t \in stray /\ (exec[t] = "timeout" \/ \E k \in 1..Len(todo[t]) : todo[t][k].op = "restart")
       => t \in tripped
  /\ RestartsItself(a, todo[t])

\* A live member of a wave with a failed member has been told to stop, or will be.
Named(s, b) == \E k \in 1..Len(s) : s[k].op \in {"cancel", "stop"} /\ s[k].who = b
WaveHolds ==
  \A a \in Actors : rec[a].kind = "wave" /\ rec[a].end = "failed" =>
    /\ exec[<<a, 1>>] = "gone"
    /\ \A b \in Actors : rec[b].kind = "wave" /\ rec[b].end = "live" =>
         <<b, 1>> \in tripped \/ Named(todo[<<a, 1>>], b)

ActorInv ==
  /\ TreeTypes /\ ChildrenHold /\ WaveHolds
  /\ \A a \in Actors : RecordHolds(a)
  /\ \A a \in Actors, i \in Incs : ThreadHolds(a, i)

\* What agents.spawn configures unless its options ask for another strategy with restarts:
\* one_for_one with any number of them, or a group without any.
DefaultSupervision == Strategy = "one_for_one" \/ MaxRestarts = 0

-----------------------------------------------------------------------------
(* The sequences of a supervisor.                                          *)

LEMMA TokenPairs ==
  ASSUME NEW t \in TokenSet
  PROVE  t[1] \in Actors /\ t[2] \in Incs /\ t = <<t[1], t[2]>>
BY DEF TokenSet

LEMMA SetToSeqMeans ==
  ASSUME NEW S \in SUBSET Actors
  PROVE  /\ SetToSeq(S) \in Seq(Actors)
         /\ \A k \in 1..Len(SetToSeq(S)) : SetToSeq(S)[k] \in S
         /\ \A k, l \in 1..Len(SetToSeq(S)) : SetToSeq(S)[k] = SetToSeq(S)[l] => k = l
         /\ \A b \in S : Listed(SetToSeq(S), b)
<1>1. IsFiniteSet(S) /\ Cardinality(S) \in Nat
  BY ActorConstants, FS_Subset, FS_CardinalityType DEF ActorConstants
<1>2. PICK n \in Nat : n = Cardinality(S)
  BY <1>1
<1>3. \E f \in [1..n -> S] : IsInjective(f)
  <2>1. ExistsBijection(1..n, S)
    BY <1>1, <1>2, FS_CardinalityType
  <2> QED  BY <2>1 DEF ExistsBijection, Bijection, Injection, IsInjective
<1>4. PICK f : f = SetToSeq(S) /\ f \in [1..n -> S] /\ IsInjective(f)
  BY <1>2, <1>3 DEF SetToSeq
<1>5. f \in Seq(Actors) /\ Len(f) = n
  BY <1>4
<1>6. \A b \in S : \E k \in 1..n : f[k] = b
  <2>1. IsFiniteSet(1..n) /\ Cardinality(1..n) = n
    BY FS_Interval
  <2>2. f \in Injection(1..n, S)
    BY <1>4 DEF Injection
  <2>3. f \in Surjection(1..n, S)
    BY <1>1, <1>2, <2>1, <2>2, FS_Injection
  <2> QED  BY <2>3 DEF Surjection
<1> QED  BY <1>4, <1>5, <1>6 DEF IsInjective, Listed

LEMMA AsMeans ==
  ASSUME NEW s \in Seq(Actors), NEW o \in {"cancel", "stop", "restart"}
  PROVE  /\ As(o, s) \in Seq(TreeItem) /\ Len(As(o, s)) = Len(s)
         /\ \A k \in 1..Len(s) : As(o, s)[k].op = o /\ As(o, s)[k].who = s[k]
<1>1. As(o, s) = [k \in 1..Len(s) |-> [op |-> o, who |-> s[k]]] /\ Len(s) \in Nat
  BY DEF As
<1>2. \A k \in 1..Len(s) : [op |-> o, who |-> s[k]] \in TreeItem
  BY DEF TreeItem
<1> QED  BY <1>1, <1>2

LEMMA SubtreeMeans ==
  ASSUME NEW a \in Actors
  PROVE  Subtree(a) \in SUBSET Actors /\ a \in Subtree(a)
BY DEF Subtree

LEMMA SiblingsMean ==
  ASSUME NEW s \in Seq(Actors), NEW a \in Actors, Listed(s, a)
  PROVE  /\ Others(s, a) \in Seq(Actors) /\ YoungerSiblings(s, a) \in Seq(Actors)
         /\ \A b \in Actors : b # a /\ Listed(s, b) => Listed(Others(s, a), b)
<1>1. PICK f : f = FailedIndex(s, a) /\ f \in 1..Len(s) /\ s[f] = a /\ Len(s) \in Nat
  BY DEF FailedIndex, Listed
<1>2. PICK u : u = SubSeq(s, 1, f - 1)
  OBVIOUS
<1>3. u \in Seq(Actors) /\ Len(u) = f - 1
  BY <1>1, <1>2
<1>4. \A k \in 1..f - 1 : u[k] = s[k]
  BY <1>1, <1>2
<1>5. PICK v : v = SubSeq(s, f + 1, Len(s))
  OBVIOUS
<1>6. v \in Seq(Actors) /\ Len(v) = Len(s) - f
  BY <1>1, <1>5
<1>7. \A k \in 1..Len(s) - f : v[k] = s[f + k]
  BY <1>1, <1>5
<1>8. Others(s, a) = u \o v /\ YoungerSiblings(s, a) = v
  BY <1>1, <1>2, <1>5 DEF Others, YoungerSiblings, RemoveAt
<1>9. u \o v \in Seq(Actors) /\ Len(u \o v) = Len(s) - 1
  BY <1>1, <1>3, <1>6
<1>10. \A k \in 1..Len(s) - 1 : (u \o v)[k] = IF k <= f - 1 THEN u[k] ELSE v[k - (f - 1)]
  <2>1. \A k \in 1..Len(u) + Len(v) : (u \o v)[k] = IF k <= Len(u) THEN u[k] ELSE v[k - Len(u)]
    BY <1>3, <1>6, ConcatProperties
  <2>2. Len(u) + Len(v) = Len(s) - 1 /\ Len(u) = f - 1
    BY <1>1, <1>3, <1>6
  <2> QED  BY <2>1, <2>2
<1>11. ASSUME NEW b \in Actors, b # a, Listed(s, b) PROVE Listed(u \o v, b)
  <2>1. PICK m \in 1..Len(s) : s[m] = b /\ m # f
    BY <1>1, <1>11 DEF Listed
  <2>2. CASE m < f
    <3>1. m \in 1..Len(s) - 1 /\ m \in 1..f - 1 /\ m <= f - 1
      BY <1>1, <2>1, <2>2
    <3>2. (u \o v)[m] = b
      BY <1>4, <1>10, <2>1, <3>1
    <3> QED  BY <1>9, <3>1, <3>2 DEF Listed
  <2>3. CASE m > f
    <3>1. m - 1 \in 1..Len(s) - 1 /\ (u \o v)[m - 1] = v[m - f] /\ m - f \in 1..Len(s) - f
      <4>1. m - 1 \in 1..Len(s) - 1 /\ ~(m - 1 <= f - 1) /\ (m - 1) - (f - 1) = m - f
        BY <1>1, <2>1, <2>3
      <4>2. m - f \in 1..Len(s) - f
        BY <1>1, <2>1, <2>3
      <4> QED  BY <1>10, <4>1, <4>2
    <3>2. v[m - f] = s[f + (m - f)] /\ f + (m - f) = m
      <4>1. f + (m - f) = m
        BY <1>1, <2>1
      <4> QED  BY <1>7, <3>1, <4>1
    <3> QED  BY <1>9, <2>1, <3>1, <3>2 DEF Listed
  <2> QED  BY <1>1, <2>1, <2>2, <2>3
<1> QED  BY <1>6, <1>8, <1>9, <1>11

-----------------------------------------------------------------------------
(* What a step leaves alone.                                               *)

\* What a report decides: its own restart, or cancellations only.
LEMMA DecisionMeans ==
  ASSUME DefaultSupervision, ActorInv, NEW a \in Actors, rec[a].end # "absent"
  PROVE  /\ Decision(a) \in Seq(TreeItem) /\ RestartsItself(a, Decision(a))
         /\ rec[a].kind = "wave" =>
              \A b \in Actors : rec[b].kind = "wave" /\ rec[b].end = "live" /\ b # a => Named(Decision(a), b)
<1>1. PICK g \in Groups : g = GroupOf(a)
  <2>1. rec[a].parent \in Actors \cup {Root}
    BY DEF ActorInv, TreeTypes, ActorRecord
  <2> QED  BY <2>1 DEF GroupOf, Groups
<1>2. children[g] \in Seq(Actors) /\ Listed(children[g], a)
  BY <1>1 DEF ActorInv, TreeTypes, ChildrenHold
<1>3. PICK c : c = CancelTargets(g, a)
  OBVIOUS
<1>4. PICK r : r = IF OutOfRestarts(a) THEN <<>> ELSE As("restart", RestartTargets(g, a))
  OBVIOUS
<1>5. Decision(a) = As("cancel", c) \o r
  BY <1>1, <1>3, <1>4 DEF Decision
<1>6. /\ Strategy \in {"one_for_one", "one_for_all", "rest_for_one"}
      /\ StrategyOf(g) \in {"one_for_one", "one_for_all", "rest_for_one"}
  BY ActorConstants DEF ActorConstants, StrategyOf
<1>7. c \in Seq(Actors)
  BY <1>2, <1>3, <1>6, SiblingsMean DEF CancelTargets
<1>8. attempts[a] \in Nat
  BY DEF ActorInv, TreeTypes
<1>9. CASE OutOfRestarts(a)
  <2>1. r = <<>> /\ As("cancel", c) \in Seq(TreeItem)
    BY <1>4, <1>7, <1>9, AsMeans
  <2>2. Decision(a) = As("cancel", c)
    BY <1>5, <2>1, ConcatEmptySeq
  <2>3. \A k \in 1..Len(c) : As("cancel", c)[k].op = "cancel" /\ As("cancel", c)[k].who = c[k]
    BY <1>7, AsMeans
  <2>4. Len(As("cancel", c)) = Len(c)
    BY <1>7, AsMeans
  <2>5. RestartsItself(a, Decision(a))
    BY <2>2, <2>3, <2>4 DEF RestartsItself
  <2>6. ASSUME rec[a].kind = "wave", NEW b \in Actors, rec[b].kind = "wave", rec[b].end = "live", b # a
        PROVE  Named(Decision(a), b)
    <3>1. g = "wave" /\ GroupOf(b) = "wave"
      BY <1>1, <2>6 DEF GroupOf
    <3>2. c = Others(children[g], a)
      BY <1>3, <3>1 DEF CancelTargets, StrategyOf
    <3>3. Listed(children[g], b)
      BY <2>6, <3>1 DEF ActorInv, ChildrenHold
    <3>4. Listed(c, b)
      BY <1>2, <2>6, <3>2, <3>3, SiblingsMean
    <3> QED  BY <2>2, <2>3, <2>4, <3>4 DEF Listed, Named
  <2> QED  BY <2>1, <2>2, <2>5, <2>6
<1>10. CASE ~OutOfRestarts(a)
  <2>1. g # "wave" /\ MaxRestarts # 0
    BY <1>1, <1>8, <1>10, ActorConstants DEF OutOfRestarts, RestartsOf, ActorConstants
  <2>2. StrategyOf(g) = "one_for_one"
    BY <2>1 DEF DefaultSupervision, StrategyOf
  <2>3. c = <<>> /\ RestartTargets(g, a) = <<a>>
    BY <1>3, <2>2 DEF CancelTargets, RestartTargets
  <2>4. rec[a].kind # "wave"
    BY <1>1, <2>1 DEF GroupOf
  <2>5. <<a>> \in Seq(Actors) /\ Len(<<a>>) = 1 /\ <<a>>[1] = a
    OBVIOUS
  <2>6. r = As("restart", <<a>>) /\ r \in Seq(TreeItem) /\ Len(r) = 1 /\ r[1].who = a
    <3>0. PICK one : one = <<a>>
      OBVIOUS
    <3>1. one \in Seq(Actors) /\ one = <<a>> /\ Len(one) = 1 /\ 1 \in 1..Len(one)
      BY <2>5, <3>0
    <3>4. one[1] = a
      BY <3>0
    <3>2. r = As("restart", one)
      BY <1>4, <1>10, <2>3, <3>1
    <3>3. /\ As("restart", one) \in Seq(TreeItem) /\ Len(As("restart", one)) = Len(one)
          /\ \A k \in 1..Len(one) : As("restart", one)[k].who = one[k]
      BY <3>1, AsMeans
    <3> QED  BY <3>1, <3>2, <3>3, <3>4
  <2>7. As("cancel", c) \in Seq(TreeItem) /\ Len(As("cancel", c)) = 0
    BY <1>7, <2>3, AsMeans
  <2>8. As("cancel", c) = <<>>
    BY <2>7
  <2>9. Decision(a) = r
    BY <1>5, <2>6, <2>8, ConcatEmptySeq
  <2> QED  BY <2>4, <2>6, <2>9 DEF RestartsItself
<1> QED  BY <1>9, <1>10

\* Incarnations of actors whose record, thread and work stay.
LEMMA ThreadStays ==
  ASSUME ActorInv, NEW a \in Actors, NEW i \in Incs,
         rec'[a].inc = rec[a].inc, rec'[a].kind = rec[a].kind,
         exec'[<<a, i>>] = exec[<<a, i>>], todo'[<<a, i>>] = todo[<<a, i>>],
         <<a, i>> \in stray' => <<a, i>> \in stray, tripped \subseteq tripped'
  PROVE  ThreadHolds(a, i)'
<1>1. ThreadHolds(a, i)
  BY DEF ActorInv
<1>2. RestartsItself(a, todo[<<a, i>>])'
  BY <1>1 DEF ThreadHolds, RestartsItself
<1> QED  BY <1>1, <1>2 DEF ThreadHolds

\* Actors keep their place in the tree.
SamePlace ==
  \A a \in Actors : /\ rec'[a].parent = rec[a].parent /\ rec'[a].kind = rec[a].kind
                    /\ rec'[a].end = "absent" <=> rec[a].end = "absent"

LEMMA ChildrenStay ==
  ASSUME ActorInv, SamePlace, children' = children
  PROVE  ChildrenHold'
<1>1. \A g \in Groups : \A k \in 1..Len(children[g]) : children[g][k] \in Actors
  BY DEF ActorInv, TreeTypes
<1>2. \A a \in Actors : GroupOf(a)' = GroupOf(a)
  BY DEF SamePlace, GroupOf
<1> QED  BY <1>1, <1>2 DEF ActorInv, ChildrenHold, SamePlace

\* Nobody fails or comes to life, and nobody's work is taken away unfinished.
LEMMA WaveStays ==
  ASSUME ActorInv, tripped \subseteq tripped',
         \A a \in Actors : /\ rec'[a].kind = rec[a].kind
                           /\ rec'[a].end = "failed" => rec[a].end = "failed"
                           /\ rec'[a].end = "live" => rec[a].end = "live"
                           /\ exec[<<a, 1>>] = "gone" => exec'[<<a, 1>>] = "gone",
         \A a, b \in Actors : rec'[b].end = "live" /\ Named(todo[<<a, 1>>], b) =>
                                 Named(todo'[<<a, 1>>], b) \/ <<b, 1>> \in tripped'
  PROVE  WaveHolds'
BY DEF ActorInv, WaveHolds

-----------------------------------------------------------------------------
(* The steps.                                                              *)

LEMMA TreeBegins == ActorInit => ActorInv
<1> SUFFICES ASSUME ActorInit PROVE ActorInv
  OBVIOUS
<1>1. Absent \in ActorRecord /\ Absent.end = "absent" /\ Absent.inc = 0 /\ Absent.kind = "spawn"
  BY ActorConstants DEF Absent, ActorRecord, ActorEnds, ActorConstants
<1>2. TreeTypes
  <2>1. 0 \in 0..MaxInc
    BY ActorConstants DEF ActorConstants
  <2>2. children \in [Groups -> Seq(Actors)] /\ todo \in [TokenSet -> Seq(TreeItem)]
    BY DEF ActorInit, TokenSet
  <2>3. exec \in [TokenSet -> RunStates]
    BY DEF ActorInit, TokenSet, RunStates
  <2> QED  BY <1>1, <2>1, <2>2, <2>3 DEF ActorInit, TreeTypes
<1>3. \A a \in Actors, i \in Incs : <<a, i>> \in TokenSet
  BY DEF TokenSet
<1>4. ASSUME NEW a \in Actors, NEW i \in Incs PROVE ThreadHolds(a, i)
  <2>1. rec[a].inc = 0 /\ i \in Nat /\ i > 0
    BY <1>1, ActorConstants DEF ActorInit, Incs, ActorConstants
  <2>2. exec[<<a, i>>] = "none" /\ todo[<<a, i>>] = <<>> /\ stray = {}
    BY <1>3 DEF ActorInit, TokenSet
  <2> QED  BY <2>1, <2>2 DEF ThreadHolds, RestartsItself
<1>5. ChildrenHold /\ WaveHolds /\ \A a \in Actors : RecordHolds(a)
  BY <1>1 DEF ActorInit, ChildrenHold, WaveHolds, RecordHolds
<1> QED  BY <1>2, <1>4, <1>5 DEF ActorInv

\* Registration of new actors, one or a wave.
LEMMA EnrolHolds ==
  ASSUME ActorInv, NEW S \in SUBSET Actors, NEW p \in Actors \cup {Root},
         NEW kind \in {"spawn", "run", "wave"},
         \A a \in S : rec[a].end = "absent", kind = "wave" => children["wave"] = <<>>,
         Enrolled(S, p, kind), UNCHANGED <<attempts, tripped, stray, todo, endedBy>>
  PROVE  ActorInv'
<1>1. PICK g \in Groups : g = IF kind = "wave" THEN "wave" ELSE p
  BY DEF Groups
<1>2. PICK new : new = [end |-> "live", parent |-> p, kind |-> kind, inc |-> 1]
  OBVIOUS
<1>3. /\ new \in ActorRecord /\ new.end = "live" /\ new.parent = p /\ new.kind = kind /\ new.inc = 1
      /\ 1 \in Incs
  BY <1>2, ActorConstants DEF ActorRecord, ActorEnds, ActorConstants, Incs
<1>4. /\ rec' = [a \in Actors |-> IF a \in S THEN new ELSE rec[a]]
      /\ children' = [children EXCEPT ![g] = children[g] \o SetToSeq(S)]
      /\ exec' = [t \in DOMAIN exec |-> IF t[1] \in S /\ t[2] = 1 THEN "queued" ELSE exec[t]]
  BY <1>1, <1>2 DEF Enrolled
<1>5. PICK more : /\ more = SetToSeq(S) /\ more \in Seq(Actors)
                  /\ \A k \in 1..Len(more) : more[k] \in S
                  /\ \A k, l \in 1..Len(more) : more[k] = more[l] => k = l
                  /\ \A b \in S : Listed(more, b)
  BY SetToSeqMeans
<1>6. children \in [Groups -> Seq(Actors)] /\ children[g] \in Seq(Actors)
  BY DEF ActorInv, TreeTypes
<1>0. PICK all : all = children[g] \o more
  OBVIOUS
<1>7. /\ all \in Seq(Actors) /\ Len(all) = Len(children[g]) + Len(more)
      /\ \A k \in 1..Len(children[g]) + Len(more) :
           all[k] = IF k <= Len(children[g]) THEN children[g][k] ELSE more[k - Len(children[g])]
  <2>1. ASSUME NEW u \in Seq(Actors), NEW v \in Seq(Actors)
        PROVE  /\ u \o v \in Seq(Actors) /\ Len(u \o v) = Len(u) + Len(v)
               /\ \A k \in 1..Len(u) + Len(v) : (u \o v)[k] = IF k <= Len(u) THEN u[k] ELSE v[k - Len(u)]
    BY ConcatProperties
  <2> QED  BY <1>0, <1>5, <1>6, <2>1
<1>8. children' \in [Groups -> Seq(Actors)] /\ children'[g] = all /\ \A h \in Groups : h # g => children'[h] = children[h]
  BY <1>0, <1>4, <1>5, <1>6, <1>7
<1>9. /\ rec' \in [Actors -> ActorRecord]
      /\ \A a \in S : rec'[a] = new
      /\ \A a \in Actors : a \notin S => rec'[a] = rec[a]
  BY <1>3, <1>4 DEF ActorInv, TreeTypes
<1>10. exec \in [TokenSet -> RunStates] /\ DOMAIN exec = TokenSet
  BY DEF ActorInv, TreeTypes
<1>11. exec' \in [TokenSet -> RunStates]
  <2>1. "queued" \in RunStates
    BY DEF RunStates
  <2> QED  BY <1>4, <1>10, <2>1
<1>12. \A a \in Actors, i \in Incs : exec'[<<a, i>>] = IF a \in S /\ i = 1 THEN "queued" ELSE exec[<<a, i>>]
  BY <1>4, <1>10 DEF TokenSet
<1>13. TreeTypes'
  BY <1>8, <1>9, <1>11 DEF ActorInv, TreeTypes
<1>14. ASSUME NEW a \in Actors PROVE RecordHolds(a)'
  <2>1. CASE a \in S
    BY <1>3, <1>9, <2>1 DEF RecordHolds
  <2>2. CASE a \notin S
    BY <1>9, <2>2 DEF ActorInv, RecordHolds
  <2> QED  BY <2>1, <2>2
<1>15. ASSUME NEW a \in Actors, NEW i \in Incs PROVE ThreadHolds(a, i)'
  <2>1. CASE a \notin S
    BY <1>9, <1>12, <2>1, ThreadStays
  <2>2. CASE a \in S
    <3>1. rec[a].inc = 0 /\ rec'[a].inc = 1 /\ i \in Nat /\ i > 0
      BY <1>3, <1>9, <2>2, ActorConstants DEF ActorInv, RecordHolds, Incs, ActorConstants
    <3>2. exec[<<a, i>>] = "none" /\ <<a, i>> \notin stray /\ todo[<<a, i>>] = <<>>
      BY <3>1 DEF ActorInv, ThreadHolds
    <3> QED  BY <1>12, <2>2, <3>1, <3>2 DEF ThreadHolds, RestartsItself
  <2> QED  BY <2>1, <2>2
<1>16. WaveHolds'
  <2>1. CASE kind # "wave"
    <3>1. \A a \in Actors : rec'[a].kind = "wave" => a \notin S /\ rec'[a] = rec[a]
      BY <1>3, <1>9, <2>1
    <3> QED  BY <1>3, <1>12, <3>1 DEF ActorInv, WaveHolds
  <2>2. CASE kind = "wave"
    <3>1. ASSUME NEW a \in Actors, rec[a].kind = "wave", rec[a].end = "failed" PROVE FALSE
      <4>1. Listed(children["wave"], a)
        BY <3>1 DEF ActorInv, ChildrenHold, GroupOf
      <4> QED  BY <2>2, <4>1 DEF Listed
    <3> QED  BY <1>3, <1>9, <3>1 DEF WaveHolds
  <2> QED  BY <2>1, <2>2
<1>17. ASSUME NEW h \in Groups
       PROVE  /\ \A k \in 1..Len(children'[h]) : rec'[children'[h][k]].end # "absent"
              /\ \A k, l \in 1..Len(children'[h]) : children'[h][k] = children'[h][l] => k = l
  <2>1. \A k \in 1..Len(children[h]) : children[h][k] \in Actors /\ rec[children[h][k]].end # "absent"
    BY <1>6 DEF ActorInv, ChildrenHold
  <2>2. \A k \in 1..Len(children[h]) : children[h][k] \notin S
    BY <2>1
  <2>3. CASE h # g
    BY <1>8, <1>9, <2>1, <2>2, <2>3 DEF ActorInv, ChildrenHold
  <2>4. CASE h = g
    <3>1. Len(children[g]) \in Nat /\ Len(more) \in Nat
      BY <1>5, <1>6
    <3>2. ASSUME NEW k \in 1..Len(all)
          PROVE  \/ k \in 1..Len(children[g]) /\ all[k] = children[g][k] /\ all[k] \notin S /\ all[k] \in Actors
                                              /\ rec[all[k]].end # "absent"
                 \/ k - Len(children[g]) \in 1..Len(more) /\ all[k] = more[k - Len(children[g])] /\ all[k] \in S
      <4>1. CASE k <= Len(children[g])
        <5>1. k \in 1..Len(children[g]) /\ all[k] = children[g][k]
          BY <1>7, <3>1, <4>1
        <5> QED  BY <2>1, <2>2, <2>4, <5>1
      <4>2. CASE ~(k <= Len(children[g]))
        <5>1. k - Len(children[g]) \in 1..Len(more) /\ all[k] = more[k - Len(children[g])]
          BY <1>7, <3>1, <4>2
        <5> QED  BY <1>5, <5>1
      <4> QED  BY <4>1, <4>2
    <3>3. \A k \in 1..Len(all) : rec'[all[k]].end # "absent"
      BY <1>3, <1>9, <3>2
    <3>4. \A k, l \in 1..Len(children[g]) : children[g][k] = children[g][l] => k = l
      BY DEF ActorInv, ChildrenHold
    <3>5. ASSUME NEW k \in 1..Len(all), NEW l \in 1..Len(all), all[k] = all[l] PROVE k = l
      <4>1. CASE all[k] \in S
        <5>1. k - Len(children[g]) = l - Len(children[g])
          BY <1>5, <3>2, <3>5, <4>1
        <5> QED  BY <3>1, <5>1
      <4>2. CASE all[k] \notin S
        BY <3>2, <3>4, <3>5, <4>2
      <4> QED  BY <4>1, <4>2
    <3> QED  BY <1>8, <2>4, <3>3, <3>5
  <2> QED  BY <2>3, <2>4
<1>18. ASSUME NEW a \in Actors, rec'[a].end # "absent" PROVE Listed(children'[GroupOf(a)'], a)
  <2>1. CASE a \in S
    <3>1. GroupOf(a)' = g
      BY <1>1, <1>3, <1>9, <2>1 DEF GroupOf
    <3>2. PICK k \in 1..Len(more) : more[k] = a
      BY <1>5, <2>1 DEF Listed
    <3>3. Len(children[g]) \in Nat /\ Len(more) \in Nat
      BY <1>5, <1>6
    <3>4. PICK m \in 1..Len(all) : m = Len(children[g]) + k
      BY <1>7, <3>2, <3>3
    <3>5. ~(m <= Len(children[g])) /\ m - Len(children[g]) = k
      BY <3>2, <3>3, <3>4
    <3>6. all[m] = a
      BY <1>7, <3>2, <3>4, <3>5
    <3> QED  BY <1>8, <3>1, <3>6 DEF Listed
  <2>2. CASE a \notin S
    <3>1. GroupOf(a)' = GroupOf(a) /\ Listed(children[GroupOf(a)], a)
      BY <1>9, <1>18, <2>2 DEF GroupOf, ActorInv, ChildrenHold
    <3>2. PICK h \in Groups : h = GroupOf(a)
      <4>1. rec[a].parent \in Actors \cup {Root}
        BY DEF ActorInv, TreeTypes, ActorRecord
      <4> QED  BY <4>1 DEF GroupOf, Groups
    <3>3. CASE h # g
      BY <1>8, <3>1, <3>2, <3>3
    <3>4. CASE h = g
      <4>1. Len(children[g]) \in Nat /\ Len(more) \in Nat
        BY <1>5, <1>6
      <4>2. PICK k \in 1..Len(children[g]) : children[g][k] = a
        BY <3>1, <3>2, <3>4 DEF Listed
      <4>3. k \in 1..Len(all) /\ k <= Len(children[g])
        BY <1>7, <4>1, <4>2
      <4>4. all[k] = a
        BY <1>7, <4>2, <4>3
      <4> QED  BY <1>8, <3>1, <3>2, <3>4, <4>3, <4>4 DEF Listed
    <3> QED  BY <3>3, <3>4
  <2> QED  BY <2>1, <2>2
<1>19. ChildrenHold'
  BY <1>17, <1>18 DEF ChildrenHold
<1> QED  BY <1>13, <1>14, <1>15, <1>16, <1>19 DEF ActorInv

\* A thread that has something to say is the current one, and has nothing left to do.
LEMMA CurrentThread ==
  ASSUME ActorInv, NEW t \in TokenSet, exec[t] \notin {"none", "gone"}
  PROVE  /\ t[1] \in Actors /\ t[2] \in Incs /\ t = <<t[1], t[2]>> /\ ThreadHolds(t[1], t[2])
         /\ t[2] = rec[t[1]].inc /\ todo[t] = <<>> /\ rec[t[1]].end # "absent"
<1>1. t[1] \in Actors /\ t[2] \in Incs /\ t = <<t[1], t[2]>>
  BY TokenPairs
<1>2. PICK a \in Actors, i \in Incs : a = t[1] /\ i = t[2] /\ t = <<a, i>>
  BY <1>1
<1>3. ThreadHolds(a, i) /\ RecordHolds(a)
  BY DEF ActorInv
<1>4. i \in Nat /\ i > 0 /\ rec[a].inc \in Nat
  BY ActorConstants DEF ActorInv, TreeTypes, ActorRecord, Incs, ActorConstants
<1>5. i = rec[a].inc
  BY <1>2, <1>3, <1>4 DEF ThreadHolds
<1>6. todo[t] = <<>>
  BY <1>2, <1>3 DEF ThreadHolds
<1>7. rec[a].end # "absent"
  BY <1>3, <1>4, <1>5 DEF RecordHolds
<1> QED  BY <1>1, <1>2, <1>3, <1>5, <1>6, <1>7

\* One thread goes on; nothing else changes but tokens that are tripped.
LEMMA RunGoes ==
  ASSUME ActorInv, NEW t \in TokenSet, NEW x \in RunStates \ {"none"},
         exec[t] \notin {"none", "gone"}, exec' = [exec EXCEPT ![t] = x],
         tripped \subseteq tripped', tripped' \subseteq TokenSet, stray' \subseteq stray \cup {t},
         t \in stray' => x \in {"timeout", "gone"} /\ t \in tripped',
         UNCHANGED <<rec, children, attempts, todo, endedBy>>
  PROVE  ActorInv'
<1>1. PICK a \in Actors, i \in Incs : /\ t = <<a, i>> /\ t[1] = a /\ t[2] = i /\ i = rec[a].inc
                                      /\ todo[t] = <<>>
  BY CurrentThread
<1>2. exec \in [TokenSet -> RunStates] /\ exec' \in [TokenSet -> RunStates] /\ exec'[t] = x
  BY DEF ActorInv, TreeTypes
<1>3. TreeTypes'
  BY <1>2 DEF ActorInv, TreeTypes
<1>4. SamePlace
  BY DEF SamePlace
<1>5. ChildrenHold'
  BY <1>4, ChildrenStay
<1>6. \A b \in Actors : RecordHolds(b)'
  BY DEF ActorInv, RecordHolds
<1>7. ASSUME NEW b \in Actors, NEW j \in Incs PROVE ThreadHolds(b, j)'
  <2>1. <<b, j>> \in TokenSet
    BY DEF TokenSet
  <2>2. CASE <<b, j>> # t
    <3>1. exec'[<<b, j>>] = exec[<<b, j>>]
      BY <1>2, <2>1, <2>2
    <3> QED  BY <2>2, <3>1, ThreadStays
  <2>3. CASE <<b, j>> = t
    <3>1. b = a /\ j = i
      BY <1>1, <2>3
    <3>2. i \in Nat
      BY DEF Incs
    <3>3. /\ rec'[a].inc = i /\ todo'[<<a, i>>] = <<>> /\ exec'[<<a, i>>] = x
          /\ <<a, i>> \in stray' => x \in {"timeout", "gone"} /\ <<a, i>> \in tripped'
      BY <1>1, <1>2
    <3>4. ThreadHolds(a, i)'
      BY <3>2, <3>3 DEF ThreadHolds, RestartsItself
    <3> QED  BY <3>1, <3>4
  <2> QED  BY <2>2, <2>3
<1>8. \A b \in Actors : exec[<<b, 1>>] = "gone" => exec'[<<b, 1>>] = "gone"
  <2>1. 1 \in Incs
    BY ActorConstants DEF Incs, ActorConstants
  <2> QED  BY <1>2, <2>1 DEF TokenSet
<1>9. WaveHolds'
  BY <1>8, WaveStays
<1> QED  BY <1>3, <1>5, <1>6, <1>7, <1>9 DEF ActorInv

LEMMA RunHolds ==
  ASSUME ActorInv, NEW t \in TokenSet, StartRun(t) \/ EndRun(t) \/ TimeoutRun(t)
  PROVE  ActorInv'
<1>1. t \in stray => exec[t] \in {"timeout", "gone"}
  <2>1. PICK a \in Actors, i \in Incs : t = <<a, i>>
    BY TokenPairs
  <2> QED  BY <2>1 DEF ActorInv, ThreadHolds
<1>2. CASE StartRun(t)
  <2>1. PICK x \in RunStates \ {"none"} : Becomes(t, x)
    BY <1>2 DEF StartRun, RunStates, Outcomes
  <2> QED  BY <1>1, <1>2, <2>1, RunGoes DEF StartRun, Becomes, ActorInv, TreeTypes
<1>3. CASE EndRun(t)
  <2>1. PICK x \in RunStates \ {"none"} : Becomes(t, x)
    BY <1>3 DEF EndRun, RunStates, Outcomes
  <2> QED  BY <1>1, <1>3, <2>1, RunGoes DEF EndRun, Becomes, ActorInv, TreeTypes
<1>4. CASE TimeoutRun(t)
  <2>1. "timeout" \in RunStates \ {"none"}
    BY DEF RunStates, Outcomes
  <2>2. /\ exec[t] = "running" /\ exec' = [exec EXCEPT ![t] = "timeout"]
        /\ tripped' = tripped \cup {t} /\ stray' = stray \cup {t}
        /\ UNCHANGED <<rec, children, attempts, todo, endedBy>>
    BY <1>4 DEF TimeoutRun, Becomes
  <2>3. tripped \subseteq tripped' /\ tripped' \subseteq TokenSet /\ t \in tripped'
    BY <2>2 DEF ActorInv, TreeTypes
  <2> QED  BY <2>1, <2>2, <2>3, RunGoes
<1> QED  BY <1>2, <1>3, <1>4

\* A thread nobody listens to ends.
LEMMA StrayHolds ==
  ASSUME ActorInv, NEW t \in TokenSet, EndStray(t)
  PROVE  ActorInv'
<1>1. stray' \subseteq stray /\ UNCHANGED <<rec, children, attempts, tripped, exec, todo, endedBy>>
  BY DEF EndStray
<1>2. TreeTypes'
  BY <1>1 DEF ActorInv, TreeTypes
<1>3. ChildrenHold'
  BY <1>1, ChildrenStay DEF SamePlace
<1>4. \A a \in Actors, i \in Incs : ThreadHolds(a, i)'
  BY <1>1, ThreadStays
<1>5. WaveHolds' /\ \A a \in Actors : RecordHolds(a)'
  BY <1>1 DEF ActorInv, WaveHolds, RecordHolds
<1> QED  BY <1>2, <1>3, <1>4, <1>5 DEF ActorInv

\* The host call is dropped.
LEMMA DropCallHolds ==
  ASSUME ActorInv, NEW kind \in {"run", "wave"}, DropCall(kind)
  PROVE  ActorInv'
<1>1. PICK owned : owned = {t \in Actors \X Incs : /\ rec[t[1]].kind = kind /\ t[2] = 1
                                                   /\ exec[t] \in {"queued", "running"} \cup Outcomes}
  OBVIOUS
<1>2. /\ exec' = [t \in DOMAIN exec |-> IF t \in owned THEN "gone" ELSE exec[t]]
      /\ stray' = stray \cup {t \in owned : exec[t] = "running"}
      /\ tripped' = IF kind = "wave" THEN tripped \cup owned ELSE tripped
      /\ UNCHANGED <<rec, children, attempts, todo, endedBy>>
  BY <1>1 DEF DropCall
<1>3. owned \subseteq TokenSet /\ \A t \in owned : exec[t] \notin {"none", "gone"}
  BY <1>1 DEF TokenSet, Outcomes
<1>4. exec \in [TokenSet -> RunStates] /\ "gone" \in RunStates
  BY DEF ActorInv, TreeTypes, RunStates
<1>5. /\ exec' \in [TokenSet -> RunStates]
      /\ \A t \in TokenSet : exec'[t] = IF t \in owned THEN "gone" ELSE exec[t]
  BY <1>2, <1>4
<1>6. TreeTypes'
  BY <1>2, <1>3, <1>5 DEF ActorInv, TreeTypes
<1>7. ChildrenHold'
  BY <1>2, ChildrenStay DEF SamePlace
<1>8. tripped \subseteq tripped'
  BY <1>2
<1>9. ASSUME NEW a \in Actors, NEW i \in Incs PROVE ThreadHolds(a, i)'
  <2>1. <<a, i>> \in TokenSet
    BY DEF TokenSet
  <2>2. CASE <<a, i>> \notin owned
    BY <1>2, <1>5, <1>8, <2>1, <2>2, ThreadStays
  <2>3. CASE <<a, i>> \in owned
    <3>1. PICK t \in TokenSet : t = <<a, i>> /\ t[1] = a /\ t[2] = i
      BY <2>1
    <3>2. ThreadHolds(a, i) /\ i = rec[a].inc /\ todo[t] = <<>>
      BY <1>3, <2>3, <3>1, CurrentThread
    <3>3. i \in Nat /\ exec'[t] = "gone"
      BY <1>5, <2>3, <3>1 DEF Incs
    <3> QED  BY <1>2, <3>1, <3>2, <3>3 DEF ThreadHolds, RestartsItself
  <2> QED  BY <2>2, <2>3
<1>10. \A a \in Actors : RecordHolds(a)'
  BY <1>2 DEF ActorInv, RecordHolds
<1>11. \A a \in Actors : exec[<<a, 1>>] = "gone" => exec'[<<a, 1>>] = "gone"
  <2>1. 1 \in Incs
    BY ActorConstants DEF Incs, ActorConstants
  <2> QED  BY <1>5, <2>1 DEF TokenSet
<1>12. WaveHolds'
  BY <1>2, <1>8, <1>11, WaveStays
<1> QED  BY <1>6, <1>7, <1>9, <1>10, <1>12 DEF ActorInv

\* Records that end, otherwise than by failing, keep their place; nobody else moves.
EndsOnly ==
  /\ rec' \in [Actors -> ActorRecord] /\ SamePlace /\ children' = children
  /\ endedBy' \in [Actors -> 0..MaxInc]
  /\ tripped \subseteq tripped' /\ tripped' \subseteq TokenSet /\ stray' = stray
  /\ \A a \in Actors : rec'[a].inc = rec[a].inc /\ RecordHolds(a)'

\* The token of a registered actor is one.
LEMMA CurrentTokens ==
  ASSUME ActorInv, NEW a \in Actors, rec[a].end # "absent"
  PROVE  CurrentToken(a) \in TokenSet /\ rec[a].inc \in Incs
<1>1. rec[a].inc \in 0..MaxInc /\ rec[a].inc # 0
  BY DEF ActorInv, TreeTypes, ActorRecord, RecordHolds
<1>2. rec[a].inc \in Incs
  BY <1>1, ActorConstants DEF Incs, ActorConstants
<1> QED  BY <1>2 DEF CurrentToken, TokenSet

LEMMA CancelledMeans ==
  ASSUME ActorInv, NEW a \in Actors, Cancelled(a), UNCHANGED <<children, stray>>
  PROVE  /\ EndsOnly /\ rec'[a].end # "live"
         /\ \A b \in Actors : /\ rec'[b].end = "failed" => rec[b].end = "failed"
                              /\ rec'[b].end = "live" => rec[b].end = "live"
<1>1. PICK e \in ActorEnds : e = IF rec[a].end = "live" THEN "cancelled" ELSE rec[a].end
  BY DEF ActorInv, TreeTypes, ActorRecord, ActorEnds
<1>2. rec' = [rec EXCEPT ![a].end = e]
  BY <1>1 DEF Cancelled
<1>3. rec[a] \in ActorRecord /\ rec \in [Actors -> ActorRecord]
  BY DEF ActorInv, TreeTypes
<1>4. /\ rec' \in [Actors -> ActorRecord] /\ rec'[a].end = e /\ rec'[a].parent = rec[a].parent
      /\ rec'[a].kind = rec[a].kind /\ rec'[a].inc = rec[a].inc
      /\ \A b \in Actors : b # a => rec'[b] = rec[b]
  BY <1>2, <1>3 DEF ActorRecord
<1>5. SamePlace
  BY <1>1, <1>4 DEF SamePlace
<1>6. tripped \subseteq tripped' /\ tripped' \subseteq TokenSet
  BY CurrentTokens DEF Cancelled, ActorInv, TreeTypes
<1>7. /\ endedBy' \in [Actors -> 0..MaxInc] /\ \A b \in Actors : b # a => endedBy'[b] = endedBy[b]
      /\ rec[a].end = "live" => endedBy'[a] = 0
      /\ rec[a].end # "live" => endedBy'[a] = endedBy[a]
  <2>1. 0 \in 0..MaxInc /\ endedBy \in [Actors -> 0..MaxInc]
    BY ActorConstants DEF ActorInv, TreeTypes, ActorConstants
  <2> QED  BY <2>1 DEF Cancelled
<1>8. ASSUME NEW b \in Actors PROVE RecordHolds(b)'
  BY <1>1, <1>4, <1>7 DEF ActorInv, RecordHolds
<1>9. \A b \in Actors : rec'[b].inc = rec[b].inc
  BY <1>4
<1> QED  BY <1>1, <1>4, <1>5, <1>6, <1>7, <1>8, <1>9 DEF EndsOnly

\* agents.cancel.
LEMMA CancelChildHolds ==
  ASSUME ActorInv, NEW p \in Actors \cup {Root}, NEW a \in Actors, CancelChild(p, a)
  PROVE  ActorInv'
<1>1. Cancelled(a) /\ UNCHANGED <<children, attempts, exec, stray, todo>>
  BY DEF CancelChild
<1>2. /\ EndsOnly
      /\ \A b \in Actors : /\ rec'[b].end = "failed" => rec[b].end = "failed"
                           /\ rec'[b].end = "live" => rec[b].end = "live"
  BY <1>1, CancelledMeans
<1>3. TreeTypes'
  BY <1>1, <1>2 DEF ActorInv, TreeTypes, EndsOnly
<1>4. ChildrenHold'
  BY <1>2, ChildrenStay DEF EndsOnly
<1>5. \A b \in Actors, j \in Incs : ThreadHolds(b, j)'
  BY <1>1, <1>2, ThreadStays DEF EndsOnly, SamePlace
<1>6. WaveHolds'
  BY <1>1, <1>2, WaveStays DEF EndsOnly, SamePlace
<1> QED  BY <1>2, <1>3, <1>4, <1>5, <1>6 DEF ActorInv, EndsOnly

\* The work of a reporter is taken up: its first entry is replaced by more, none of them
\* a restart, or it is a restart that is carried out.
LEMMA HeadOfWork ==
  ASSUME ActorInv, NEW t \in TokenSet, todo[t] # <<>>
  PROVE  /\ todo[t] \in Seq(TreeItem) /\ Len(todo[t]) \in Nat /\ 1 \in 1..Len(todo[t])
         /\ Head(todo[t]) = todo[t][1] /\ Head(todo[t]) \in TreeItem
         /\ Tail(todo[t]) \in Seq(TreeItem) /\ Len(Tail(todo[t])) = Len(todo[t]) - 1
         /\ \A k \in 1..Len(todo[t]) - 1 : Tail(todo[t])[k] = todo[t][k + 1]
         /\ t[1] \in Actors /\ t[2] \in Incs /\ t = <<t[1], t[2]>>
         /\ ThreadHolds(t[1], t[2]) /\ t[2] = rec[t[1]].inc /\ exec[t] = "gone"
<1>1. todo[t] \in Seq(TreeItem)
  BY DEF ActorInv, TreeTypes
<1>2. PICK s \in Seq(TreeItem) : s = todo[t] /\ s # <<>>
  BY <1>1
<1>3. /\ Len(s) \in Nat /\ 1 \in 1..Len(s) /\ Head(s) = s[1] /\ Head(s) \in TreeItem
      /\ Tail(s) \in Seq(TreeItem) /\ Len(Tail(s)) = Len(s) - 1
      /\ \A k \in 1..Len(s) - 1 : Tail(s)[k] = s[k + 1]
  BY <1>2
<1>4. PICK a \in Actors, i \in Incs : t[1] = a /\ t[2] = i /\ t = <<a, i>>
  BY TokenPairs
<1>5. ThreadHolds(a, i)
  BY DEF ActorInv
<1>6. i = rec[a].inc /\ exec[t] = "gone"
  BY <1>2, <1>4, <1>5 DEF ThreadHolds
<1> QED  BY <1>2, <1>3, <1>4, <1>5, <1>6

\* A reporter with no restart to carry out.
LEMMA ReporterHolds ==
  ASSUME NEW a \in Actors, NEW i \in Incs, rec'[a].inc = i, exec'[<<a, i>>] = "gone",
         \A k \in 1..Len(todo'[<<a, i>>]) : todo'[<<a, i>>][k].op # "restart"
  PROVE  ThreadHolds(a, i)'
<1>1. i \in Nat
  BY DEF Incs
<1>2. RestartsItself(a, todo[<<a, i>>])'
  BY DEF RestartsItself
<1> QED  BY <1>1, <1>2 DEF ThreadHolds

\* What replaces the head of the work.
LEMMA WorkGoes ==
  ASSUME ActorInv, NEW t \in TokenSet, todo[t] # <<>>, Head(todo[t]).op # "restart",
         NEW more \in Seq(TreeItem), \A k \in 1..Len(more) : more[k].op # "restart",
         todo' = [todo EXCEPT ![t] = more \o Tail(@)],
         EndsOnly, UNCHANGED <<attempts, exec>>
  PROVE  /\ TreeTypes' /\ ChildrenHold' /\ \A b \in Actors, j \in Incs : ThreadHolds(b, j)'
         /\ \A u \in TokenSet : u # t => todo'[u] = todo[u]
         /\ \A b \in Actors : Named(more, b) \/ (Named(todo[t], b) /\ b # Head(todo[t]).who) => Named(todo'[t], b)
<1>1. PICK rest : rest = Tail(todo[t])
  OBVIOUS
<1>2. /\ todo[t] \in Seq(TreeItem) /\ Len(todo[t]) \in Nat /\ 1 \in 1..Len(todo[t])
      /\ Head(todo[t]) = todo[t][1] /\ Head(todo[t]) \in TreeItem
      /\ rest \in Seq(TreeItem) /\ Len(rest) = Len(todo[t]) - 1
      /\ \A k \in 1..Len(todo[t]) - 1 : rest[k] = todo[t][k + 1]
  BY <1>1, HeadOfWork
<1>3. PICK a \in Actors, i \in Incs : /\ t = <<a, i>> /\ ThreadHolds(a, i) /\ i = rec[a].inc /\ exec[t] = "gone"
  BY HeadOfWork
<1>4. PICK all : all = more \o rest
  OBVIOUS
<1>5. /\ all \in Seq(TreeItem) /\ Len(all) = Len(more) + Len(rest) /\ Len(more) \in Nat /\ Len(rest) \in Nat
      /\ \A k \in 1..Len(more) + Len(rest) : all[k] = IF k <= Len(more) THEN more[k] ELSE rest[k - Len(more)]
  <2>1. ASSUME NEW u \in Seq(TreeItem), NEW v \in Seq(TreeItem)
        PROVE  /\ u \o v \in Seq(TreeItem) /\ Len(u \o v) = Len(u) + Len(v) /\ Len(u) \in Nat /\ Len(v) \in Nat
               /\ \A k \in 1..Len(u) + Len(v) : (u \o v)[k] = IF k <= Len(u) THEN u[k] ELSE v[k - Len(u)]
    BY ConcatProperties
  <2> QED  BY <1>2, <1>4, <2>1
<1>6. todo' = [todo EXCEPT ![t] = all] /\ todo \in [TokenSet -> Seq(TreeItem)]
  BY <1>1, <1>4 DEF ActorInv, TreeTypes
<1>7. todo' \in [TokenSet -> Seq(TreeItem)] /\ todo'[t] = all /\ \A u \in TokenSet : u # t => todo'[u] = todo[u]
  BY <1>5, <1>6
<1>8. TreeTypes'
  BY <1>7 DEF ActorInv, TreeTypes, EndsOnly
<1>9. ChildrenHold'
  BY ChildrenStay DEF EndsOnly
<1>10. \A k \in 1..Len(rest) : rest[k].op # "restart"
  <2>1. ASSUME NEW k \in 1..Len(rest), rest[k].op = "restart" PROVE FALSE
    <3>1. k + 1 \in 1..Len(todo[t]) /\ rest[k] = todo[t][k + 1]
      BY <1>2
    <3>2. Len(todo[t]) = 1
      BY <1>3, <2>1, <3>1 DEF ThreadHolds, RestartsItself
    <3> QED  BY <1>2, <2>1, <3>1, <3>2
  <2> QED  BY <2>1
<1>11. \A k \in 1..Len(all) : all[k].op # "restart"
  <2>1. ASSUME NEW k \in 1..Len(all) PROVE all[k].op # "restart"
    <3>1. CASE k <= Len(more)
      BY <1>5, <3>1
    <3>2. CASE ~(k <= Len(more))
      <4>1. k - Len(more) \in 1..Len(rest) /\ all[k] = rest[k - Len(more)]
        BY <1>5, <3>2
      <4> QED  BY <1>10, <4>1
    <3> QED  BY <3>1, <3>2
  <2> QED  BY <2>1
<1>12. ASSUME NEW b \in Actors, NEW j \in Incs PROVE ThreadHolds(b, j)'
  <2>1. <<b, j>> \in TokenSet /\ i \in Nat
    BY DEF TokenSet, Incs
  <2>2. CASE <<b, j>> # t
    <3>1. todo'[<<b, j>>] = todo[<<b, j>>]
      BY <1>7, <2>1, <2>2
    <3> QED  BY <3>1, ThreadStays DEF EndsOnly, SamePlace
  <2>3. CASE <<b, j>> = t
    <3>1. b = a /\ j = i
      BY <1>3, <2>3
    <3>2. /\ rec'[a].inc = i /\ exec'[<<a, i>>] = "gone" /\ todo'[<<a, i>>] = all
      BY <1>3, <1>7 DEF EndsOnly
    <3>3. \A k \in 1..Len(todo'[<<a, i>>]) : todo'[<<a, i>>][k].op # "restart"
      BY <1>11, <3>2
    <3>4. ThreadHolds(a, i)'
      BY <3>2, <3>3, ReporterHolds
    <3> QED  BY <3>1, <3>4
  <2> QED  BY <2>2, <2>3
<1>13. ASSUME NEW b \in Actors, Named(more, b) PROVE Named(all, b)
  <2>1. PICK k \in 1..Len(more) : more[k].op \in {"cancel", "stop"} /\ more[k].who = b
    BY <1>13 DEF Named
  <2>2. k \in 1..Len(all) /\ all[k] = more[k]
    BY <1>5
  <2> QED  BY <2>1, <2>2 DEF Named
<1>14. ASSUME NEW b \in Actors, Named(todo[t], b), b # Head(todo[t]).who PROVE Named(all, b)
  <2>1. PICK k \in 1..Len(todo[t]) : todo[t][k].op \in {"cancel", "stop"} /\ todo[t][k].who = b
    BY <1>14 DEF Named
  <2>2. k # 1
    BY <1>2, <1>14, <2>1
  <2>3. PICK m \in 1..Len(rest) : m = k - 1 /\ rest[m] = todo[t][k]
    <3>1. k - 1 \in 1..Len(rest) /\ k - 1 \in 1..Len(todo[t]) - 1 /\ (k - 1) + 1 = k
      BY <1>2, <2>2
    <3> QED  BY <1>2, <3>1
  <2>4. PICK n \in 1..Len(all) : n = Len(more) + m
    <3>1. Len(all) = Len(more) + Len(rest) /\ Len(more) \in Nat /\ Len(rest) \in Nat
      BY <1>5
    <3>2. Len(more) + m \in 1..Len(all)
      BY <3>1
    <3> QED  BY <3>2
  <2>5. ~(n <= Len(more)) /\ n - Len(more) = m
    BY <1>5, <2>3, <2>4
  <2>6. all[n] = rest[m]
    BY <1>5, <2>4, <2>5
  <2> QED  BY <2>1, <2>3, <2>6 DEF Named
<1> QED  BY <1>7, <1>8, <1>9, <1>12, <1>13, <1>14

\* A subtree is listed, to be cancelled one actor at a time.
LEMMA CancelListedHolds ==
  ASSUME ActorInv, NEW t \in TokenSet, CancelListed(t)
  PROVE  ActorInv'
<1>1. /\ todo[t] # <<>> /\ Head(todo[t]).op = "cancel"
      /\ UNCHANGED <<rec, children, attempts, tripped, exec, stray, endedBy>>
  BY DEF CancelListed
<1>2. PICK w \in Actors : w = Head(todo[t]).who
  BY <1>1, HeadOfWork DEF TreeItem
<1>3. PICK list \in Seq(Actors) : list = SetToSeq(Subtree(w)) /\ Listed(list, w)
  BY SubtreeMeans, SetToSeqMeans
<1>4. PICK more \in Seq(TreeItem) : /\ more = As("stop", list) /\ Len(more) = Len(list)
                                    /\ \A k \in 1..Len(list) : more[k].op = "stop" /\ more[k].who = list[k]
  BY AsMeans
<1>5. todo' = [todo EXCEPT ![t] = more \o Tail(@)]
  BY <1>2, <1>3, <1>4 DEF CancelListed
<1>6. EndsOnly
  <2>1. SamePlace
    BY <1>1 DEF SamePlace
  <2>2. \A a \in Actors : RecordHolds(a)'
    BY <1>1 DEF ActorInv, RecordHolds
  <2> QED  BY <1>1, <2>1, <2>2 DEF ActorInv, TreeTypes, EndsOnly
<1>7. \A k \in 1..Len(more) : more[k].op # "restart"
  BY <1>4
<1>8. Named(more, w)
  BY <1>3, <1>4 DEF Listed, Named
<1>9. /\ TreeTypes' /\ ChildrenHold' /\ \A b \in Actors, j \in Incs : ThreadHolds(b, j)'
      /\ \A u \in TokenSet : u # t => todo'[u] = todo[u]
      /\ \A b \in Actors : Named(more, b) \/ (Named(todo[t], b) /\ b # w) => Named(todo'[t], b)
  <2>1. Head(todo[t]).op # "restart"
    BY <1>1
  <2> QED  BY <1>1, <1>2, <1>5, <1>6, <1>7, <2>1, WorkGoes
<1>10. ASSUME NEW a \in Actors, NEW b \in Actors, Named(todo[<<a, 1>>], b) PROVE Named(todo'[<<a, 1>>], b)
  <2>1. <<a, 1>> \in TokenSet
    BY ActorConstants DEF ActorConstants, TokenSet, Incs
  <2> QED  BY <1>8, <1>9, <1>10, <2>1
<1>11. WaveHolds'
  BY <1>1, <1>10, WaveStays
<1> QED  BY <1>6, <1>9, <1>11 DEF ActorInv, EndsOnly

\* One actor of the list is cancelled.
LEMMA CancelNextHolds ==
  ASSUME ActorInv, NEW t \in TokenSet, CancelNext(t)
  PROVE  ActorInv'
<1>1. todo[t] # <<>> /\ Head(todo[t]).op = "stop" /\ UNCHANGED <<children, attempts, exec, stray>>
  BY DEF CancelNext
<1>2. PICK w \in Actors : w = Head(todo[t]).who
  BY <1>1, HeadOfWork DEF TreeItem
<1>3. Cancelled(w)
  BY <1>2 DEF CancelNext
<1>4. /\ EndsOnly /\ rec'[w].end # "live"
      /\ \A b \in Actors : /\ rec'[b].end = "failed" => rec[b].end = "failed"
                           /\ rec'[b].end = "live" => rec[b].end = "live"
  BY <1>1, <1>3, CancelledMeans
<1>5. PICK more \in Seq(TreeItem) : more = <<>>
  <2>1. <<>> \in Seq(TreeItem)
    BY EmptySeq
  <2> QED  BY <2>1
<1>6. todo' = [todo EXCEPT ![t] = more \o Tail(@)]
  <2>1. Tail(todo[t]) \in Seq(TreeItem)
    BY <1>1, HeadOfWork
  <2>2. more \o Tail(todo[t]) = Tail(todo[t])
    BY <1>5, <2>1, ConcatEmptySeq
  <2> QED  BY <2>2 DEF CancelNext
<1>7. /\ TreeTypes' /\ ChildrenHold' /\ \A b \in Actors, j \in Incs : ThreadHolds(b, j)'
      /\ \A u \in TokenSet : u # t => todo'[u] = todo[u]
      /\ \A b \in Actors : Named(more, b) \/ (Named(todo[t], b) /\ b # w) => Named(todo'[t], b)
  <2>1. Head(todo[t]).op # "restart" /\ \A k \in 1..Len(more) : more[k].op # "restart"
    BY <1>1, <1>5
  <2> QED  BY <1>1, <1>2, <1>4, <1>6, <2>1, WorkGoes
<1>8. ASSUME NEW a \in Actors, NEW b \in Actors, rec'[b].end = "live", Named(todo[<<a, 1>>], b)
      PROVE  Named(todo'[<<a, 1>>], b)
  <2>1. <<a, 1>> \in TokenSet
    BY ActorConstants DEF ActorConstants, TokenSet, Incs
  <2> QED  BY <1>4, <1>7, <1>8, <2>1
<1>9. WaveHolds'
  BY <1>1, <1>4, <1>8, WaveStays DEF EndsOnly, SamePlace
<1> QED  BY <1>4, <1>7, <1>9 DEF ActorInv, EndsOnly

\* The reporter restarts its own actor.
LEMMA RestartNextHolds ==
  ASSUME ActorInv, NEW t \in TokenSet, RestartNext(t)
  PROVE  ActorInv'
<1>1. todo[t] # <<>> /\ Head(todo[t]).op = "restart" /\ UNCHANGED <<children, attempts, tripped, stray, endedBy>>
  BY DEF RestartNext
<1>2. PICK a \in Actors, i \in Incs :
        /\ t = <<a, i>> /\ ThreadHolds(a, i) /\ i = rec[a].inc /\ exec[t] = "gone" /\ 1 \in 1..Len(todo[t])
        /\ Head(todo[t]) = todo[t][1] /\ Tail(todo[t]) \in Seq(TreeItem) /\ Len(Tail(todo[t])) = Len(todo[t]) - 1
  BY <1>1, HeadOfWork
<1>3. Len(todo[t]) = 1 /\ Head(todo[t]).who = a /\ rec[a].kind # "wave" /\ (t \in stray => t \in tripped)
  BY <1>1, <1>2 DEF ThreadHolds, RestartsItself
<1>4. Tail(todo[t]) = <<>>
  <2>1. PICK rest \in Seq(TreeItem) : rest = Tail(todo[t]) /\ Len(rest) = 1 - 1
    BY <1>2, <1>3
  <2>2. rest = <<>>
    BY <2>1, EmptySeq
  <2> QED  BY <2>1, <2>2
<1>5. PICK n \in Incs : n = i + 1 /\ i \in Nat /\ n \in Nat
  <2>1. i < MaxInc /\ MaxInc \in Nat /\ i \in 1..MaxInc
    BY <1>2, <1>3, ActorConstants DEF RestartNext, ActorConstants, Incs
  <2> QED  BY <2>1 DEF Incs
<1>6. /\ rec' = [rec EXCEPT ![a] = [@ EXCEPT !.end = "live", !.inc = n]]
      /\ exec' = [exec EXCEPT ![<<a, n>>] = "queued"]
      /\ todo' = [todo EXCEPT ![t] = <<>>]
  BY <1>2, <1>3, <1>4, <1>5 DEF RestartNext
<1>7. /\ rec' \in [Actors -> ActorRecord] /\ rec'[a].end = "live" /\ rec'[a].inc = n
      /\ rec'[a].parent = rec[a].parent /\ rec'[a].kind = rec[a].kind
      /\ \A b \in Actors : b # a => rec'[b] = rec[b]
  <2>1. rec \in [Actors -> ActorRecord] /\ rec[a] \in ActorRecord /\ n \in 0..MaxInc
    BY DEF ActorInv, TreeTypes, Incs
  <2>2. PICK r : r = [rec[a] EXCEPT !.end = "live", !.inc = n]
    OBVIOUS
  <2>3. r \in ActorRecord /\ r.end = "live" /\ r.inc = n /\ r.parent = rec[a].parent /\ r.kind = rec[a].kind
    BY <2>1, <2>2 DEF ActorRecord, ActorEnds
  <2>4. rec' = [rec EXCEPT ![a] = r]
    BY <1>6, <2>2
  <2> QED  BY <2>1, <2>3, <2>4
<1>8. <<a, n>> \in TokenSet /\ <<a, n>> # t
  BY <1>2, <1>5 DEF TokenSet
<1>9. /\ exec' \in [TokenSet -> RunStates] /\ exec'[<<a, n>>] = "queued"
      /\ \A u \in TokenSet : u # <<a, n>> => exec'[u] = exec[u]
  <2>1. exec \in [TokenSet -> RunStates] /\ "queued" \in RunStates
    BY DEF ActorInv, TreeTypes, RunStates
  <2> QED  BY <1>6, <1>8, <2>1
<1>10. todo' \in [TokenSet -> Seq(TreeItem)] /\ todo'[t] = <<>> /\ \A u \in TokenSet : u # t => todo'[u] = todo[u]
  <2>1. todo \in [TokenSet -> Seq(TreeItem)] /\ <<>> \in Seq(TreeItem)
    BY DEF ActorInv, TreeTypes
  <2> QED  BY <1>6, <2>1
<1>11. TreeTypes'
  BY <1>1, <1>7, <1>9, <1>10 DEF ActorInv, TreeTypes
<1>12. rec[a].end # "absent"
  <2>1. RecordHolds(a)
    BY DEF ActorInv
  <2> QED  BY <1>2, <1>5, <2>1 DEF RecordHolds, Incs
<1>13. SamePlace
  BY <1>7, <1>12 DEF SamePlace
<1>14. ChildrenHold'
  BY <1>1, <1>13, ChildrenStay
<1>15. ASSUME NEW b \in Actors PROVE RecordHolds(b)'
  <2>1. n # 0
    BY <1>5 DEF Incs
  <2>2. CASE b = a
    BY <1>3, <1>7, <2>1, <2>2 DEF RecordHolds
  <2>3. CASE b # a
    BY <1>1, <1>7, <2>3 DEF ActorInv, RecordHolds
  <2> QED  BY <2>2, <2>3
<1>16. ASSUME NEW b \in Actors, NEW j \in Incs PROVE ThreadHolds(b, j)'
  <2>1. <<b, j>> \in TokenSet /\ j \in Nat
    BY DEF TokenSet, Incs
  <2>2. CASE b # a
    <3>1. <<b, j>> # t /\ <<b, j>> # <<a, n>>
      BY <1>2, <2>2
    <3> QED  BY <1>1, <1>7, <1>9, <1>10, <2>1, <2>2, <3>1, ThreadStays
  <2>3. CASE b = a /\ j = i
    <3>1. exec'[<<a, i>>] = "gone" /\ todo'[<<a, i>>] = <<>> /\ rec'[a].inc = n /\ i < n /\ ~(i > n)
      BY <1>2, <1>5, <1>7, <1>8, <1>9, <1>10
    <3>2. <<a, i>> \in stray' => <<a, i>> \in tripped'
      BY <1>1, <1>2, <1>3
    <3>3. ThreadHolds(a, i)'
      BY <1>5, <3>1, <3>2 DEF ThreadHolds, RestartsItself
    <3> QED  BY <2>3, <3>3
  <2>4. CASE b = a /\ j # i
    <3>1. ThreadHolds(a, j) /\ <<a, j>> # t
      BY <1>2, <2>4 DEF ActorInv
    <3>2. todo[<<a, j>>] = <<>> /\ todo'[<<a, j>>] = <<>> /\ UNCHANGED <<tripped, stray>>
      BY <1>1, <1>2, <1>10, <2>1, <2>4, <3>1 DEF ThreadHolds
    <3>3. j < n => exec'[<<a, j>>] = "gone" /\ (<<a, j>> \in stray' => <<a, j>> \in tripped')
      <4>1. ASSUME j < n PROVE exec[<<a, j>>] = "gone" /\ (<<a, j>> \in stray => <<a, j>> \in tripped) /\ <<a, j>> # <<a, n>>
        <5>1. j < rec[a].inc /\ j # n
          BY <1>2, <1>5, <2>1, <2>4, <4>1
        <5> QED  BY <3>1, <5>1 DEF ThreadHolds
      <4> QED  BY <1>9, <2>1, <2>4, <3>2, <4>1
    <3>4. j >= n => <<a, j>> \notin stray'
      <4>1. ASSUME j >= n PROVE j > rec[a].inc
        BY <1>2, <1>5, <2>1, <4>1
      <4> QED  BY <3>1, <3>2, <4>1 DEF ThreadHolds
    <3>5. j > n => exec'[<<a, j>>] = "none"
      <4>1. ASSUME j > n PROVE j > rec[a].inc /\ <<a, j>> # <<a, n>>
        <5>1. j > rec[a].inc /\ j # n
          BY <1>2, <1>5, <2>1, <4>1
        <5> QED  BY <5>1
      <4> QED  BY <1>9, <2>1, <2>4, <3>1, <4>1 DEF ThreadHolds
    <3>6. rec'[a].inc = n /\ (j < n \/ j = n \/ j > n)
      BY <1>5, <1>7, <2>1
    <3>7. ThreadHolds(a, j)'
      BY <1>5, <2>1, <3>2, <3>3, <3>4, <3>5, <3>6 DEF ThreadHolds, RestartsItself
    <3> QED  BY <2>4, <3>7
  <2> QED  BY <2>2, <2>3, <2>4
<1>17. WaveHolds'
  <2>1. \A b \in Actors : rec'[b].kind = "wave" => b # a /\ rec'[b] = rec[b]
    BY <1>3, <1>7
  <2>2. ASSUME NEW b \in Actors, b # a PROVE exec'[<<b, 1>>] = exec[<<b, 1>>] /\ todo'[<<b, 1>>] = todo[<<b, 1>>]
    <3>1. <<b, 1>> \in TokenSet /\ <<b, 1>> # t /\ <<b, 1>> # <<a, n>>
      BY <1>2, <2>2, ActorConstants DEF ActorConstants, TokenSet, Incs
    <3> QED  BY <1>9, <1>10, <3>1
  <2> QED  BY <1>1, <2>1, <2>2 DEF ActorInv, WaveHolds
<1> QED  BY <1>11, <1>14, <1>15, <1>16, <1>17 DEF ActorInv

\* A thread reports and is gone, with work to do or without.
LEMMA ReportGoes ==
  ASSUME ActorInv, NEW t \in TokenSet, exec[t] \notin {"none", "gone"},
         exec' = [exec EXCEPT ![t] = "gone"], EndsOnly, attempts' \in [Actors -> Nat],
         NEW work \in Seq(TreeItem), todo' = [todo EXCEPT ![t] = work],
         RestartsItself(t[1], work), t \in stray => t \in tripped
  PROVE  /\ TreeTypes' /\ ChildrenHold' /\ \A b \in Actors, j \in Incs : ThreadHolds(b, j)'
         /\ todo'[t] = work /\ \A u \in TokenSet : u # t => todo'[u] = todo[u]
         /\ exec'[t] = "gone" /\ \A u \in TokenSet : exec[u] = "gone" => exec'[u] = "gone"
<1>1. PICK a \in Actors, i \in Incs : t = <<a, i>> /\ t[1] = a /\ i = rec[a].inc
  BY CurrentThread
<1>2. /\ exec \in [TokenSet -> RunStates] /\ "gone" \in RunStates
      /\ todo \in [TokenSet -> Seq(TreeItem)]
  BY DEF ActorInv, TreeTypes, RunStates
<1>3. /\ exec' \in [TokenSet -> RunStates] /\ exec'[t] = "gone"
      /\ \A u \in TokenSet : u # t => exec'[u] = exec[u]
  BY <1>2
<1>4. /\ todo' \in [TokenSet -> Seq(TreeItem)] /\ todo'[t] = work
      /\ \A u \in TokenSet : u # t => todo'[u] = todo[u]
  BY <1>2
<1>5. TreeTypes'
  BY <1>3, <1>4 DEF ActorInv, TreeTypes, EndsOnly
<1>6. ChildrenHold'
  BY ChildrenStay DEF EndsOnly
<1>7. ASSUME NEW b \in Actors, NEW j \in Incs PROVE ThreadHolds(b, j)'
  <2>1. <<b, j>> \in TokenSet
    BY DEF TokenSet
  <2>2. CASE <<b, j>> # t
    <3>1. todo'[<<b, j>>] = todo[<<b, j>>] /\ exec'[<<b, j>>] = exec[<<b, j>>]
      BY <1>3, <1>4, <2>1, <2>2
    <3> QED  BY <3>1, ThreadStays DEF EndsOnly, SamePlace
  <2>3. CASE <<b, j>> = t
    <3>1. b = a /\ j = i /\ i \in Nat
      BY <1>1, <2>3 DEF Incs
    <3>2. /\ rec'[a].inc = i /\ exec'[<<a, i>>] = "gone" /\ todo'[<<a, i>>] = work
          /\ <<a, i>> \in stray' => <<a, i>> \in tripped'
      BY <1>1, <1>3, <1>4 DEF EndsOnly
    <3>3. RestartsItself(a, todo[<<a, i>>])'
      BY <1>1, <3>2 DEF RestartsItself, EndsOnly, SamePlace
    <3>4. ThreadHolds(a, i)'
      BY <3>1, <3>2, <3>3 DEF ThreadHolds
    <3> QED  BY <3>1, <3>4
  <2> QED  BY <2>2, <2>3
<1> QED  BY <1>3, <1>4, <1>5, <1>6, <1>7

\* A thread that is still running after it was given up has been told to stop.
LEMMA StrayWasTold ==
  ASSUME ActorInv, NEW t \in TokenSet, exec[t] \notin {"none", "gone"}
  PROVE  t \in stray => t \in tripped
BY CurrentThread DEF ThreadHolds

\* The record that a report ends, as failed, cancelled or completed.
LEMMA RecordEnds ==
  ASSUME ActorInv, NEW a \in Actors, NEW i \in Incs, i = rec[a].inc, rec[a].end # "absent",
         NEW e \in {"completed", "failed", "cancelled"},
         rec' = [rec EXCEPT ![a].end = e], endedBy' = [endedBy EXCEPT ![a] = i],
         UNCHANGED <<children, stray>>, tripped \subseteq tripped', tripped' \subseteq TokenSet
  PROVE  EndsOnly /\ rec'[a].end = e /\ \A b \in Actors : b # a => rec'[b] = rec[b]
<1>1. rec[a] \in ActorRecord /\ rec \in [Actors -> ActorRecord] /\ e \in ActorEnds /\ e # "absent"
  BY DEF ActorInv, TreeTypes, ActorEnds
<1>2. /\ rec' \in [Actors -> ActorRecord] /\ rec'[a].end = e /\ rec'[a].parent = rec[a].parent
      /\ rec'[a].kind = rec[a].kind /\ rec'[a].inc = rec[a].inc
      /\ \A b \in Actors : b # a => rec'[b] = rec[b]
  BY <1>1 DEF ActorRecord
<1>3. SamePlace
  BY <1>1, <1>2 DEF SamePlace
<1>4. /\ endedBy' \in [Actors -> 0..MaxInc] /\ endedBy'[a] = i
      /\ \A b \in Actors : b # a => endedBy'[b] = endedBy[b]
  <2>1. i \in 0..MaxInc /\ endedBy \in [Actors -> 0..MaxInc]
    BY DEF ActorInv, TreeTypes, Incs
  <2> QED  BY <2>1
<1>5. ASSUME NEW b \in Actors PROVE RecordHolds(b)'
  <2>1. RecordHolds(b)
    BY DEF ActorInv
  <2>2. CASE b = a
    BY <1>1, <1>2, <1>4, <2>1, <2>2 DEF RecordHolds
  <2>3. CASE b # a
    BY <1>2, <1>4, <2>1, <2>3 DEF RecordHolds
  <2> QED  BY <2>2, <2>3
<1>6. \A b \in Actors : rec'[b].inc = rec[b].inc
  BY <1>2
<1> QED  BY <1>2, <1>3, <1>4, <1>5, <1>6 DEF EndsOnly

\* Nothing happens to the records.
LEMMA RecordsStay ==
  ASSUME ActorInv, UNCHANGED <<rec, children, tripped, stray, endedBy>>
  PROVE  EndsOnly
<1>1. SamePlace
  BY DEF SamePlace
<1>2. \A a \in Actors : RecordHolds(a)'
  BY DEF ActorInv, RecordHolds
<1> QED  BY <1>1, <1>2 DEF ActorInv, TreeTypes, EndsOnly

\* A report after which no work is left, and by which nobody fails.
LEMMA QuietReport ==
  ASSUME ActorInv, NEW t \in TokenSet, exec[t] \notin {"none", "gone"},
         exec' = [exec EXCEPT ![t] = "gone"], EndsOnly, attempts' \in [Actors -> Nat], todo' = todo,
         \A b \in Actors : /\ rec'[b].end = "failed" => rec[b].end = "failed"
                           /\ rec'[b].end = "live" => rec[b].end = "live"
  PROVE  ActorInv'
<1>1. PICK work \in Seq(TreeItem) : work = <<>>
  <2>1. <<>> \in Seq(TreeItem)
    BY EmptySeq
  <2> QED  BY <2>1
<1>2. todo' = [todo EXCEPT ![t] = work]
  <2>1. todo[t] = <<>> /\ todo \in [TokenSet -> Seq(TreeItem)]
    BY CurrentThread DEF ActorInv, TreeTypes
  <2> QED  BY <1>1, <2>1
<1>3. RestartsItself(t[1], work)
  BY <1>1 DEF RestartsItself
<1>4. /\ TreeTypes' /\ ChildrenHold' /\ \A b \in Actors, j \in Incs : ThreadHolds(b, j)'
      /\ \A u \in TokenSet : exec[u] = "gone" => exec'[u] = "gone"
  <2>1. t \in stray => t \in tripped
    BY StrayWasTold
  <2> QED  BY <1>2, <1>3, <2>1, ReportGoes
<1>5. \A b \in Actors : <<b, 1>> \in TokenSet
  BY ActorConstants DEF ActorConstants, TokenSet, Incs
<1>6. WaveHolds'
  BY <1>4, <1>5, WaveStays DEF EndsOnly, SamePlace
<1> QED  BY <1>4, <1>6 DEF ActorInv, EndsOnly

\* A success.
LEMMA ReportOkHolds ==
  ASSUME ActorInv, NEW t \in TokenSet, ReportOk(t)
  PROVE  ActorInv'
<1>1. exec[t] \notin {"none", "gone"} /\ exec' = [exec EXCEPT ![t] = "gone"] /\ UNCHANGED <<children, tripped, stray, todo>>
  BY DEF ReportOk, Becomes
<1>2. PICK a \in Actors, i \in Incs : /\ t = <<a, i>> /\ t[1] = a /\ t[2] = i /\ i = rec[a].inc
                                      /\ rec[a].end # "absent"
  BY <1>1, CurrentThread
<1>3. attempts \in [Actors -> Nat] /\ tripped \subseteq TokenSet
  BY DEF ActorInv, TreeTypes
<1>4. CASE rec[a].end \in {"live", "completed"}
  <2>1. /\ rec' = [rec EXCEPT ![a].end = "completed"] /\ endedBy' = [endedBy EXCEPT ![a] = i]
        /\ attempts' = [attempts EXCEPT ![a] = 0]
    BY <1>2, <1>4 DEF ReportOk
  <2>2. EndsOnly /\ rec'[a].end = "completed" /\ \A b \in Actors : b # a => rec'[b] = rec[b]
    BY <1>1, <1>2, <1>3, <2>1, RecordEnds
  <2>3. \A b \in Actors : /\ rec'[b].end = "failed" => rec[b].end = "failed"
                          /\ rec'[b].end = "live" => rec[b].end = "live"
    BY <2>2
  <2>4. attempts' \in [Actors -> Nat]
    BY <1>3, <2>1
  <2> QED  BY <1>1, <2>2, <2>3, <2>4, QuietReport
<1>5. CASE rec[a].end \notin {"live", "completed"}
  <2>1. UNCHANGED <<rec, attempts, endedBy>>
    BY <1>2, <1>5 DEF ReportOk
  <2>2. EndsOnly
    BY <1>1, <2>1, RecordsStay
  <2> QED  BY <1>1, <1>3, <2>1, <2>2, QuietReport
<1> QED  BY <1>4, <1>5

\* A crash or a timeout that counts: the record fails and the supervisor decides.
LEMMA FailureHolds ==
  ASSUME DefaultSupervision, ActorInv, NEW t \in TokenSet, exec[t] \notin {"none", "gone"},
         exec' = [exec EXCEPT ![t] = "gone"], UNCHANGED <<children, tripped, stray>>,
         rec' = [rec EXCEPT ![t[1]].end = "failed"], endedBy' = [endedBy EXCEPT ![t[1]] = t[2]],
         todo' = [todo EXCEPT ![t] = Decision(t[1])],
         attempts' = [attempts EXCEPT ![t[1]] = IF OutOfRestarts(t[1]) THEN @ ELSE @ + 1]
  PROVE  ActorInv'
<1>1. PICK a \in Actors, i \in Incs : /\ t = <<a, i>> /\ t[1] = a /\ t[2] = i /\ i = rec[a].inc
                                      /\ rec[a].end # "absent"
  BY CurrentThread
<1>2. attempts \in [Actors -> Nat] /\ tripped \subseteq TokenSet
  BY DEF ActorInv, TreeTypes
<1>3. EndsOnly /\ rec'[a].end = "failed" /\ \A b \in Actors : b # a => rec'[b] = rec[b]
  BY <1>1, <1>2, RecordEnds
<1>4. attempts' \in [Actors -> Nat]
  BY <1>1, <1>2
<1>5. PICK work \in Seq(TreeItem) :
        /\ work = Decision(a) /\ RestartsItself(a, work)
        /\ rec[a].kind = "wave" =>
             \A b \in Actors : rec[b].kind = "wave" /\ rec[b].end = "live" /\ b # a => Named(work, b)
  BY <1>1, DecisionMeans
<1>6. /\ TreeTypes' /\ ChildrenHold' /\ \A b \in Actors, j \in Incs : ThreadHolds(b, j)'
      /\ todo'[t] = work /\ \A u \in TokenSet : u # t => todo'[u] = todo[u]
      /\ exec'[t] = "gone" /\ \A u \in TokenSet : exec[u] = "gone" => exec'[u] = "gone"
  <2>1. t \in stray => t \in tripped
    BY StrayWasTold
  <2>2. todo' = [todo EXCEPT ![t] = work] /\ RestartsItself(t[1], work)
    BY <1>1, <1>5
  <2> QED  BY <1>3, <1>4, <2>1, <2>2, ReportGoes
<1>7. ASSUME NEW x \in Actors, rec'[x].kind = "wave", rec'[x].end = "failed"
      PROVE  /\ exec'[<<x, 1>>] = "gone"
             /\ \A b \in Actors : rec'[b].kind = "wave" /\ rec'[b].end = "live" =>
                  <<b, 1>> \in tripped' \/ Named(todo'[<<x, 1>>], b)
  <2>1. <<x, 1>> \in TokenSet
    BY ActorConstants DEF ActorConstants, TokenSet, Incs
  <2>2. \A b \in Actors : rec'[b].kind = "wave" /\ rec'[b].end = "live" =>
                            b # a /\ rec[b].kind = "wave" /\ rec[b].end = "live"
    BY <1>3
  <2>3. CASE x = a
    <3>1. rec[a].kind = "wave" /\ RecordHolds(a)
      BY <1>3, <1>7, <2>3 DEF EndsOnly, SamePlace, ActorInv
    <3>2. t = <<x, 1>>
      BY <1>1, <2>3, <3>1 DEF RecordHolds
    <3> QED  BY <1>5, <1>6, <2>2, <3>1, <3>2
  <2>4. CASE x # a
    <3>1. rec[x].kind = "wave" /\ rec[x].end = "failed" /\ <<x, 1>> # t
      BY <1>1, <1>3, <1>7, <2>4
    <3>2. todo'[<<x, 1>>] = todo[<<x, 1>>]
      BY <1>6, <2>1, <3>1
    <3> QED  BY <1>6, <2>1, <2>2, <3>1, <3>2 DEF ActorInv, WaveHolds
  <2> QED  BY <2>3, <2>4
<1>8. WaveHolds'
  BY <1>7 DEF WaveHolds
<1> QED  BY <1>3, <1>6, <1>8 DEF ActorInv, EndsOnly

\* A failure or a cancellation is reported.
LEMMA ReportErrorHolds ==
  ASSUME DefaultSupervision, ActorInv, NEW t \in TokenSet, ReportError(t)
  PROVE  ActorInv'
<1>1. /\ exec[t] \in {"crash", "timeout", "cancelled"} /\ exec[t] \notin {"none", "gone"}
      /\ exec' = [exec EXCEPT ![t] = "gone"] /\ UNCHANGED <<children, stray>>
  BY DEF ReportError, Becomes
<1>2. PICK a \in Actors, i \in Incs : /\ t = <<a, i>> /\ t[1] = a /\ t[2] = i /\ i = rec[a].inc
                                      /\ rec[a].end # "absent"
  BY <1>1, CurrentThread
<1>3. attempts \in [Actors -> Nat] /\ tripped \subseteq TokenSet
  BY DEF ActorInv, TreeTypes
<1>4. CASE ~Counts(a)
  <2>1. UNCHANGED <<rec, attempts, tripped, todo, endedBy>>
    BY <1>2, <1>4 DEF ReportError
  <2>2. EndsOnly
    BY <1>1, <2>1, RecordsStay
  <2> QED  BY <1>1, <1>3, <2>1, <2>2, QuietReport
<1>5. CASE Counts(a) /\ exec[t] = "cancelled"
  <2>1. /\ rec' = [rec EXCEPT ![a].end = "cancelled"] /\ endedBy' = [endedBy EXCEPT ![a] = i]
        /\ tripped' = tripped \cup {CurrentToken(a)} /\ UNCHANGED <<attempts, todo>>
    BY <1>2, <1>5 DEF ReportError
  <2>2. tripped \subseteq tripped' /\ tripped' \subseteq TokenSet
    BY <1>2, <1>3, <2>1, CurrentTokens
  <2>3. EndsOnly /\ rec'[a].end = "cancelled" /\ \A b \in Actors : b # a => rec'[b] = rec[b]
    BY <1>1, <1>2, <2>1, <2>2, RecordEnds
  <2>4. \A b \in Actors : /\ rec'[b].end = "failed" => rec[b].end = "failed"
                          /\ rec'[b].end = "live" => rec[b].end = "live"
    BY <2>3
  <2> QED  BY <1>1, <1>3, <2>1, <2>3, <2>4, QuietReport
<1>6. CASE Counts(a) /\ exec[t] # "cancelled"
  <2>1. /\ rec' = [rec EXCEPT ![t[1]].end = "failed"] /\ endedBy' = [endedBy EXCEPT ![t[1]] = t[2]]
        /\ todo' = [todo EXCEPT ![t] = Decision(t[1])] /\ UNCHANGED tripped
        /\ attempts' = [attempts EXCEPT ![t[1]] = IF OutOfRestarts(t[1]) THEN @ ELSE @ + 1]
    BY <1>2, <1>6 DEF ReportError
  <2> QED  BY <1>1, <2>1, FailureHolds
<1> QED  BY <1>4, <1>5, <1>6

LEMMA TreeGoes == ASSUME DefaultSupervision PROVE ActorInv /\ [ActorNext]_actorVars => ActorInv'
<1> SUFFICES ASSUME ActorInv, [ActorNext]_actorVars PROVE ActorInv'
  OBVIOUS
<1>1. CASE UNCHANGED actorVars
  <2>1. UNCHANGED <<rec, children, attempts, tripped, exec, stray, todo, endedBy>>
    BY <1>1 DEF actorVars
  <2>2. TreeTypes' /\ ChildrenHold' /\ WaveHolds'
    BY <2>1 DEF ActorInv, TreeTypes, ChildrenHold, WaveHolds, GroupOf
  <2>3. \A a \in Actors : RecordHolds(a)'
    BY <2>1 DEF ActorInv, RecordHolds
  <2>4. \A a \in Actors, i \in Incs : ThreadHolds(a, i)'
    BY <2>1, ThreadStays
  <2> QED  BY <2>2, <2>3, <2>4 DEF ActorInv
<1>2. ASSUME NEW p \in Actors \cup {Root}, NEW a \in Actors, NEW kind \in {"spawn", "run"}, SpawnActor(p, a, kind)
      PROVE  ActorInv'
  <2>1. /\ rec[a].end = "absent" /\ Enrolled({a}, p, kind)
        /\ UNCHANGED <<attempts, tripped, stray, todo, endedBy>>
    BY <1>2 DEF SpawnActor
  <2>2. {a} \in SUBSET Actors /\ kind \in {"spawn", "run", "wave"} /\ kind # "wave"
    OBVIOUS
  <2> QED  BY <2>1, <2>2, EnrolHolds
<1>3. ASSUME NEW S \in SUBSET Actors, SpawnWave(S) PROVE ActorInv'
  <2>1. /\ children["wave"] = <<>> /\ \A a \in S : rec[a].end = "absent"
        /\ Enrolled(S, Root, "wave") /\ UNCHANGED <<attempts, tripped, stray, todo, endedBy>>
    BY <1>3 DEF SpawnWave
  <2> QED  BY <2>1, EnrolHolds
<1>4. ASSUME NEW kind \in {"run", "wave"}, DropCall(kind) PROVE ActorInv'
  BY <1>4, DropCallHolds
<1>5. ASSUME NEW p \in Actors \cup {Root}, NEW a \in Actors, CancelChild(p, a) PROVE ActorInv'
  BY <1>5, CancelChildHolds
<1>6. ASSUME NEW t \in Actors \X Incs, RunStep(t) PROVE ActorInv'
  <2>1. t \in TokenSet
    BY DEF TokenSet
  <2>2. CASE StartRun(t) \/ EndRun(t) \/ TimeoutRun(t)
    BY <2>1, <2>2, RunHolds
  <2>3. CASE EndStray(t)
    BY <2>1, <2>3, StrayHolds
  <2>4. CASE ReportOk(t)
    BY <2>1, <2>4, ReportOkHolds
  <2>5. CASE ReportError(t)
    BY <2>1, <2>5, ReportErrorHolds
  <2>6. CASE CancelListed(t)
    BY <2>1, <2>6, CancelListedHolds
  <2>7. CASE CancelNext(t)
    BY <2>1, <2>7, CancelNextHolds
  <2>8. CASE RestartNext(t)
    BY <2>1, <2>8, RestartNextHolds
  <2> QED  BY <1>6, <2>2, <2>3, <2>4, <2>5, <2>6, <2>7, <2>8 DEF RunStep
<1> QED  BY <1>1, <1>2, <1>3, <1>4, <1>5, <1>6 DEF ActorNext

LEMMA TreeIsSafe == ActorInv => ActorsSafe
<1> SUFFICES ASSUME ActorInv PROVE ActorsSafe
  OBVIOUS
<1>1. ActorTypeOK
  <2>1. rec \in [Actors -> [end : {"absent", "live", "completed", "failed", "cancelled"},
                           parent : Actors \cup {Root}, kind : {"spawn", "run", "wave"},
                           inc : 0..MaxInc]]
    BY DEF ActorInv, TreeTypes, ActorRecord, ActorEnds
  <2>2. ASSUME NEW g \in Groups PROVE children[g] \in Seq(Actors) /\ IsInjective(children[g])
    <3>1. PICK s \in Seq(Actors) : s = children[g] /\ \A k, l \in 1..Len(s) : s[k] = s[l] => k = l
      BY DEF ActorInv, TreeTypes, ChildrenHold
    <3>2. DOMAIN s = 1..Len(s)
      OBVIOUS
    <3> QED  BY <3>1, <3>2 DEF IsInjective
  <2>3. ASSUME NEW t \in TokenSet, NEW k \in DOMAIN todo[t] PROVE todo[t][k] \in TreeItem
    <3>1. PICK s \in Seq(TreeItem) : s = todo[t]
      BY DEF ActorInv, TreeTypes
    <3>2. k \in 1..Len(s)
      BY <3>1
    <3> QED  BY <3>1, <3>2
  <2> QED  BY <2>1, <2>2, <2>3 DEF ActorInv, TreeTypes, TokenSet, RunStates, TreeItem, ActorTypeOK
<1>2. \A a \in Actors, i \in Incs : ThreadHolds(a, i) /\ RecordHolds(a) /\ i \in Nat /\ rec[a].inc \in Nat
  BY DEF ActorInv, TreeTypes, ActorRecord, Incs
<1>3. OneActiveRun
  <2>1. ASSUME NEW a \in Actors, NEW i \in Incs, exec[<<a, i>>] = "running" \/ <<a, i>> \in stray, <<a, i>> \notin tripped
        PROVE  i = rec[a].inc
    BY <1>2, <2>1 DEF ThreadHolds
  <2> QED  BY <2>1 DEF OneActiveRun
<1>4. EndedByOwnRun
  BY DEF ActorInv, RecordHolds, EndedByOwnRun
<1>5. FailureStopsWave
  <2>1. ASSUME NEW a \in Actors, rec[a].kind = "wave", rec[a].end = "failed", \A i \in Incs : todo[<<a, i>>] = <<>>,
               NEW b \in LiveActors, GroupOf(b) = "wave"
        PROVE  CurrentToken(b) \in tripped
    <3>1. 1 \in Incs /\ todo[<<a, 1>>] = <<>>
      BY <2>1, ActorConstants DEF ActorConstants, Incs
    <3>2. b \in Actors /\ rec[b].end = "live" /\ rec[b].kind = "wave"
      <4>1. b \in Actors /\ rec[b].end = "live" /\ rec[b].parent \in Actors \cup {Root}
        BY DEF LiveActors, ActorInv, TreeTypes, ActorRecord
      <4> QED  BY <2>1, <4>1, ActorConstants DEF GroupOf, ActorConstants
    <3>3. rec[b].inc = 1
      BY <3>2 DEF ActorInv, RecordHolds
    <3>4. <<b, 1>> \in tripped \/ Named(todo[<<a, 1>>], b)
      BY <2>1, <3>2 DEF ActorInv, WaveHolds
    <3> QED  BY <3>1, <3>3, <3>4 DEF Named, CurrentToken
  <2> QED  BY <2>1 DEF FailureStopsWave
<1> QED  BY <1>1, <1>3, <1>4, <1>5 DEF ActorsSafe

\* The actor tree keeps what ActorsSafe says, for every set of actors and every limit, in
\* waves and in groups under one_for_one or without restarts, which is what
\* configure_supervision_from_opts sets unless the options ask for more: at most one
\* incarnation of an actor acts untold, a record is ended by its own incarnation or by a
\* cancel, and a failed wave leaves no member running untouched.
THEOREM ActorsAreSafe == ASSUME DefaultSupervision PROVE ActorSpec => []ActorsSafe
<1>1. ActorInit => ActorInv
  BY TreeBegins
<1>2. ActorInv /\ [ActorNext]_actorVars => ActorInv'
  BY TreeGoes
<1>3. ActorInv => ActorsSafe
  BY TreeIsSafe
<1> QED  BY <1>1, <1>2, <1>3, PTL DEF ActorSpec

-----------------------------------------------------------------------------
(* What dreams learn: policy evolution.                                    *)

EvStages == {"idle", "capture", "trace", "look", "value", "pool", "induce", "link", "gain", "write"}

EvRunning == [pc : EvStages, session : EvSessions \cup {"none"}, todo : SUBSET EvTurns,
              turn : EvTurns \cup {"none"}, known : SUBSET EvTurns, plan : SUBSET Plans,
              valued : SUBSET EvTurns, found : SUBSET Links]

\* The episode of turn t ended with reward r.
Valued(ep, t, r) == ep[t].status = "valued" /\ ep[t].reward = r

\* A run that left a turn of its session behind has seen to it that the turn has
\* a trace; what it plans to value has one; what it found positive ended well; and
\* what it is about to write was linked.
EvolverOK(e, ep, tr, ls) ==
  /\ e.pc = "trace" => e.turn \in EvTurns
  /\ e.pc \in {"capture", "trace"} =>
       \A t \in EvTurns : SessionOfTurn[t] = e.session =>
          t \in e.todo \/ (e.pc = "trace" /\ t = e.turn) \/ tr[t].id # 0
  /\ e.pc = "look" => \A t \in e.todo : tr[t].id # 0
  /\ \A p \in e.plan : p.id # 0
  /\ \A l \in e.found : l.positive => Valued(ep, l.turn, "pass")
  /\ e.pc = "write" => e.found \subseteq ls

\* A trace has the value of its episode, or none; a link and a claim of support
\* outlive it.
TracesHold ==
  /\ \A t \in EvTurns : trace[t].value # "none" =>
       trace[t].id # 0 /\ Valued(episode, t, trace[t].value)
  /\ \A l \in links : l.positive => Valued(episode, l.turn, "pass")
  /\ \A t \in policy.support : \E l \in links : l.turn = t /\ l.positive

\* The turns with an outcome, which are counted once each.
Told == {o[1] : o \in outcomes}

OutcomesHold ==
  /\ IsFiniteSet(outcomes) /\ IsFiniteSet(exposed) /\ IsFiniteSet(Told)
  /\ \A o \in outcomes : o[1] \in exposed /\ Valued(episode, o[1], o[2])
  /\ \A r \in Rewards : stats[r] = Cardinality({o \in outcomes : o[2] = r})
  /\ stats.pass + stats.fail = Cardinality(Told)
  /\ stats.exposures = Cardinality(exposed)

EvInv ==
  /\ EvTypeOK /\ evolver \in [Evolvers -> EvRunning]
  /\ TracesHold
  /\ OutcomesHold
  /\ \A w \in Evolvers : EvolverOK(evolver[w], episode, trace, links)

\* What a step has to show: the invariant, and that a valued episode stays.
EvFinal == \A t \in EvTurns : episode[t].status = "valued" => episode'[t] = episode[t]

\* What a step may do to the store without disturbing the other runs.
EvGrows ==
  /\ EvFinal
  /\ \A t \in EvTurns : trace[t].id # 0 => trace'[t].id # 0
  /\ links \subseteq links'

\* The stored part of the type invariant.
EvStoreTyped ==
  /\ episode \in [EvTurns -> [status : {"none", "captured", "valued"},
                              reward : Rewards \cup {"none"}]]
  /\ trace \in [EvTurns -> [id : 0..MaxTraceIds, value : Rewards \cup {"none"}]]
  /\ traceIds \in 0..MaxTraceIds
  /\ feedback \in [EvTurns -> Rewards \cup {"none"}]
  /\ exposed \subseteq EvTurns
  /\ outcomes \subseteq EvTurns \X Rewards
  /\ stats \in [exposures : Nat, pass : Nat, fail : Nat]
  /\ links \subseteq Links
  /\ policy \in [status : {"none", "candidate", "active", "archived"},
                 support : SUBSET EvTurns]
  /\ evRuns \in 0..MaxEvRuns

\* The type invariant is the typing of the store and of the runs.
LEMMA EvTypes ==
    ASSUME evolver \in [Evolvers -> EvRunning]
    PROVE  EvTypeOK <=> EvStoreTyped
  <1>1. \A w \in Evolvers : evolver[w] \in EvRunning
    OBVIOUS
  <1>2. \A w \in Evolvers :
          /\ evolver[w].pc \in {"idle", "capture", "trace", "look", "value", "pool",
                                "induce", "link", "gain", "write"}
          /\ evolver[w].plan \subseteq Plans /\ evolver[w].found \subseteq Links
    BY <1>1 DEF EvRunning, EvStages
  <1> QED
    BY <1>2 DEF EvTypeOK, EvStoreTyped

\* What holds of a run goes on holding while it waits.
LEMMA EvWaits ==
    ASSUME EvInv, EvGrows, NEW w \in Evolvers
    PROVE  EvolverOK(evolver[w], episode', trace', links')
  <1>1. /\ evolver[w] \in EvRunning
        /\ EvolverOK(evolver[w], episode, trace, links)
    BY DEF EvInv
  <1>2. \A l \in evolver[w].found : l.turn \in EvTurns
    BY <1>1 DEF EvRunning, Links
  <1>3. \A t \in evolver[w].todo : t \in EvTurns
    BY <1>1 DEF EvRunning
  <1>4. \A l \in evolver[w].found : l.positive => Valued(episode', l.turn, "pass")
    BY <1>1, <1>2 DEF EvolverOK, EvGrows, EvFinal, Valued
  <1> QED
    BY <1>1, <1>3, <1>4 DEF EvolverOK, EvGrows

\* A step of one run leaves the others as they were.
LEMMA EvMoves ==
    ASSUME EvInv, EvGrows, NEW w \in Evolvers, NEW e \in EvRunning, EvTo(w, e),
           EvolverOK(e, episode', trace', links'),
           EvStoreTyped', TracesHold', OutcomesHold'
    PROVE  EvInv' /\ EvFinal
  <1>1. evolver \in [Evolvers -> EvRunning]
    BY DEF EvInv
  <1>2. evolver' \in [Evolvers -> EvRunning]
    BY <1>1 DEF EvTo
  <1>3. EvTypeOK'
    <2>1. \A x \in Evolvers : evolver'[x] \in EvRunning
      BY <1>2
    <2>2. \A x \in Evolvers :
            /\ evolver'[x].pc \in {"idle", "capture", "trace", "look", "value", "pool",
                                   "induce", "link", "gain", "write"}
            /\ evolver'[x].plan \subseteq Plans /\ evolver'[x].found \subseteq Links
      BY <2>1 DEF EvRunning, EvStages
    <2> QED
      BY <2>2 DEF EvTypeOK, EvStoreTyped
  <1>4. \A x \in Evolvers : evolver'[x] = IF x = w THEN e ELSE evolver[x]
    BY <1>1 DEF EvTo
  <1>5. \A x \in Evolvers : EvolverOK(evolver'[x], episode', trace', links')
    BY <1>4, EvWaits
  <1> QED
    BY <1>2, <1>3, <1>5 DEF EvInv, EvGrows

\* A step that only reads the store.
LEMMA EvReads ==
    ASSUME EvInv, NEW w \in Evolvers, NEW e \in EvRunning, EvTo(w, e), UNCHANGED evStore,
           evRuns' \in 0..MaxEvRuns, EvolverOK(e, episode, trace, links)
    PROVE  EvInv' /\ EvFinal
  <1>1. EvGrows
    BY DEF EvGrows, EvFinal, evStore
  <1>2. EvStoreTyped
    BY EvTypes DEF EvInv
  <1>3. EvStoreTyped'
    BY <1>2 DEF EvStoreTyped, evStore
  <1>4. TracesHold'
    BY DEF EvInv, TracesHold, evStore
  <1>5. OutcomesHold'
    BY DEF EvInv, OutcomesHold, Told, evStore
  <1>6. EvolverOK(e, episode', trace', links')
    BY DEF evStore
  <1> QED
    BY <1>1, <1>3, <1>4, <1>5, <1>6, EvMoves

\* A run that ended holds nothing.
LEMMA EvRests ==
    /\ NoRunning \in EvRunning
    /\ \A ep, tr, ls : EvolverOK(NoRunning, ep, tr, ls)
  BY DEF NoRunning, EvRunning, EvStages, EvolverOK

\* Before any dream a turn selects the skill: event and counter together.
LEMMA ExposeStep ==
    ASSUME EvInv, NEW t \in EvTurns, Expose(t)
    PROVE  EvInv' /\ EvFinal
  <1>1. EvStoreTyped /\ OutcomesHold
    BY EvTypes DEF EvInv
  <1>2. /\ t \notin exposed /\ exposed' = exposed \cup {t}
        /\ stats' = [stats EXCEPT !.exposures = @ + 1]
        /\ UNCHANGED <<episode, trace, traceIds, feedback, outcomes, links, policy, evolver, evRuns>>
    BY DEF Expose
  <1>3. /\ stats'.exposures = stats.exposures + 1 /\ stats'.pass = stats.pass
        /\ stats'.fail = stats.fail /\ stats' \in [exposures : Nat, pass : Nat, fail : Nat]
    BY <1>1, <1>2 DEF EvStoreTyped
  <1>4. IsFiniteSet(exposed') /\ Cardinality(exposed') = Cardinality(exposed) + 1
    BY <1>1, <1>2, FS_AddElement DEF OutcomesHold
  <1>5. OutcomesHold'
    <2>1. stats'["pass"] = stats["pass"] /\ stats'["fail"] = stats["fail"]
      BY <1>3
    <2> QED
      BY <1>1, <1>2, <1>3, <1>4, <2>1 DEF OutcomesHold, Told, Rewards
  <1>6. EvTypeOK'
    BY <1>2, <1>3 DEF EvInv, EvTypeOK
  <1>7. TracesHold'
    BY <1>2 DEF EvInv, TracesHold
  <1> QED
    BY <1>2, <1>5, <1>6, <1>7 DEF EvInv, EvFinal

\* Feedback values nothing by itself.
LEMMA FeedbackStep ==
    ASSUME EvInv, NEW t \in EvTurns, NEW r \in Rewards, GiveFeedback(t, r)
    PROVE  EvInv' /\ EvFinal
  <1>1. /\ feedback' = [feedback EXCEPT ![t] = r]
        /\ UNCHANGED <<episode, trace, traceIds, exposed, outcomes, stats, links, policy, evolver, evRuns>>
    BY DEF GiveFeedback
  <1>2. EvTypeOK'
    BY <1>1 DEF EvInv, EvTypeOK
  <1>3. TracesHold' /\ OutcomesHold'
    BY <1>1 DEF EvInv, TracesHold, OutcomesHold, Told
  <1> QED
    BY <1>1, <1>2, <1>3 DEF EvInv, EvFinal

\* The steps of a run that only read.
LEMMA ReadingSteps ==
    ASSUME EvInv, NEW w \in Evolvers,
           \/ \E s \in EvSessions : BeginRun(w, s)
           \/ EndCapture(w) \/ EndLook(w) \/ PoolTraces(w) \/ ReadLinks(w) \/ StopRun(w)
           \/ \E t \in EvTurns : LookAt(w, t)
    PROVE  EvInv' /\ EvFinal
  <1> DEFINE e == evolver[w]
  <1>1. e \in EvRunning /\ EvolverOK(e, episode, trace, links)
    BY DEF EvInv
  <1>2. EvStoreTyped /\ TracesHold
    BY EvTypes DEF EvInv
  <1>3. evRuns \in 0..MaxEvRuns
    BY <1>2 DEF EvStoreTyped
  <1>4. CASE \E s \in EvSessions : BeginRun(w, s)
    <2> PICK s \in EvSessions : BeginRun(w, s)
      BY <1>4
    <2> DEFINE n == [NoRunning EXCEPT !.pc = "capture", !.session = s,
                           !.todo = {t \in EvTurns : SessionOfTurn[t] = s}]
    <2>1. n \in EvRunning /\ EvolverOK(n, episode, trace, links)
      BY DEF NoRunning, EvRunning, EvStages, EvolverOK
    <2>2. EvTo(w, n) /\ UNCHANGED evStore
      BY DEF BeginRun
    <2>3. evRuns' = evRuns + 1 /\ evRuns < MaxEvRuns
      BY DEF BeginRun
    <2>4. evRuns' \in 0..MaxEvRuns
      BY <1>3, <2>3, EvolutionAssumption
    <2> HIDE DEF n
    <2> QED
      BY <2>1, <2>2, <2>4, EvReads
  <1>5. CASE EndCapture(w)
    <2> DEFINE n == [e EXCEPT !.pc = "look", !.todo = {t \in EvTurns : SessionOfTurn[t] = e.session}]
    <2>1. /\ n \in EvRunning /\ n.pc = "look" /\ n.plan = e.plan /\ n.found = e.found
          /\ n.todo = {t \in EvTurns : SessionOfTurn[t] = e.session}
      BY <1>1 DEF EvRunning, EvStages
    <2>2. e.pc = "capture" /\ e.todo = {} /\ EvTo(w, n) /\ UNCHANGED <<evStore, evRuns>>
      BY <1>5 DEF EndCapture
    <2> HIDE DEF n
    <2>3. EvolverOK(n, episode, trace, links)
      BY <1>1, <2>1, <2>2 DEF EvolverOK
    <2> QED
      BY <1>3, <2>1, <2>2, <2>3, EvReads
  <1>6. CASE EndLook(w)
    <2> DEFINE n == [e EXCEPT !.pc = "value"]
    <2>1. n \in EvRunning /\ n.pc = "value" /\ n.plan = e.plan /\ n.found = e.found
      BY <1>1 DEF EvRunning, EvStages
    <2>2. EvTo(w, n) /\ UNCHANGED <<evStore, evRuns>>
      BY <1>6 DEF EndLook
    <2> HIDE DEF n
    <2>3. EvolverOK(n, episode, trace, links)
      BY <1>1, <2>1, <2>2 DEF EvolverOK
    <2> QED
      BY <1>3, <2>1, <2>2, <2>3, EvReads
  <1>7. CASE \E t \in EvTurns : LookAt(w, t)
    <2> PICK t \in EvTurns : LookAt(w, t)
      BY <1>7
    <2> DEFINE p == [turn |-> t, reward |-> RewardOf(t), id |-> trace[t].id]
               ps == IF episode[t].status = "captured" THEN e.plan \cup {p} ELSE e.plan
               n == [e EXCEPT !.todo = @ \ {t}, !.plan = ps]
    <2>1. e.pc = "look" /\ t \in e.todo /\ EvTo(w, n) /\ UNCHANGED <<evStore, evRuns>>
      BY DEF LookAt
    <2>2. RewardOf(t) \in Rewards
      BY <1>2, EvolutionAssumption DEF RewardOf, EvStoreTyped
    <2>3. p \in Plans /\ p.id = trace[t].id
      BY <1>2, <2>2 DEF EvStoreTyped, Plans
    <2>4. trace[t].id # 0
      BY <1>1, <2>1 DEF EvolverOK
    <2> HIDE DEF p
    <2>5. ps \subseteq Plans /\ \A q \in ps : q.id # 0
      BY <1>1, <2>3, <2>4 DEF EvRunning, EvolverOK
    <2> HIDE DEF ps
    <2>6. n \in EvRunning /\ n.pc = e.pc /\ n.plan = ps /\ n.found = e.found /\ n.todo = e.todo \ {t}
      BY <1>1, <2>5 DEF EvRunning
    <2> HIDE DEF n
    <2>7. EvolverOK(n, episode, trace, links)
      BY <1>1, <2>1, <2>5, <2>6 DEF EvolverOK
    <2> QED
      BY <1>3, <2>1, <2>6, <2>7, EvReads
  <1>8. CASE PoolTraces(w)
    <2> DEFINE usable == {t \in e.valued \cup e.known : trace[t].value # "none"}
               found == {[turn |-> t, id |-> trace[t].id, positive |-> trace[t].value = "pass"] : t \in usable}
               positive == {l \in found : l.positive}
    <2>1. \A t \in usable : /\ t \in EvTurns /\ trace[t].id \in 1..MaxTraceIds
                            /\ (trace[t].value = "pass") \in BOOLEAN
                            /\ trace[t].value = "pass" => Valued(episode, t, "pass")
      BY <1>1, <1>2, EvolutionAssumption DEF EvRunning, EvStoreTyped, TracesHold
    <2> DEFINE link(t, b) == [turn |-> t, id |-> trace[t].id, positive |-> b]
    <2>9. ASSUME NEW t \in usable, NEW b \in BOOLEAN
          PROVE  link(t, b) \in Links /\ link(t, b).positive = b /\ link(t, b).turn = t
      BY <2>1 DEF Links
    <2>10. ASSUME NEW l \in found
           PROVE  l \in Links /\ (l.positive => Valued(episode, l.turn, "pass"))
      <3>1. PICK t \in usable : l = link(t, trace[t].value = "pass")
        BY Zenon
      <3> HIDE DEF link
      <3>2. /\ l \in Links /\ l.positive = (trace[t].value = "pass") /\ l.turn = t
        BY <2>1, <2>9, <3>1, Zenon
      <3> QED
        BY <2>1, <3>2, Zenon
    <2>2. found \subseteq Links
      BY <2>10
    <2>3. \A l \in found : l.positive => Valued(episode, l.turn, "pass")
      BY <2>10
    <2> HIDE DEF found
    <2>4. \E f \in {found, positive}, pc \in {"link", "induce"} :
            EvTo(w, [e EXCEPT !.pc = pc, !.found = f]) \/ EvTo(w, NoRunning)
      BY <1>8 DEF PoolTraces, found
    <2>5. UNCHANGED <<evStore, evRuns>>
      BY <1>8 DEF PoolTraces
    <2>6. ASSUME NEW f \in {found, positive}, NEW pc \in {"link", "induce"},
                 EvTo(w, [e EXCEPT !.pc = pc, !.found = f])
          PROVE  EvInv' /\ EvFinal
      <3> DEFINE n == [e EXCEPT !.pc = pc, !.found = f]
      <3>1. n \in EvRunning /\ n.pc = pc /\ n.plan = e.plan /\ n.found = f
        BY <1>1, <2>2 DEF EvRunning, EvStages
      <3>2. EvTo(w, n)
        BY <2>6
      <3> HIDE DEF n
      <3>3. EvolverOK(n, episode, trace, links)
        BY <1>1, <2>3, <3>1 DEF EvolverOK
      <3> QED
        BY <1>3, <2>5, <3>1, <3>2, <3>3, EvReads
    <2> QED
      BY <1>3, <2>4, <2>5, <2>6, EvRests, EvReads
  <1>9. CASE ReadLinks(w)
    <2> DEFINE n == [e EXCEPT !.pc = "write", !.found = links]
    <2>1. n \in EvRunning /\ n.pc = "write" /\ n.plan = e.plan /\ n.found = links
      BY <1>1, <1>2 DEF EvRunning, EvStages, EvStoreTyped
    <2>2. EvTo(w, n) /\ UNCHANGED <<evStore, evRuns>>
      BY <1>9 DEF ReadLinks
    <2> HIDE DEF n
    <2>3. EvolverOK(n, episode, trace, links)
      BY <1>1, <1>2, <2>1, <2>2 DEF EvolverOK, TracesHold
    <2> QED
      BY <1>3, <2>1, <2>2, <2>3, EvReads
  <1>10. CASE StopRun(w)
    BY <1>3, <1>10, EvRests, EvReads DEF StopRun
  <1> QED
    BY <1>4, <1>5, <1>6, <1>7, <1>8, <1>9, <1>10

\* An episode is captured, over none that is there; a turn without a trace is next.
LEMMA CaptureStep ==
    ASSUME EvInv, NEW w \in Evolvers, NEW t \in EvTurns, CaptureEpisode(w, t)
    PROVE  EvInv' /\ EvFinal
  <1> DEFINE e == evolver[w]
             fresh == episode[t].status = "none"
             kept == ~fresh /\ trace[t].id # 0
             ks == IF episode[t].status = "valued" THEN e.known \cup {t} ELSE e.known
             pc == IF kept THEN "capture" ELSE "trace"
             next == IF kept THEN "none" ELSE t
             n == [e EXCEPT !.todo = @ \ {t}, !.known = ks, !.pc = pc, !.turn = next]
  <1>1. e \in EvRunning /\ EvolverOK(e, episode, trace, links)
    BY DEF EvInv
  <1>2. EvStoreTyped /\ TracesHold /\ OutcomesHold
    BY EvTypes DEF EvInv
  <1>3. /\ e.pc = "capture" /\ t \in e.todo /\ EvTo(w, n)
        /\ episode' = IF fresh THEN [episode EXCEPT ![t].status = "captured"] ELSE episode
        /\ UNCHANGED <<trace, traceIds, feedback, exposed, outcomes, stats, links, policy, evRuns>>
    BY DEF CaptureEpisode
  <1>4. ks \subseteq EvTurns /\ pc \in {"capture", "trace"} /\ next \in EvTurns \cup {"none"}
    BY <1>1 DEF EvRunning
  <1>5. pc = "trace" => next = t
    OBVIOUS
  <1>6. pc = "capture" => trace[t].id # 0
    OBVIOUS
  <1> HIDE DEF ks, pc, next
  <1>7. /\ n \in EvRunning /\ n.pc = pc /\ n.turn = next /\ n.todo = e.todo \ {t}
        /\ n.plan = e.plan /\ n.found = e.found /\ n.session = e.session
    BY <1>1, <1>4 DEF EvRunning, EvStages
  <1> HIDE DEF n
  <1>8. /\ episode' \in [EvTurns -> [status : {"none", "captured", "valued"},
                                     reward : Rewards \cup {"none"}]]
        /\ \A x \in EvTurns : episode[x].status = "valued" => episode'[x] = episode[x]
    BY <1>2, <1>3 DEF EvStoreTyped
  <1>9. EvGrows
    BY <1>3, <1>8 DEF EvGrows, EvFinal
  <1>10. \A x \in EvTurns : \A r : Valued(episode, x, r) => Valued(episode', x, r)
    BY <1>8 DEF Valued
  <1>11. EvStoreTyped'
    BY <1>2, <1>3, <1>8 DEF EvStoreTyped
  <1>12. TracesHold'
    <2>1. \A l \in links : l.turn \in EvTurns
      BY <1>2 DEF EvStoreTyped, Links
    <2> QED
      BY <1>2, <1>3, <1>10, <2>1 DEF TracesHold
  <1>13. OutcomesHold'
    <2>1. \A o \in outcomes : o[1] \in EvTurns
      BY <1>2 DEF EvStoreTyped
    <2>2. \A o \in outcomes : o[1] \in exposed' /\ Valued(episode', o[1], o[2])
      BY <1>2, <1>3, <1>10, <2>1 DEF OutcomesHold
    <2> QED
      BY <1>2, <1>3, <2>2 DEF OutcomesHold, Told
  <1>14. EvolverOK(n, episode', trace', links')
    <2>1. \A l \in e.found : l.turn \in EvTurns
      BY <1>1 DEF EvRunning, Links
    <2>2. \A l \in n.found : l.positive => Valued(episode', l.turn, "pass")
      BY <1>1, <1>7, <1>10, <2>1 DEF EvolverOK
    <2>3. \A x \in EvTurns : SessionOfTurn[x] = e.session => x \in e.todo \/ trace[x].id # 0
      BY <1>1, <1>3 DEF EvolverOK
    <2> QED
      BY <1>1, <1>3, <1>4, <1>5, <1>6, <1>7, <2>2, <2>3 DEF EvolverOK
  <1> QED
    BY <1>3, <1>7, <1>9, <1>11, <1>12, <1>13, <1>14, EvMoves

\* A turn gets a new trace, without a value: an old link keeps what it said.
LEMMA ReplaceStep ==
    ASSUME EvInv, NEW w \in Evolvers, ReplaceTraces(w)
    PROVE  EvInv' /\ EvFinal
  <1> DEFINE e == evolver[w]
             t == e.turn
             n == [e EXCEPT !.pc = "capture", !.turn = "none"]
             fresh == [id |-> traceIds + 1, value |-> "none"]
  <1>1. e \in EvRunning /\ EvolverOK(e, episode, trace, links)
    BY DEF EvInv
  <1>2. EvStoreTyped /\ TracesHold /\ OutcomesHold
    BY EvTypes DEF EvInv
  <1>3. /\ e.pc = "trace" /\ EvTo(w, n) /\ trace' = [trace EXCEPT ![t] = fresh]
        /\ UNCHANGED <<episode, feedback, exposed, outcomes, stats, links, policy, evRuns>>
    BY DEF ReplaceTraces
  <1>4. traceIds < MaxTraceIds /\ traceIds' = traceIds + 1
    BY DEF ReplaceTraces
  <1>5. traceIds' \in 0..MaxTraceIds /\ traceIds + 1 # 0
    BY <1>2, <1>4, EvolutionAssumption DEF EvStoreTyped
  <1>6. t \in EvTurns
    BY <1>1, <1>3 DEF EvolverOK
  <1>7. /\ n \in EvRunning /\ n.pc = "capture" /\ n.todo = e.todo
        /\ n.plan = e.plan /\ n.found = e.found /\ n.session = e.session
    BY <1>1 DEF EvRunning, EvStages
  <1> HIDE DEF n
  <1>8. /\ trace' \in [EvTurns -> [id : 0..MaxTraceIds, value : Rewards \cup {"none"}]]
        /\ \A x \in EvTurns : trace'[x] = IF x = t THEN fresh ELSE trace[x]
    BY <1>2, <1>3, <1>4, <1>5, <1>6 DEF EvStoreTyped
  <1>9. EvGrows
    BY <1>3, <1>5, <1>8 DEF EvGrows, EvFinal
  <1>10. EvStoreTyped'
    BY <1>2, <1>3, <1>5, <1>8 DEF EvStoreTyped
  <1>11. TracesHold'
    BY <1>2, <1>3, <1>8 DEF TracesHold, Valued
  <1>12. OutcomesHold'
    BY <1>2, <1>3 DEF OutcomesHold, Told
  <1>13. EvolverOK(n, episode', trace', links')
    BY <1>1, <1>3, <1>5, <1>7, <1>8 DEF EvolverOK
  <1> QED
    BY <1>3, <1>7, <1>9, <1>10, <1>11, <1>12, <1>13, EvMoves

\* A policy is induced, linked or written: support only of what was linked.
LEMMA PolicyStep ==
    ASSUME EvInv, NEW w \in Evolvers, InducePolicy(w) \/ LinkTraces(w) \/ WritePolicy(w)
    PROVE  EvInv' /\ EvFinal
  <1> DEFINE e == evolver[w]
  <1>1. e \in EvRunning /\ EvolverOK(e, episode, trace, links)
    BY DEF EvInv
  <1>2. EvStoreTyped /\ TracesHold /\ OutcomesHold
    BY EvTypes DEF EvInv
  <1>3. UNCHANGED <<episode, trace, traceIds, feedback, exposed, outcomes, stats, evRuns>>
    BY DEF InducePolicy, LinkTraces, WritePolicy
  <1>4. OutcomesHold'
    BY <1>2, <1>3 DEF OutcomesHold, Told
  <1>5. CASE InducePolicy(w)
    <2> DEFINE n == [e EXCEPT !.pc = "link"]
    <2>1. n \in EvRunning /\ n.pc = "link" /\ n.plan = e.plan /\ n.found = e.found
      BY <1>1 DEF EvRunning, EvStages
    <2>2. EvTo(w, n) /\ policy' = [status |-> "candidate", support |-> {}] /\ links' = links
      BY <1>5 DEF InducePolicy
    <2> HIDE DEF n
    <2>3. EvolverOK(n, episode', trace', links')
      BY <1>1, <1>3, <2>1, <2>2 DEF EvolverOK
    <2>4. EvStoreTyped' /\ TracesHold' /\ EvGrows
      BY <1>2, <1>3, <2>2 DEF EvStoreTyped, TracesHold, EvGrows, EvFinal
    <2> QED
      BY <1>4, <2>1, <2>2, <2>3, <2>4, EvMoves
  <1>6. CASE LinkTraces(w)
    <2> DEFINE n == [e EXCEPT !.pc = "gain"]
    <2>1. n \in EvRunning /\ n.pc = "gain" /\ n.plan = e.plan /\ n.found = e.found
      BY <1>1 DEF EvRunning, EvStages
    <2>2. /\ EvTo(w, n) \/ EvTo(w, NoRunning)
          /\ links \subseteq links' /\ links' \subseteq links \cup e.found
          /\ policy' = policy
      BY <1>6 DEF LinkTraces
    <2> HIDE DEF n
    <2>3. links \subseteq links' /\ links' \subseteq links \cup e.found
      BY <2>2
    <2>4. EvolverOK(n, episode', trace', links')
      BY <1>1, <1>3, <2>1 DEF EvolverOK
    <2>5. e.found \subseteq Links
      BY <1>1 DEF EvRunning
    <2>6. EvStoreTyped'
      BY <1>2, <1>3, <2>2, <2>3, <2>5 DEF EvStoreTyped
    <2>7. TracesHold'
      <3>1. \A l \in links' : l.positive => Valued(episode, l.turn, "pass")
        BY <1>1, <1>2, <2>3 DEF TracesHold, EvolverOK
      <3> QED
        BY <1>2, <1>3, <2>2, <2>3, <3>1 DEF TracesHold
    <2>8. EvGrows
      BY <1>3, <2>3 DEF EvGrows, EvFinal
    <2> QED
      BY <1>4, <2>1, <2>2, <2>4, <2>6, <2>7, <2>8, EvMoves, EvRests
  <1>7. CASE WritePolicy(w)
    <2> DEFINE good == {l.turn : l \in {k \in e.found : k.positive}}
    <2>1. /\ e.pc = "write" /\ EvTo(w, NoRunning) /\ links' = links
      BY <1>7 DEF WritePolicy
    <2>2. PICK s \in Verdicts(e.found) : policy' = [status |-> s, support |-> good]
      BY <1>7 DEF WritePolicy
    <2>3. s \in {"none", "candidate", "active", "archived"}
      BY <2>2 DEF Verdicts
    <2>4. e.found \subseteq links /\ e.found \subseteq Links
      BY <1>1, <2>1 DEF EvolverOK, EvRunning
    <2>5. good \subseteq EvTurns
      BY <2>4 DEF Links
    <2>6. \A t \in good : \E l \in links : l.turn = t /\ l.positive
      BY <2>4
    <2> HIDE DEF good
    <2>7. policy'.support = good
      BY <2>2
    <2>8. EvStoreTyped'
      BY <1>2, <1>3, <2>1, <2>2, <2>3, <2>5 DEF EvStoreTyped
    <2>9. TracesHold'
      BY <1>2, <1>3, <2>1, <2>6, <2>7 DEF TracesHold
    <2>10. EvGrows
      BY <1>3, <2>1 DEF EvGrows, EvFinal
    <2> QED
      BY <1>4, <2>1, <2>8, <2>9, <2>10, EvMoves, EvRests
  <1> QED
    BY <1>5, <1>6, <1>7

\* The outcome of a turn that had none is counted once.
LEMMA OutcomeCounted ==
    ASSUME EvStoreTyped, OutcomesHold, NEW t \in EvTurns, NEW r \in Rewards, t \in exposed,
           ~ \E o \in outcomes : o[1] = t,
           outcomes' = outcomes \cup {<<t, r>>}, stats' = [stats EXCEPT ![r] = @ + 1],
           exposed' = exposed,
           \A x \in EvTurns : \A q : Valued(episode, x, q) => Valued(episode', x, q),
           Valued(episode', t, r)
    PROVE  /\ OutcomesHold' /\ outcomes' \subseteq EvTurns \X Rewards
           /\ stats' \in [exposures : Nat, pass : Nat, fail : Nat]
  <1>1. r \in {"pass", "fail"}
    BY DEF Rewards
  <1>2. stats \in [exposures : Nat, pass : Nat, fail : Nat] /\ outcomes \subseteq EvTurns \X Rewards
    BY DEF EvStoreTyped
  <1>3. /\ stats' \in [exposures : Nat, pass : Nat, fail : Nat]
        /\ stats'.exposures = stats.exposures
        /\ stats'.pass = IF r = "pass" THEN stats.pass + 1 ELSE stats.pass
        /\ stats'.fail = IF r = "fail" THEN stats.fail + 1 ELSE stats.fail
    BY <1>1, <1>2
  <1>4. <<t, r>> \in EvTurns \X Rewards /\ <<t, r>>[1] = t /\ <<t, r>>[2] = r
    OBVIOUS
  <1> DEFINE new == <<t, r>>
             Of(os, q) == {o \in os : o[2] = q}
  <1>5. new \in EvTurns \X Rewards /\ new[1] = t /\ new[2] = r
    BY <1>4
  <1>6. outcomes' = outcomes \cup {new} /\ new \notin outcomes
    BY <1>5
  <1> HIDE DEF new
  <1>7. outcomes' \subseteq EvTurns \X Rewards
    BY <1>2, <1>5, <1>6
  <1>8. IsFiniteSet(outcomes) /\ IsFiniteSet(exposed) /\ IsFiniteSet(Told)
    BY DEF OutcomesHold
  <1>9. IsFiniteSet(outcomes')
    BY <1>6, <1>8, FS_AddElement
  <1>10. Told' = Told \cup {t} /\ t \notin Told
    BY <1>5, <1>6 DEF Told
  <1>11. IsFiniteSet(Told') /\ Cardinality(Told') = Cardinality(Told) + 1
    BY <1>8, <1>10, FS_AddElement
  <1>12. stats'.pass + stats'.fail = Cardinality(Told')
    <2>1. stats.pass + stats.fail = Cardinality(Told) /\ stats.pass \in Nat /\ stats.fail \in Nat
      BY <1>2 DEF OutcomesHold
    <2> QED
      BY <1>1, <1>3, <1>11, <2>1
  <1>13. ASSUME NEW q \in Rewards
         PROVE  stats'[q] = Cardinality(Of(outcomes', q))
    <2>1. IsFiniteSet(Of(outcomes, q))
      <3>1. Of(outcomes, q) \in SUBSET outcomes
        OBVIOUS
      <3> QED
        BY <1>8, <3>1, FS_Subset
    <2>2. stats[q] = Cardinality(Of(outcomes, q))
      BY DEF OutcomesHold
    <2>3. CASE q = r
      <3>1. Of(outcomes', q) = Of(outcomes, q) \cup {new} /\ new \notin Of(outcomes, q)
        BY <1>5, <1>6, <2>3
      <3> HIDE DEF Of
      <3>2. Cardinality(Of(outcomes', q)) = Cardinality(Of(outcomes, q)) + 1
        BY <2>1, <3>1, FS_AddElement
      <3>3. stats'[q] = stats[q] + 1
        BY <1>1, <1>2, <2>3
      <3> QED
        BY <2>2, <3>2, <3>3
    <2>4. CASE q # r
      <3>1. Of(outcomes', q) = Of(outcomes, q)
        BY <1>5, <1>6, <2>4
      <3>2. stats'[q] = stats[q]
        BY <1>2, <2>4 DEF Rewards
      <3> QED
        BY <2>2, <3>1, <3>2
    <2> QED
      BY <2>3, <2>4
  <1>14. \A o \in outcomes' : o[1] \in exposed' /\ Valued(episode', o[1], o[2])
    <2>1. \A o \in outcomes : o[1] \in EvTurns
      BY <1>2
    <2> QED
      BY <1>5, <1>6, <2>1 DEF OutcomesHold
  <1>15. stats'.exposures = Cardinality(exposed')
    BY <1>3 DEF OutcomesHold
  <1> QED
    BY <1>3, <1>7, <1>8, <1>9, <1>11, <1>12, <1>13, <1>14, <1>15 DEF OutcomesHold

\* An episode is valued once, with its trace and its outcome.
LEMMA ValueStep ==
    ASSUME EvInv, NEW w \in Evolvers, NEW p \in Plans, ValueEpisode(w, p)
    PROVE  EvInv' /\ EvFinal
  <1> DEFINE e == evolver[w]
             t == p.turn
             n == [e EXCEPT !.plan = @ \ {p}, !.valued = @ \cup {t}]
  <1>1. e \in EvRunning /\ EvolverOK(e, episode, trace, links)
    BY DEF EvInv
  <1>2. EvStoreTyped /\ TracesHold /\ OutcomesHold
    BY EvTypes DEF EvInv
  <1>3. t \in EvTurns /\ p.reward \in Rewards
    BY DEF Plans
  <1>4. /\ n \in EvRunning /\ n.pc = e.pc /\ n.plan = e.plan \ {p} /\ n.found = e.found
    BY <1>1, <1>3 DEF EvRunning
  <1>5. e.pc = "value" /\ p \in e.plan
    BY DEF ValueEpisode
  <1>6. EvolverOK(n, episode, trace, links)
    BY <1>1, <1>4, <1>5 DEF EvolverOK
  <1>7. UNCHANGED <<traceIds, feedback, exposed, links, policy, evRuns>>
    BY DEF ValueEpisode
  <1>8. \/ (EvTo(w, n) \/ EvTo(w, NoRunning)) /\ UNCHANGED <<episode, trace, outcomes, stats>>
        \/ /\ episode[t].status = "captured" /\ trace[t].id = p.id
           /\ trace' = [trace EXCEPT ![t].value = p.reward]
           /\ outcomes' = outcomes \cup SelectedOutcome(p)
           /\ stats' = IF SelectedOutcome(p) = {} THEN stats ELSE [stats EXCEPT ![p.reward] = @ + 1]
           /\ episode' = [episode EXCEPT ![t] = [status |-> "valued", reward |-> p.reward]]
           /\ EvTo(w, n)
    BY DEF ValueEpisode
  <1> HIDE DEF n
  <1>9. CASE (EvTo(w, n) \/ EvTo(w, NoRunning)) /\ UNCHANGED <<episode, trace, outcomes, stats>>
    <2>1. UNCHANGED evStore
      BY <1>7, <1>9 DEF evStore
    <2>2. evRuns' \in 0..MaxEvRuns
      BY <1>2, <1>7 DEF EvStoreTyped
    <2> QED
      BY <1>4, <1>6, <1>9, <2>1, <2>2, EvReads, EvRests
  <1>10. CASE /\ episode[t].status = "captured" /\ trace[t].id = p.id
              /\ trace' = [trace EXCEPT ![t].value = p.reward]
              /\ outcomes' = outcomes \cup SelectedOutcome(p)
              /\ stats' = IF SelectedOutcome(p) = {} THEN stats ELSE [stats EXCEPT ![p.reward] = @ + 1]
              /\ episode' = [episode EXCEPT ![t] = [status |-> "valued", reward |-> p.reward]]
              /\ EvTo(w, n)
    <2>1. p.id # 0
      BY <1>1, <1>5 DEF EvolverOK
    <2>2. /\ episode' \in [EvTurns -> [status : {"none", "captured", "valued"},
                                       reward : Rewards \cup {"none"}]]
          /\ \A x \in EvTurns : episode[x].status = "valued" => episode'[x] = episode[x]
          /\ Valued(episode', t, p.reward)
      BY <1>2, <1>3, <1>10 DEF EvStoreTyped, Valued
    <2>3. /\ trace' \in [EvTurns -> [id : 0..MaxTraceIds, value : Rewards \cup {"none"}]]
          /\ \A x \in EvTurns : trace'[x].id = trace[x].id
          /\ \A x \in EvTurns : trace'[x].value = IF x = t THEN p.reward ELSE trace[x].value
      BY <1>2, <1>3, <1>10 DEF EvStoreTyped
    <2>4. EvGrows
      BY <1>7, <2>2, <2>3 DEF EvGrows, EvFinal
    <2>5. \A x \in EvTurns : \A q : Valued(episode, x, q) => Valued(episode', x, q)
      BY <2>2 DEF Valued
    <2>6. TracesHold'
      <3>1. \A x \in EvTurns : trace'[x].value # "none" =>
              trace'[x].id # 0 /\ Valued(episode', x, trace'[x].value)
        <4> SUFFICES ASSUME NEW x \in EvTurns, trace'[x].value # "none"
                     PROVE  trace'[x].id # 0 /\ Valued(episode', x, trace'[x].value)
          OBVIOUS
        <4>1. CASE x = t
          BY <1>10, <2>1, <2>2, <2>3, <4>1
        <4>2. CASE x # t
          <5>1. trace'[x].id = trace[x].id /\ trace'[x].value = trace[x].value
            BY <2>3, <4>2
          <5>2. trace[x].id # 0 /\ Valued(episode, x, trace[x].value)
            BY <1>2, <5>1 DEF TracesHold
          <5> QED
            BY <2>5, <5>1, <5>2
        <4> QED
          BY <4>1, <4>2
      <3>2. \A l \in links : l.turn \in EvTurns
        BY <1>2 DEF EvStoreTyped, Links
      <3> QED
        BY <1>2, <1>7, <2>5, <3>1, <3>2 DEF TracesHold
    <2>7. OutcomesHold' /\ outcomes' \subseteq EvTurns \X Rewards
            /\ stats' \in [exposures : Nat, pass : Nat, fail : Nat]
      <3>1. CASE t \in exposed
        <4>1. SelectedOutcome(p) = {<<t, p.reward>>}
          BY <3>1 DEF SelectedOutcome
        <4>2. SelectedOutcome(p) # {}
          BY <4>1
        <4>3. ~ \E o \in outcomes : o[1] = t
          BY <1>2, <1>10 DEF OutcomesHold, Valued
        <4> QED
          BY <1>2, <1>3, <1>7, <1>10, <2>2, <2>5, <3>1, <4>1, <4>2, <4>3, OutcomeCounted
      <3>2. CASE t \notin exposed
        <4>1. SelectedOutcome(p) = {}
          BY <3>2 DEF SelectedOutcome
        <4>2. outcomes' = outcomes /\ stats' = stats /\ exposed' = exposed
          BY <1>7, <1>10, <4>1
        <4>3. \A o \in outcomes : o[1] \in EvTurns
          BY <1>2 DEF EvStoreTyped
        <4>4. \A o \in outcomes : o[1] \in exposed /\ Valued(episode', o[1], o[2])
          BY <1>2, <2>5, <4>3 DEF OutcomesHold
        <4>5. OutcomesHold'
          BY <1>2, <4>2, <4>4 DEF OutcomesHold, Told
        <4> QED
          BY <1>2, <4>2, <4>5 DEF EvStoreTyped
      <3> QED
        BY <3>1, <3>2
    <2>8. EvStoreTyped'
      BY <1>2, <1>7, <2>2, <2>3, <2>7 DEF EvStoreTyped
    <2>9. EvolverOK(n, episode', trace', links')
      <3>1. \A l \in e.found : l.turn \in EvTurns
        BY <1>1 DEF EvRunning, Links
      <3> QED
        BY <1>4, <1>5, <1>6, <2>5, <3>1 DEF EvolverOK
    <2> QED
      BY <1>4, <1>10, <2>4, <2>6, <2>7, <2>8, <2>9, EvMoves
  <1> QED
    BY <1>8, <1>9, <1>10

\* Policy evolution keeps what it promises for any turns, sessions, rewards and
\* dreams under way at once: a turn's outcome is counted once whatever run values
\* it, a reward once given stays, and a policy claims the support of no turn that
\* was not linked to it by a trace of an episode that passed.
THEOREM EvolutionIsCorrect == EvSpec => EvolutionCorrect
  <1>1. EvInit => EvInv
    <2> SUFFICES ASSUME EvInit PROVE EvInv
      OBVIOUS
    <2>1. evolver \in [Evolvers -> EvRunning] /\ \A w \in Evolvers : evolver[w] = NoRunning
      BY EvRests DEF EvInit
    <2>2. EvTypeOK
      <3>1. EvStoreTyped
        BY EvolutionAssumption DEF EvInit, EvStoreTyped, NoPolicy
      <3> QED
        BY <2>1, <3>1, EvTypes
    <2>3. TracesHold
      BY DEF EvInit, TracesHold, NoPolicy
    <2>4. OutcomesHold
      <3>1. Told = {} /\ \A r : {o \in outcomes : o[2] = r} = {}
        BY DEF EvInit, Told
      <3> QED
        BY <3>1, FS_EmptySet DEF EvInit, OutcomesHold, Rewards
    <2> QED
      BY <2>1, <2>2, <2>3, <2>4, EvRests DEF EvInv
  <1>2. EvInv /\ [EvNext]_evVars => EvInv' /\ EvFinal
    <2> SUFFICES ASSUME EvInv, [EvNext]_evVars PROVE EvInv' /\ EvFinal
      OBVIOUS
    <2>1. CASE UNCHANGED evVars
      BY <2>1 DEF EvInv, EvTypeOK, TracesHold, OutcomesHold, Told, EvFinal, evVars, evStore
    <2>2. ASSUME NEW w \in Evolvers,
                 \/ \E s \in EvSessions : BeginRun(w, s)
                 \/ \E t \in EvTurns : CaptureEpisode(w, t) \/ LookAt(w, t)
                 \/ \E p \in Plans : ValueEpisode(w, p)
                 \/ ReplaceTraces(w) \/ EndCapture(w) \/ EndLook(w) \/ PoolTraces(w)
                 \/ InducePolicy(w) \/ LinkTraces(w) \/ ReadLinks(w) \/ WritePolicy(w)
                 \/ StopRun(w)
          PROVE  EvInv' /\ EvFinal
      BY <2>2, ReadingSteps, CaptureStep, ReplaceStep, PolicyStep, ValueStep
    <2> QED
      BY <2>1, <2>2, ExposeStep, FeedbackStep DEF EvNext
  <1>3. EvInv => EvTypeOK /\ OutcomesCountedOnce /\ SupportIsLinked
    <2> SUFFICES ASSUME EvInv PROVE OutcomesCountedOnce /\ SupportIsLinked
      BY DEF EvInv
    <2>1. EvStoreTyped /\ TracesHold /\ OutcomesHold
      BY EvTypes DEF EvInv
    <2>2. SupportIsLinked
      BY <2>1 DEF TracesHold, SupportIsLinked, Valued
    <2>3. \A o, p \in outcomes : o[1] = p[1] => o = p
      BY <2>1 DEF OutcomesHold, Valued, EvStoreTyped
    <2>4. stats.pass + stats.fail <= stats.exposures
      <3>1. Told \in SUBSET exposed
        BY <2>1 DEF OutcomesHold, Told
      <3>2. Cardinality(Told) <= Cardinality(exposed)
        BY <2>1, <3>1, FS_Subset DEF OutcomesHold
      <3> QED
        BY <2>1, <3>2 DEF OutcomesHold
    <2> QED
      BY <2>1, <2>2, <2>3, <2>4 DEF OutcomesCountedOnce, OutcomesHold, Valued
  <1>4. EvFinal => [\A t \in EvTurns : episode[t].status = "valued" => episode'[t] = episode[t]]_evVars
    BY DEF EvFinal
  <1> QED
    BY <1>1, <1>2, <1>3, <1>4, PTL DEF EvSpec, EvolutionCorrect, RewardIsFinal

=============================================================================
