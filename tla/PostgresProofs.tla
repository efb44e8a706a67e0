---------------------------- MODULE PostgresProofs ----------------------------
(***************************************************************************)
(* Proofs about the statements of the Postgres store, for any number of    *)
(* processes, turns and approvals: what the approval tables say stays      *)
(* consistent although decisions, sweeps and completions of several        *)
(* processes wait for one lock with old snapshots, and a turn runs once    *)
(* and ends once although claims start from old snapshots too.             *)
(***************************************************************************)
EXTENDS PostgresStore, TurnStoreProofs, FiniteSetTheorems

-----------------------------------------------------------------------------
(* The approval tables.                                                    *)

ReqStatus == {"none", "pending"} \cup Verdicts

EffectStatus == {"none", "blocked", "pending", "claimed", "applied", "failed"}

ReqRow ==
  [status : ReqStatus, resumable : BOOLEAN, bundled : BOOLEAN,
   stale : BOOLEAN, due : BOOLEAN, shown : BOOLEAN]

EffectRow ==
  [status : EffectStatus, attempts : 0..MaxEpochs, epoch : 0..MaxEpochs,
   owner : Procs \cup {NoProc}, stale : BOOLEAN, plain : BOOLEAN]

EventCount == [approval : 0..1, resolved : Nat, proposal : Nat]

RunState ==
  [op : {"none", "resolve", "done", "sweep"}, a : SUBSET Requests,
   verdict : Verdicts \cup {"none"}, free : BOOLEAN, epoch : 0..MaxEpochs,
   list : SUBSET Requests]

PgaTyped ==
  /\ rq \in [Requests -> ReqRow]
  /\ ef \in [Requests -> EffectRow]
  /\ evs \in [Requests -> EventCount]
  /\ run \in [Procs -> RunState]

\* The request r and the effect e of an approval move together, and so do its
\* events n: no effect before its request, a blocked one while it is open, a
\* released one once it is decided.
Paired(r, e, n) ==
  /\ r.status = "none" => e.status = "none" /\ n = NoEvents /\ ~r.bundled
  /\ r.status = "pending" => e.status = "blocked"
  /\ r.status \in Verdicts => e.status \notin {"none", "blocked"}
  /\ e.attempts = e.epoch
  /\ e.owner # NoProc <=> e.status = "claimed"

\* What was said of approval a, in its events n and in the audit au, is what
\* its rows say.
Told(a, r, e, n, au) ==
  /\ \A v \in Verdicts : <<a, v>> \in au <=> r.status = v /\ ~e.plain
  /\ n.resolved = IF r.status \in Verdicts THEN 1 ELSE 0
  /\ <<a, "applied">> \in au <=> e.status = "applied" /\ ~e.plain
  /\ n.proposal = (IF e.status = "applied" /\ ~e.plain THEN 1 ELSE 0)
                   + (IF r.bundled THEN 1 ELSE 0)

\* A process p in a statement k about a row names that row; the row of an
\* effect it completes is locked, so the claim it found is still there.
Minded(p, k, rows) ==
  /\ k.op \in {"resolve", "sweep"} => k.verdict \in Verdicts
  /\ k.op = "resolve" => \E a \in Requests : k.a = {a}
  /\ k.op = "done" =>
       \E a \in Requests : /\ k.a = {a} /\ rows[a].status = "claimed"
                           /\ rows[a].owner = p /\ ~rows[a].plain

RowsOK ==
  \A a \in Requests : Paired(rq[a], ef[a], evs[a]) /\ Told(a, rq[a], ef[a], evs[a], audit)

PgaInv == PgaTyped /\ RowsOK /\ \A p \in Procs : Minded(p, run[p], ef)

\* The invariant says what the run checks.
LEMMA PgaInvIsSafe == PgaInv => PgApprovalsSafe
<1> SUFFICES ASSUME PgaInv PROVE PgApprovalsSafe
  OBVIOUS
<1>1. ASSUME NEW a \in Requests
      PROVE  /\ rq[a] \in ReqRow /\ ef[a] \in EffectRow
             /\ Paired(rq[a], ef[a], evs[a]) /\ Told(a, rq[a], ef[a], evs[a], audit)
  BY DEF PgaInv, PgaTyped, RowsOK
<1>2. PgaTypeOK
  <2>1. ASSUME NEW a \in Requests
        PROVE  /\ rq[a].status \in {"none", "pending"} \cup Verdicts
               /\ ef[a].status \in EffectStatus
               /\ ef[a].attempts \in 0..MaxEpochs /\ ef[a].epoch \in 0..MaxEpochs
               /\ (ef[a].owner # NoProc) = (ef[a].status = "claimed")
    BY <1>1 DEF ReqRow, ReqStatus, EffectRow, Paired
  <2>2. \A p \in Procs : run[p].op \in {"none", "resolve", "done", "sweep"}
    BY DEF PgaInv, PgaTyped, RunState
  <2> QED BY <2>1, <2>2 DEF PgaTypeOK, PgaInv, PgaTyped, EventCount, EffectStatus
<1>3. OneVerdict
  <2> SUFFICES ASSUME NEW a \in Requests
               PROVE  LET verdict == {rq[a].status} \cap Verdicts
                          said == {v \in Verdicts : <<a, v>> \in audit}
                      IN /\ said = IF ef[a].plain THEN {} ELSE verdict
                         /\ evs[a].resolved = Cardinality(verdict)
    BY DEF OneVerdict
  <2> DEFINE verdict == {rq[a].status} \cap Verdicts
             said == {v \in Verdicts : <<a, v>> \in audit}
  <2>0. verdict = IF rq[a].status \in Verdicts THEN {rq[a].status} ELSE {}
    OBVIOUS
  <2>1. said = IF ef[a].plain THEN {} ELSE verdict
    BY <1>1 DEF Told
  <2>2. Cardinality(verdict) = IF rq[a].status \in Verdicts THEN 1 ELSE 0
    BY <2>0, FS_Singleton, FS_EmptySet
  <2> QED BY <1>1, <2>1, <2>2 DEF Told
<1>4. AppliedOnce
  <2> SUFFICES ASSUME NEW a \in Requests
               PROVE  /\ evs[a].proposal = (IF ef[a].status = "applied" /\ ~ef[a].plain THEN 1 ELSE 0)
                                            + (IF rq[a].bundled THEN 1 ELSE 0)
                      /\ <<a, "applied">> \in audit
                           <=> (IF ef[a].status = "applied" /\ ~ef[a].plain THEN 1 ELSE 0) = 1
    BY DEF AppliedOnce
  <2> QED BY <1>1 DEF Told
<1> QED BY <1>2, <1>3, <1>4 DEF PgApprovalsSafe

\* A process between statements.
LEMMA CalmTyped == Calm \in RunState /\ \A p \in Procs : Minded(p, Calm, ef')
BY PgApprovalAssumption DEF Calm, RunState, Minded

\* One approval changes, and what is said of it.
LEMMA RowChanges ==
  ASSUME PgaInv, NEW a \in Requests, NEW r \in ReqRow, NEW e \in EffectRow,
         NEW n \in EventCount,
         rq' = [rq EXCEPT ![a] = r], ef' = [ef EXCEPT ![a] = e],
         evs' = [evs EXCEPT ![a] = n],
         \/ audit' = audit \/ \E said : audit' = audit \cup {<<a, said>>}
         \/ \E said, epoch : audit' = audit \cup {<<a, said, epoch>>},
         Paired(r, e, n), Told(a, r, e, n, audit')
  PROVE  RowsOK' /\ rq' \in [Requests -> ReqRow] /\ ef' \in [Requests -> EffectRow]
         /\ evs' \in [Requests -> EventCount]
<1>1. /\ rq' \in [Requests -> ReqRow] /\ ef' \in [Requests -> EffectRow]
      /\ evs' \in [Requests -> EventCount]
  BY DEF PgaInv, PgaTyped
<1>2. rq'[a] = r /\ ef'[a] = e /\ evs'[a] = n
  BY DEF PgaInv, PgaTyped
<1>3. ASSUME NEW b \in Requests, b # a
      PROVE  Paired(rq'[b], ef'[b], evs'[b]) /\ Told(b, rq'[b], ef'[b], evs'[b], audit')
  <2>1. rq'[b] = rq[b] /\ ef'[b] = ef[b] /\ evs'[b] = evs[b]
    BY <1>3 DEF PgaInv, PgaTyped
  <2>2. \A v : <<b, v>> \in audit' <=> <<b, v>> \in audit
    BY <1>3
  <2> QED BY <2>1, <2>2 DEF PgaInv, RowsOK, Told
<1> QED BY <1>1, <1>2, <1>3 DEF RowsOK

\* Other processes keep the claims of the rows they have locked.
LEMMA OthersMinded ==
  ASSUME PgaInv, NEW a \in Requests, NEW e \in EffectRow, ef' = [ef EXCEPT ![a] = e],
         NEW q \in Procs,
         \/ ef[a].status # "claimed" \/ ef[a].owner # q
         \/ run[q].op # "done" \/ a \notin run[q].a
         \/ e.status = ef[a].status /\ e.owner = ef[a].owner /\ e.plain = ef[a].plain
  PROVE  Minded(q, run[q], ef')
<1>1. Minded(q, run[q], ef)
  BY DEF PgaInv
<1>2. ef'[a] = e /\ \A b \in Requests \ {a} : ef'[b] = ef[b]
  BY DEF PgaInv, PgaTyped
<1>3. ASSUME run[q].op = "done"
      PROVE  \E b \in Requests : /\ run[q].a = {b} /\ ef'[b].status = "claimed"
                                 /\ ef'[b].owner = q /\ ~ef'[b].plain
  <2> PICK b \in Requests : /\ run[q].a = {b} /\ ef[b].status = "claimed"
                            /\ ef[b].owner = q /\ ~ef[b].plain
    BY <1>1, <1>3 DEF Minded
  <2> QED BY <1>2, <1>3
<1> QED BY <1>1, <1>3 DEF Minded

\* That the number of a snapshot is taken changes nothing else of a statement.
LEMMA TakenStill ==
  ASSUME NEW k \in RunState, NEW q \in Procs, NEW m, Minded(q, k, ef'),
         m = [k EXCEPT !.free = FALSE]
  PROVE  m \in RunState /\ Minded(q, m, ef')
<1>1. m \in RunState /\ m.op = k.op /\ m.a = k.a /\ m.verdict = k.verdict
  BY DEF RunState
<1>2. Minded(q, m, ef')
  BY <1>1 DEF Minded
<1> QED BY <1>1, <1>2

\* Process p goes on, the others stay where they are.
LEMMA RunChanges ==
  ASSUME PgaInv, NEW p \in Procs, NEW k \in RunState, Minded(p, k, ef'),
         EnterStep(p, k) \/ Write(p, k),
         \A q \in Procs \ {p} : Minded(q, run[q], ef')
  PROVE  run' \in [Procs -> RunState] /\ \A q \in Procs : Minded(q, run'[q], ef')
<1> DEFINE go == [run EXCEPT ![p] = k]
<1>1. go \in [Procs -> RunState] /\ \A q \in Procs : Minded(q, go[q], ef')
  BY DEF PgaInv, PgaTyped
<1>2. run' = go \/ run' = NumbersTaken(go)
  BY DEF EnterStep, Write
<1> HIDE DEF go
<1>3. CASE run' = NumbersTaken(go)
  <2>1. \A q \in Procs : run'[q] = [go[q] EXCEPT !.free = FALSE]
    BY <1>3 DEF NumbersTaken
  <2>2. ASSUME NEW q \in Procs PROVE run'[q] \in RunState /\ Minded(q, run'[q], ef')
    <3> HIDE DEF Minded, RunState
    <3> QED BY <1>1, <2>1, TakenStill
  <2> QED BY <1>3, <2>2 DEF NumbersTaken
<1> QED BY <1>1, <1>2, <1>3

\* No process goes on.
LEMMA RunStays ==
  ASSUME PgaInv, run' = run \/ run' = NumbersTaken(run),
         \A q \in Procs : Minded(q, run[q], ef')
  PROVE  run' \in [Procs -> RunState] /\ \A q \in Procs : Minded(q, run'[q], ef')
<1>1. run \in [Procs -> RunState]
  BY DEF PgaInv, PgaTyped
<1>2. CASE run' = NumbersTaken(run)
  <2>1. \A q \in Procs : run'[q] = [run[q] EXCEPT !.free = FALSE]
    BY <1>2 DEF NumbersTaken
  <2>2. ASSUME NEW q \in Procs PROVE run'[q] \in RunState /\ Minded(q, run'[q], ef')
    <3> HIDE DEF Minded, RunState
    <3> QED BY <1>1, <2>1, TakenStill
  <2> QED BY <1>2, <2>2 DEF NumbersTaken
<1> QED BY <1>1, <1>2

\* The rows of an approval, as the invariant has them.
LEMMA RowOf ==
  ASSUME PgaInv, NEW a \in Requests
  PROVE  /\ rq[a] \in ReqRow /\ ef[a] \in EffectRow /\ evs[a] \in EventCount
         /\ Paired(rq[a], ef[a], evs[a]) /\ Told(a, rq[a], ef[a], evs[a], audit)
         /\ rq = [rq EXCEPT ![a] = rq[a]] /\ ef = [ef EXCEPT ![a] = ef[a]]
         /\ evs = [evs EXCEPT ![a] = evs[a]]
BY DEF PgaInv, PgaTyped, RowsOK

\* The two ways a request is created: alone, or with its proposal and its event.
LEMMA CreateStep ==
  ASSUME PgaInv, NEW a \in Requests,
         PgBundle(a) \/ \E resumable, plain \in BOOLEAN : PgCreate(a, resumable, plain)
  PROVE  PgaInv'
<1>1. /\ rq[a] \in ReqRow /\ ef[a] \in EffectRow /\ rq[a].status = "none"
      /\ Paired(rq[a], ef[a], evs[a]) /\ Told(a, rq[a], ef[a], evs[a], audit)
      /\ evs = [evs EXCEPT ![a] = evs[a]]
  BY RowOf DEF PgBundle, PgCreate
<1>2. ef[a].status = "none" /\ evs[a] = NoEvents
  BY <1>1 DEF Paired
<1>3. PICK e \in EffectRow :
        /\ ef' = [ef EXCEPT ![a] = e] /\ e.status = "blocked" /\ e.owner = ef[a].owner
        /\ e.attempts = ef[a].attempts /\ e.epoch = ef[a].epoch
  <2>1. CASE PgBundle(a)
    <3> DEFINE e == [ef[a] EXCEPT !.status = "blocked"]
    <3>1. e \in EffectRow /\ e.status = "blocked" /\ e.owner = ef[a].owner
          /\ e.attempts = ef[a].attempts /\ e.epoch = ef[a].epoch
      BY <1>1 DEF EffectRow, EffectStatus
    <3>2. ef' = [ef EXCEPT ![a] = e]
      BY <2>1 DEF PgBundle
    <3> HIDE DEF e
    <3> QED BY <3>1, <3>2
  <2>2. ASSUME NEW resumable \in BOOLEAN, NEW plain \in BOOLEAN, PgCreate(a, resumable, plain)
        PROVE  \E e \in EffectRow :
                 /\ ef' = [ef EXCEPT ![a] = e] /\ e.status = "blocked" /\ e.owner = ef[a].owner
                 /\ e.attempts = ef[a].attempts /\ e.epoch = ef[a].epoch
    <3> DEFINE b == [ef[a] EXCEPT !.status = "blocked"]
               e == [b EXCEPT !.plain = plain]
    <3>1. b \in EffectRow /\ b.status = "blocked" /\ b.owner = ef[a].owner
          /\ b.attempts = ef[a].attempts /\ b.epoch = ef[a].epoch
      BY <1>1 DEF EffectRow, EffectStatus
    <3>2. ef' = [ef EXCEPT ![a] = e]
      BY <2>2 DEF PgCreate, PgaInv, PgaTyped
    <3> HIDE DEF b
    <3>3. e \in EffectRow /\ e.status = b.status /\ e.owner = b.owner
          /\ e.attempts = b.attempts /\ e.epoch = b.epoch
      BY <3>1 DEF EffectRow
    <3> HIDE DEF e
    <3> QED BY <3>1, <3>2, <3>3
  <2> QED BY <2>1, <2>2
<1>4. audit' = audit \/ \E said : audit' = audit \cup {<<a, said>>} /\ said = "attempt"
  BY DEF PgBundle, PgCreate, Audited
<1>5. \A v : v # "attempt" => (<<a, v>> \in audit' <=> <<a, v>> \in audit)
  BY <1>4
<1>6. /\ ~(<<a, "applied">> \in audit)
      /\ \A v \in Verdicts : ~(<<a, v>> \in audit)
  BY <1>1, <1>2 DEF Told, Verdicts
<1>7. \A q \in Procs : Minded(q, run[q], ef')
  BY <1>2, <1>3, OthersMinded
<1>8. run' = run \/ run' = NumbersTaken(run)
  BY DEF PgBundle, PgCreate
<1>9. run' \in [Procs -> RunState] /\ \A q \in Procs : Minded(q, run'[q], ef')
  BY <1>7, <1>8, RunStays
<1>10. ASSUME NEW r \in ReqRow, NEW n \in EventCount, r.status = "pending",
              rq' = [rq EXCEPT ![a] = r], evs' = [evs EXCEPT ![a] = n],
              n.resolved = 0, n.proposal = (IF r.bundled THEN 1 ELSE 0)
       PROVE  PgaInv'
  <2>1. Paired(r, e, n)
    BY <1>1, <1>2, <1>3, <1>10 DEF Paired, Verdicts
  <2>2. Told(a, r, e, n, audit')
    BY <1>3, <1>5, <1>6, <1>10 DEF Told, Verdicts
  <2> HIDE DEF Paired, Told, Minded, ReqRow, EffectRow, EventCount, RunState
  <2> QED BY <1>3, <1>4, <1>9, <1>10, <2>1, <2>2, RowChanges DEF PgaInv, PgaTyped
<1>11. ASSUME NEW resumable \in BOOLEAN, NEW plain \in BOOLEAN, PgCreate(a, resumable, plain)
       PROVE  PgaInv'
  <2> DEFINE r == [NoRequest EXCEPT !.status = "pending", !.resumable = resumable]
  <2>1. r \in ReqRow /\ r.status = "pending" /\ r.bundled = FALSE
    BY DEF NoRequest, ReqRow, ReqStatus
  <2>2. rq' = [rq EXCEPT ![a] = r] /\ evs' = [evs EXCEPT ![a] = NoEvents]
    BY <1>1, <1>2, <1>11 DEF PgCreate
  <2>3. NoEvents \in EventCount /\ NoEvents.resolved = 0 /\ NoEvents.proposal = 0
    BY DEF NoEvents, EventCount
  <2> HIDE DEF r, NoEvents
  <2> QED BY <1>10, <2>1, <2>2, <2>3
<1>12. ASSUME PgBundle(a) PROVE PgaInv'
  <2> DEFINE r == [NoRequest EXCEPT !.status = "pending", !.resumable = TRUE,
                                    !.bundled = TRUE, !.shown = TRUE]
             n == [approval |-> 1, resolved |-> 0, proposal |-> 1]
  <2>1. r \in ReqRow /\ r.status = "pending" /\ r.bundled = TRUE
    BY DEF NoRequest, ReqRow, ReqStatus
  <2>2. rq' = [rq EXCEPT ![a] = r]
    BY <1>12 DEF PgBundle
  <2>3. evs' = [evs EXCEPT ![a] = n]
    <3>1. evs' = [evs EXCEPT ![a] = [[NoEvents EXCEPT !.proposal = 1] EXCEPT !.approval = 1]]
      BY <1>2, <1>12 DEF PgBundle, PgaInv, PgaTyped
    <3>2. [NoEvents EXCEPT !.proposal = 1] = [approval |-> 0, resolved |-> 0, proposal |-> 1]
      BY DEF NoEvents
    <3>3. [[approval |-> 0, resolved |-> 0, proposal |-> 1] EXCEPT !.approval = 1] = n
      OBVIOUS
    <3> QED BY <3>1, <3>2, <3>3
  <2>4. n \in EventCount /\ n.resolved = 0 /\ n.proposal = 1
    <3>1. 1 \in 0..1
      OBVIOUS
    <3> QED BY <3>1 DEF EventCount
  <2> HIDE DEF r, n
  <2> QED BY <1>10, <2>1, <2>2, <2>3, <2>4
<1> QED BY <1>11, <1>12

\* Steps that change marks of a row nothing else depends on.
LEMMA MarkStep ==
  ASSUME PgaInv, NEW a \in Requests, NEW r \in ReqRow, NEW e \in EffectRow,
         NEW n \in EventCount,
         rq' = [rq EXCEPT ![a] = r], ef' = [ef EXCEPT ![a] = e],
         evs' = [evs EXCEPT ![a] = n], audit' = audit,
         run' = run \/ run' = NumbersTaken(run),
         r.status = rq[a].status, r.bundled = rq[a].bundled,
         e.status = ef[a].status, e.owner = ef[a].owner, e.plain = ef[a].plain,
         e.attempts = ef[a].attempts, e.epoch = ef[a].epoch,
         n.resolved = evs[a].resolved, n.proposal = evs[a].proposal,
         r.status = "none" => n = evs[a]
  PROVE  PgaInv'
<1>1. Paired(r, e, n) /\ Told(a, r, e, n, audit')
  BY RowOf DEF Paired, Told
<1>2. \A q \in Procs : Minded(q, run[q], ef')
  BY OthersMinded
<1>3. run' \in [Procs -> RunState] /\ \A q \in Procs : Minded(q, run'[q], ef')
  BY <1>2, RunStays
<1> HIDE DEF Paired, Told, Minded, ReqRow, EffectRow, EventCount, RunState
<1> QED BY <1>1, <1>3, RowChanges DEF PgaInv, PgaTyped

\* Announcements, links, heartbeats and clocks are such steps.
LEMMA MarkSteps ==
  ASSUME PgaInv, NEW a \in Requests,
         \/ PgAnnounce(a) \/ PgLink(a) \/ PgHeartbeat(a) \/ PgElapse(a)
         \/ \E p \in Procs, n \in 1..MaxEpochs : PgHeartbeatEffect(p, a, n)
  PROVE  PgaInv'
<1> USE DEF PgaInv, PgaTyped
<1>1. /\ rq[a] \in ReqRow /\ ef[a] \in EffectRow /\ evs[a] \in EventCount
      /\ rq = [rq EXCEPT ![a] = rq[a]] /\ ef = [ef EXCEPT ![a] = ef[a]]
      /\ evs = [evs EXCEPT ![a] = evs[a]]
  BY RowOf
<1>2. CASE PgAnnounce(a)
  <2> DEFINE n == [evs[a] EXCEPT !.approval = 1]
  <2>1. n \in EventCount /\ n.resolved = evs[a].resolved /\ n.proposal = evs[a].proposal
    BY <1>1 DEF EventCount
  <2>2. evs' = [evs EXCEPT ![a] = n] /\ rq' = rq /\ ef' = ef /\ audit' = audit
        /\ run' = NumbersTaken(run) /\ rq[a].status # "none"
    BY <1>2 DEF PgAnnounce
  <2> HIDE DEF n, PgaInv
  <2> QED BY <1>1, <2>1, <2>2, MarkStep
<1>3. ASSUME NEW r, r \in ReqRow, r.status = rq[a].status, r.bundled = rq[a].bundled,
             rq' = [rq EXCEPT ![a] = r], UNCHANGED <<ef, audit, evs, run>>
      PROVE  PgaInv'
  <2> HIDE DEF PgaInv
  <2> QED BY <1>1, <1>3, MarkStep
<1>4. ASSUME NEW b \in BOOLEAN, ef' = [ef EXCEPT ![a].stale = b], UNCHANGED <<rq, audit, evs, run>>
      PROVE  PgaInv'
  <2> DEFINE e == [ef[a] EXCEPT !.stale = b]
  <2>1. /\ e \in EffectRow /\ e.status = ef[a].status /\ e.owner = ef[a].owner
        /\ e.attempts = ef[a].attempts /\ e.epoch = ef[a].epoch /\ e.plain = ef[a].plain
    BY <1>1 DEF EffectRow
  <2>2. ef' = [ef EXCEPT ![a] = e]
    BY <1>4
  <2> HIDE DEF e, PgaInv
  <2>3. /\ rq' = [rq EXCEPT ![a] = rq[a]] /\ evs' = [evs EXCEPT ![a] = evs[a]]
        /\ audit' = audit /\ run' = run
    BY <1>1, <1>4
  <2>4. rq[a] \in ReqRow /\ evs[a] \in EventCount
    BY <1>1
  <2> QED BY <2>1, <2>2, <2>3, <2>4, MarkStep
<1>5. CASE PgLink(a)
  <2> DEFINE r == [rq[a] EXCEPT !.shown = TRUE]
  <2>1. r \in ReqRow /\ r.status = rq[a].status /\ r.bundled = rq[a].bundled
    BY <1>1 DEF ReqRow
  <2>2. rq' = [rq EXCEPT ![a] = r] /\ UNCHANGED <<ef, audit, evs, run>>
    BY <1>5 DEF PgLink
  <2> HIDE DEF r
  <2> QED BY <1>3, <2>1, <2>2
<1>6. ASSUME NEW b \in BOOLEAN, rq' = [rq EXCEPT ![a].stale = b], UNCHANGED <<ef, audit, evs, run>>
      PROVE  PgaInv'
  <2> DEFINE r == [rq[a] EXCEPT !.stale = b]
  <2>1. r \in ReqRow /\ r.status = rq[a].status /\ r.bundled = rq[a].bundled
    BY <1>1 DEF ReqRow
  <2>2. rq' = [rq EXCEPT ![a] = r]
    BY <1>6
  <2> HIDE DEF r
  <2> QED BY <1>3, <1>6, <2>1, <2>2
<1>7. ASSUME rq' = [rq EXCEPT ![a].due = TRUE], UNCHANGED <<ef, audit, evs, run>>
      PROVE  PgaInv'
  <2> DEFINE r == [rq[a] EXCEPT !.due = TRUE]
  <2>1. r \in ReqRow /\ r.status = rq[a].status /\ r.bundled = rq[a].bundled
    BY <1>1 DEF ReqRow
  <2>2. rq' = [rq EXCEPT ![a] = r]
    BY <1>7
  <2> HIDE DEF r
  <2> QED BY <1>3, <1>7, <2>1, <2>2
<1> HIDE DEF PgaInv
<1>8. CASE PgHeartbeat(a)
  BY <1>6, <1>8 DEF PgHeartbeat
<1>9. CASE PgElapse(a)
  <2>1. CASE rq' = [rq EXCEPT ![a].stale = TRUE] /\ UNCHANGED ef
    BY <1>6, <1>9, <2>1 DEF PgElapse
  <2>2. CASE rq' = [rq EXCEPT ![a].due = TRUE] /\ UNCHANGED ef
    BY <1>7, <1>9, <2>2 DEF PgElapse
  <2>3. CASE ef' = [ef EXCEPT ![a].stale = TRUE] /\ UNCHANGED rq
    BY <1>4, <1>9, <2>3 DEF PgElapse
  <2> QED BY <1>9, <2>1, <2>2, <2>3 DEF PgElapse
<1>10. ASSUME NEW p \in Procs, NEW n \in 1..MaxEpochs, PgHeartbeatEffect(p, a, n)
       PROVE  PgaInv'
  BY <1>4, <1>10 DEF PgHeartbeatEffect
<1> QED BY <1>2, <1>5, <1>8, <1>9, <1>10

\* Steps that only take a process from one statement to another.
LEMMA RunOnlyStep ==
  ASSUME PgaInv, UNCHANGED <<rq, ef, audit, evs>>,
         run' \in [Procs -> RunState], \A q \in Procs : Minded(q, run'[q], ef')
  PROVE  PgaInv'
<1>1. RowsOK'
  BY DEF PgaInv, RowsOK
<1> QED BY <1>1 DEF PgaInv, PgaTyped

\* A process moves to statement k and touches no table.
LEMMA GoStep ==
  ASSUME PgaInv, NEW p \in Procs, NEW k \in RunState, Minded(p, k, ef),
         EnterStep(p, k), UNCHANGED <<rq, ef, audit, evs>>
  PROVE  PgaInv'
<1>1. ef' = ef
  OBVIOUS
<1>2. \A q \in Procs : Minded(q, run[q], ef')
  BY <1>1 DEF PgaInv
<1>3. Minded(p, k, ef')
  BY <1>1
<1> HIDE DEF Minded, RunState
<1> QED BY <1>2, <1>3, RunChanges, RunOnlyStep

\* After a row: idle, or on to the rest of the sweep.
LEMMA OnwardMeans ==
  ASSUME PgaInv, NEW p \in Procs, run[p].op = "resolve", NEW failed \in BOOLEAN
  PROVE  Onward(p, failed) \in RunState /\ Minded(p, Onward(p, failed), ef')
<1>1. run[p] \in RunState /\ run[p].verdict \in Verdicts
  BY DEF PgaInv, PgaTyped, Minded
<1> DEFINE k == [run[p] EXCEPT !.op = "sweep", !.a = {}, !.free = FALSE]
<1>2. k \in RunState /\ k.op = "sweep" /\ k.verdict = run[p].verdict
  BY <1>1 DEF RunState
<1> HIDE DEF k
<1>3. Minded(p, k, ef')
  BY <1>1, <1>2 DEF Minded
<1> QED BY <1>2, <1>3, CalmTyped DEF Onward, k

\* Beginning a decision or a sweep, taking the next row of one, and dying.
LEMMA DecideSteps ==
  ASSUME PgaInv, NEW p \in Procs,
         \/ \E a \in Requests, v \in {"approved", "denied"} : BeginResolve(p, a, v)
         \/ \E v \in {"timed_out", "cancelled"} : Sweep(p, v)
         \/ SweepNext(p) \/ PgCrash(p)
  PROVE  PgaInv'
<1>1. ASSUME NEW a \in Requests, NEW v \in {"approved", "denied"}, BeginResolve(p, a, v)
      PROVE  PgaInv'
  <2> DEFINE k == [Calm EXCEPT !.op = "resolve", !.a = {a}, !.verdict = v, !.free = TRUE]
  <2>1. k \in RunState /\ k.op = "resolve" /\ k.a = {a} /\ k.verdict = v
    <3>1. v \in Verdicts \cup {"none"} /\ {a} \in SUBSET Requests
      BY DEF Verdicts
    <3> QED BY <3>1, CalmTyped DEF RunState
  <2>2. EnterStep(p, k) /\ UNCHANGED <<rq, ef, audit, evs>>
    BY <1>1 DEF BeginResolve
  <2> HIDE DEF k
  <2>3. Minded(p, k, ef)
    BY <2>1 DEF Minded, Verdicts
  <2> QED BY <2>1, <2>2, <2>3, GoStep
<1>2. ASSUME NEW v \in {"timed_out", "cancelled"}, Sweep(p, v) PROVE PgaInv'
  <2> DEFINE k == [Calm EXCEPT !.op = "sweep", !.verdict = v, !.list = Candidates(v)]
  <2>1. Candidates(v) \in SUBSET Requests
    BY DEF Candidates
  <2>2. k \in RunState /\ k.op = "sweep" /\ k.verdict = v
    <3>1. v \in Verdicts \cup {"none"}
      BY DEF Verdicts
    <3> QED BY <2>1, <3>1, CalmTyped DEF RunState
  <2>3. EnterStep(p, k) /\ UNCHANGED <<rq, ef, audit, evs>>
    BY <1>2 DEF Sweep
  <2> HIDE DEF k
  <2>4. Minded(p, k, ef)
    BY <2>2 DEF Minded, Verdicts
  <2> QED BY <2>2, <2>3, <2>4, GoStep
<1>3. CASE SweepNext(p)
  <2>1. run[p] \in RunState /\ run[p].op = "sweep" /\ run[p].verdict \in Verdicts
    BY <1>3 DEF SweepNext, PgaInv, PgaTyped, Minded
  <2>2. PICK a \in run[p].list :
          EnterStep(p, [run[p] EXCEPT !.op = "resolve", !.a = {a}, !.free = TRUE,
                                      !.list = @ \ {a}])
    BY <1>3 DEF SweepNext
  <2> DEFINE k == [run[p] EXCEPT !.op = "resolve", !.a = {a}, !.free = TRUE,
                                 !.list = run[p].list \ {a}]
  <2>3. a \in Requests /\ run[p].list \ {a} \in SUBSET Requests /\ {a} \in SUBSET Requests
    BY <2>1 DEF RunState
  <2>4. k \in RunState /\ k.op = "resolve" /\ k.a = {a} /\ k.verdict = run[p].verdict
    BY <2>1, <2>3 DEF RunState
  <2>5. EnterStep(p, k) /\ UNCHANGED <<rq, ef, audit, evs>>
    BY <1>3, <2>2 DEF SweepNext
  <2> HIDE DEF k
  <2>6. Minded(p, k, ef)
    BY <2>1, <2>3, <2>4 DEF Minded
  <2> QED BY <2>4, <2>5, <2>6, GoStep
<1>4. CASE PgCrash(p)
  <2>1. Calm \in RunState /\ Minded(p, Calm, ef)
    BY CalmTyped DEF Calm, Minded
  <2> HIDE DEF Calm
  <2> QED BY <1>4, <2>1, GoStep DEF PgCrash
<1> QED BY <1>1, <1>2, <1>3, <1>4

\* A decision writes the verdict, its event, its audit and the release of the
\* effect together, when the request is still open and its number still free.
LEMMA ResolveStep ==
  ASSUME PgaInv, NEW p \in Procs, FinishResolve(p)
  PROVE  PgaInv'
<1>1. run[p].op = "resolve" /\ run[p].verdict \in Verdicts
  BY DEF FinishResolve, PgaInv, Minded
<1>2. PICK a \in Requests : run[p].a = {a}
  BY <1>1 DEF PgaInv, Minded
<1>3. a = CHOOSE b \in run[p].a : TRUE
  BY <1>2
<1> DEFINE verdict == run[p].verdict
<1>4. CASE /\ rq[a].status = "pending"
           /\ rq' = [rq EXCEPT ![a].status = verdict]
           /\ ef' = [ef EXCEPT ![a].status = "pending"]
           /\ audit' = audit \cup Audited(ef[a].plain, <<a, verdict>>)
           /\ evs' = [evs EXCEPT ![a].resolved = @ + 1]
           /\ Write(p, Onward(p, FALSE))
  <2>1. /\ rq[a] \in ReqRow /\ ef[a] \in EffectRow /\ evs[a] \in EventCount
        /\ Paired(rq[a], ef[a], evs[a]) /\ Told(a, rq[a], ef[a], evs[a], audit)
    BY RowOf
  <2> DEFINE r == [rq[a] EXCEPT !.status = verdict]
             e == [ef[a] EXCEPT !.status = "pending"]
             n == [evs[a] EXCEPT !.resolved = evs[a].resolved + 1]
  <2>2. r \in ReqRow /\ r.status = verdict /\ r.bundled = rq[a].bundled
    BY <1>1, <2>1 DEF ReqRow, ReqStatus
  <2>3. /\ e \in EffectRow /\ e.status = "pending" /\ e.owner = ef[a].owner
        /\ e.attempts = ef[a].attempts /\ e.epoch = ef[a].epoch /\ e.plain = ef[a].plain
    BY <2>1 DEF EffectRow, EffectStatus
  <2>4. n \in EventCount /\ n.resolved = evs[a].resolved + 1 /\ n.proposal = evs[a].proposal
    BY <2>1 DEF EventCount
  <2>5. rq' = [rq EXCEPT ![a] = r] /\ ef' = [ef EXCEPT ![a] = e] /\ evs' = [evs EXCEPT ![a] = n]
    BY <1>4
  <2> HIDE DEF r, e, n
  <2>6. ef[a].status = "blocked" /\ ef[a].owner = NoProc /\ evs[a].resolved = 0
    BY <1>4, <2>1 DEF Paired, Told, Verdicts
  <2>7. Paired(r, e, n)
    BY <1>1, <2>1, <2>2, <2>3, <2>6 DEF Paired, Verdicts
  <2>8. \A v : <<a, v>> \in audit' <=> <<a, v>> \in audit \/ (v = verdict /\ ~ef[a].plain)
    <3>1. CASE ef[a].plain
      <4>1. audit' = audit
        BY <1>4, <3>1 DEF Audited
      <4> QED BY <3>1, <4>1
    <3>2. CASE ~ef[a].plain
      <4>1. audit' = audit \cup {<<a, verdict>>}
        BY <1>4, <3>2 DEF Audited
      <4> QED BY <3>2, <4>1
    <3> QED BY <3>1, <3>2
  <2>9. Told(a, r, e, n, audit')
    BY <1>1, <1>4, <2>1, <2>2, <2>3, <2>4, <2>6, <2>8 DEF Told, Verdicts
  <2>10. \A q \in Procs : Minded(q, run[q], ef')
    BY <2>3, <2>5, <2>6, OthersMinded
  <2>11. run' \in [Procs -> RunState] /\ \A q \in Procs : Minded(q, run'[q], ef')
    BY <1>1, <1>4, <2>10, OnwardMeans, RunChanges
  <2>12. audit' = audit \/ \E said : audit' = audit \cup {<<a, said>>}
    BY <1>4 DEF Audited
  <2> HIDE DEF Paired, Told, Minded, ReqRow, EffectRow, EventCount, RunState
  <2> QED BY <2>2, <2>3, <2>4, <2>5, <2>7, <2>9, <2>11, <2>12, RowChanges DEF PgaInv, PgaTyped
<1>5. CASE \E failed \in BOOLEAN : EnterStep(p, Onward(p, failed)) /\ UNCHANGED <<rq, ef, audit, evs>>
  <2> PICK failed \in BOOLEAN : EnterStep(p, Onward(p, failed)) /\ UNCHANGED <<rq, ef, audit, evs>>
    BY <1>5
  <2>1. Onward(p, failed) \in RunState /\ Minded(p, Onward(p, failed), ef')
    BY <1>1, OnwardMeans
  <2>2. \A q \in Procs : Minded(q, run[q], ef')
    BY DEF PgaInv
  <2> HIDE DEF Onward, Minded, RunState
  <2> QED BY <2>1, <2>2, RunChanges, RunOnlyStep
<1> QED BY <1>3, <1>4, <1>5 DEF FinishResolve

\* A claim is another lease of a row that nobody is completing.
LEMMA ClaimStep ==
  ASSUME PgaInv, NEW p \in Procs, NEW a \in Requests, PgClaim(p, a)
  PROVE  PgaInv'
<1>1. /\ rq[a] \in ReqRow /\ ef[a] \in EffectRow /\ evs[a] \in EventCount
      /\ Paired(rq[a], ef[a], evs[a]) /\ Told(a, rq[a], ef[a], evs[a], audit)
      /\ rq = [rq EXCEPT ![a] = rq[a]] /\ evs = [evs EXCEPT ![a] = evs[a]]
  BY RowOf
<1> DEFINE e == [status |-> "claimed", attempts |-> ef[a].attempts + 1,
                 epoch |-> ef[a].epoch + 1, owner |-> p, stale |-> FALSE,
                 plain |-> ef[a].plain]
<1>2. /\ ef[a].status \in {"pending", "claimed"} /\ ~RowLocked(a) /\ ef[a].epoch < MaxEpochs
      /\ ef' = [ef EXCEPT ![a] = e]
      /\ rq' = rq /\ audit' = audit /\ evs' = evs /\ run' = run
  BY DEF PgClaim
<1>3. ef[a].attempts + 1 \in 0..MaxEpochs /\ ef[a].epoch + 1 \in 0..MaxEpochs
      /\ ef[a].attempts = ef[a].epoch
  BY <1>1, <1>2, PgApprovalAssumption DEF EffectRow, Paired
<1>4. /\ e \in EffectRow /\ e.status = "claimed" /\ e.owner = p
      /\ e.attempts = e.epoch /\ e.plain = ef[a].plain
  BY <1>1, <1>3 DEF EffectRow, EffectStatus
<1> HIDE DEF e
<1>5. p # NoProc
  BY PgApprovalAssumption
<1>6. Paired(rq[a], e, evs[a]) /\ Told(a, rq[a], e, evs[a], audit')
  BY <1>1, <1>2, <1>4, <1>5 DEF Paired, Told, Verdicts
<1>7. \A q \in Procs : Minded(q, run[q], ef')
  BY <1>2, <1>4, OthersMinded DEF RowLocked
<1>8. run' \in [Procs -> RunState] /\ \A q \in Procs : Minded(q, run'[q], ef')
  BY <1>2, <1>7, RunStays
<1> HIDE DEF Paired, Told, Minded, ReqRow, EffectRow, EventCount, RunState
<1> QED BY <1>1, <1>2, <1>4, <1>6, <1>8, RowChanges DEF PgaInv, PgaTyped

\* The lease is given back, applied or not.
LEMMA DroppedMeans ==
  ASSUME NEW e \in EffectRow, NEW st \in EffectStatus \ {"claimed"}, e.attempts = e.epoch
  PROVE  /\ Dropped(e, st) \in EffectRow
         /\ Dropped(e, st).status = st /\ Dropped(e, st).owner = NoProc
         /\ Dropped(e, st).attempts = Dropped(e, st).epoch /\ Dropped(e, st).plain = e.plain
BY DEF Dropped, EffectRow

\* A failure drops the lease of a row that nobody is completing.
LEMMA FailStep ==
  ASSUME PgaInv, NEW p \in Procs, NEW a \in Requests, NEW epoch, PgFailEffect(p, a, epoch)
  PROVE  PgaInv'
<1>1. /\ rq[a] \in ReqRow /\ ef[a] \in EffectRow /\ evs[a] \in EventCount
      /\ Paired(rq[a], ef[a], evs[a]) /\ Told(a, rq[a], ef[a], evs[a], audit)
      /\ rq = [rq EXCEPT ![a] = rq[a]] /\ evs = [evs EXCEPT ![a] = evs[a]]
  BY RowOf
<1>2. PICK st \in {"failed", "pending"} : ef' = [ef EXCEPT ![a] = Dropped(ef[a], st)]
  BY DEF PgFailEffect
<1> DEFINE e == Dropped(ef[a], st)
<1>3. st \in EffectStatus \ {"claimed"} /\ ef[a].attempts = ef[a].epoch
  BY <1>1 DEF EffectStatus, Paired
<1>4. e \in EffectRow /\ e.status = st /\ e.owner = NoProc /\ e.attempts = e.epoch
      /\ e.plain = ef[a].plain
  BY <1>1, <1>3, DroppedMeans
<1>5. /\ ef[a].status = "claimed" /\ ~RowLocked(a) /\ ef' = [ef EXCEPT ![a] = e]
      /\ audit' = audit \/ audit' = audit \cup {<<a, "failure", epoch>>}
      /\ rq' = rq /\ evs' = evs /\ run' = run
  BY <1>2 DEF PgFailEffect, Leased, Audited
<1> HIDE DEF e
<1>6. \A v : <<a, v>> \in audit' <=> <<a, v>> \in audit
  BY <1>5
<1>7. Paired(rq[a], e, evs[a])
  BY <1>1, <1>4, <1>5 DEF Paired, Verdicts
<1>8. Told(a, rq[a], e, evs[a], audit')
  BY <1>1, <1>4, <1>5, <1>6 DEF Told, Verdicts
<1>9. \A q \in Procs : Minded(q, run[q], ef')
  BY <1>4, <1>5, OthersMinded DEF RowLocked
<1>10. run' \in [Procs -> RunState] /\ \A q \in Procs : Minded(q, run'[q], ef')
  BY <1>5, <1>9, RunStays
<1>11. audit' = audit \/ \E said, n : audit' = audit \cup {<<a, said, n>>}
  BY <1>5
<1> HIDE DEF Paired, Told, Minded, ReqRow, EffectRow, EventCount, RunState
<1> QED BY <1>1, <1>4, <1>5, <1>7, <1>8, <1>10, <1>11, RowChanges DEF PgaInv, PgaTyped

\* A plain effect is completed in one update of a row nobody else is completing.
LEMMA CompleteStep ==
  ASSUME PgaInv, NEW p \in Procs, NEW a \in Requests, NEW epoch, PgComplete(p, a, epoch)
  PROVE  PgaInv'
<1>1. /\ rq[a] \in ReqRow /\ ef[a] \in EffectRow /\ evs[a] \in EventCount
      /\ Paired(rq[a], ef[a], evs[a]) /\ Told(a, rq[a], ef[a], evs[a], audit)
      /\ rq = [rq EXCEPT ![a] = rq[a]] /\ evs = [evs EXCEPT ![a] = evs[a]]
  BY RowOf
<1> DEFINE e == Dropped(ef[a], "applied")
<1>2. "applied" \in EffectStatus \ {"claimed"} /\ ef[a].attempts = ef[a].epoch
  BY <1>1 DEF EffectStatus, Paired
<1>3. e \in EffectRow /\ e.status = "applied" /\ e.owner = NoProc /\ e.attempts = e.epoch
      /\ e.plain = ef[a].plain
  BY <1>1, <1>2, DroppedMeans
<1>4. /\ ef[a].status = "claimed" /\ ef[a].plain /\ ef' = [ef EXCEPT ![a] = e]
      /\ audit' = audit /\ rq' = rq /\ evs' = evs /\ run' = run
  BY DEF PgComplete, Leased
<1> HIDE DEF e
<1>5. Paired(rq[a], e, evs[a])
  BY <1>1, <1>3, <1>4 DEF Paired, Verdicts
<1>6. Told(a, rq[a], e, evs[a], audit')
  BY <1>1, <1>3, <1>4 DEF Told, Verdicts
<1>7. \A q \in Procs : run[q].op # "done" \/ a \notin run[q].a
  BY <1>4 DEF PgaInv, Minded
<1>8. \A q \in Procs : Minded(q, run[q], ef')
  BY <1>3, <1>4, <1>7, OthersMinded
<1>9. run' \in [Procs -> RunState] /\ \A q \in Procs : Minded(q, run'[q], ef')
  BY <1>4, <1>8, RunStays
<1> HIDE DEF Paired, Told, Minded, ReqRow, EffectRow, EventCount, RunState
<1> QED BY <1>1, <1>3, <1>4, <1>5, <1>6, <1>9, RowChanges DEF PgaInv, PgaTyped

\* Completing an effect: the row is locked, then written with its event, its
\* audit and the terminal proposal, or let go when the number was taken.
LEMMA DoneSteps ==
  ASSUME PgaInv, NEW p \in Procs,
         FinishDone(p) \/ \E a \in Requests, n \in 1..MaxEpochs : BeginDone(p, a, n)
  PROVE  PgaInv'
<1>1. ASSUME NEW a \in Requests, NEW n \in 1..MaxEpochs, BeginDone(p, a, n) PROVE PgaInv'
  <2> DEFINE k == [Calm EXCEPT !.op = "done", !.a = {a}, !.epoch = n, !.free = TRUE]
  <2>1. k \in RunState /\ k.op = "done" /\ k.a = {a}
    <3>1. {a} \in SUBSET Requests /\ n \in 0..MaxEpochs
      BY PgApprovalAssumption
    <3> QED BY <3>1, CalmTyped DEF RunState
  <2>2. EnterStep(p, k) /\ UNCHANGED <<rq, ef, audit, evs>>
    BY <1>1 DEF BeginDone
  <2> HIDE DEF k
  <2>3. Minded(p, k, ef)
    BY <1>1, <2>1 DEF BeginDone, Leased, Minded
  <2> QED BY <2>1, <2>2, <2>3, GoStep
<1>2. CASE FinishDone(p)
  <2>1. PICK a \in Requests : /\ run[p].a = {a} /\ ef[a].status = "claimed"
                              /\ ef[a].owner = p /\ ~ef[a].plain
    BY <1>2 DEF FinishDone, PgaInv, Minded
  <2>2. a = CHOOSE b \in run[p].a : TRUE
    BY <2>1
  <2>3. rq' = rq
    BY <1>2 DEF FinishDone
  <2>4. CASE EnterStep(p, Calm) /\ UNCHANGED <<ef, audit, evs>>
    <3>1. Calm \in RunState /\ Minded(p, Calm, ef)
      BY CalmTyped DEF Calm, Minded
    <3> HIDE DEF Calm
    <3> QED BY <2>3, <2>4, <3>1, GoStep
  <2>5. CASE /\ ef' = [ef EXCEPT ![a] = Dropped(@, "applied")]
             /\ audit' = audit \cup {<<a, "applied">>}
             /\ evs' = [evs EXCEPT ![a].proposal = @ + 1]
             /\ Write(p, Calm)
    <3>1. /\ rq[a] \in ReqRow /\ ef[a] \in EffectRow /\ evs[a] \in EventCount
          /\ Paired(rq[a], ef[a], evs[a]) /\ Told(a, rq[a], ef[a], evs[a], audit)
          /\ rq = [rq EXCEPT ![a] = rq[a]]
      BY RowOf
    <3> DEFINE e == Dropped(ef[a], "applied")
               n == [evs[a] EXCEPT !.proposal = evs[a].proposal + 1]
    <3>2. "applied" \in EffectStatus \ {"claimed"} /\ ef[a].attempts = ef[a].epoch
      BY <3>1 DEF EffectStatus, Paired
    <3>3. e \in EffectRow /\ e.status = "applied" /\ e.owner = NoProc /\ e.attempts = e.epoch
          /\ e.plain = ef[a].plain
      BY <3>1, <3>2, DroppedMeans
    <3>4. n \in EventCount /\ n.resolved = evs[a].resolved /\ n.proposal = evs[a].proposal + 1
      BY <3>1 DEF EventCount
    <3>5. ef' = [ef EXCEPT ![a] = e] /\ evs' = [evs EXCEPT ![a] = n]
      BY <2>5
    <3> HIDE DEF e, n
    <3>6. rq[a].status \in Verdicts
      BY <2>1, <3>1 DEF Paired, ReqRow, ReqStatus
    <3>7. Paired(rq[a], e, n)
      BY <3>1, <3>3, <3>6 DEF Paired, Verdicts
    <3>8. \A v : <<a, v>> \in audit' <=> <<a, v>> \in audit \/ v = "applied"
      BY <2>5
    <3>9. Told(a, rq[a], e, n, audit')
      BY <2>1, <3>1, <3>3, <3>4, <3>8 DEF Told, Verdicts
    <3>10. \A q \in Procs \ {p} : Minded(q, run[q], ef')
      BY <2>1, <3>3, <3>5, OthersMinded
    <3>11. run' \in [Procs -> RunState] /\ \A q \in Procs : Minded(q, run'[q], ef')
      BY <2>5, <3>10, CalmTyped, RunChanges
    <3>12. \E said : audit' = audit \cup {<<a, said>>}
      BY <2>5
    <3> HIDE DEF Paired, Told, Minded, ReqRow, EffectRow, EventCount, RunState
    <3> QED BY <2>3, <3>1, <3>3, <3>4, <3>5, <3>7, <3>9, <3>11, <3>12, RowChanges
         DEF PgaInv, PgaTyped
  <2> QED BY <1>2, <2>2, <2>4, <2>5 DEF FinishDone
<1> QED BY <1>1, <1>2

\* What the log and the audit say of an approval is what its rows say, however
\* many processes decide, sweep, claim, complete and fail with old snapshots.
THEOREM PgApprovalsAreSafe == PgaSpec => []PgApprovalsSafe
<1>1. PgaInit => PgaInv
  <2> SUFFICES ASSUME PgaInit PROVE PgaInv
    OBVIOUS
  <2>1. /\ NoRequest \in ReqRow /\ NoRequest.status = "none" /\ ~NoRequest.bundled
        /\ NoEffect \in EffectRow /\ NoEffect.status = "none" /\ NoEffect.owner = NoProc
        /\ NoEffect.attempts = NoEffect.epoch
        /\ NoEvents \in EventCount /\ NoEvents.resolved = 0 /\ NoEvents.proposal = 0
    BY PgApprovalAssumption DEF NoRequest, ReqRow, ReqStatus, NoEffect, EffectRow, EffectStatus,
         NoEvents, EventCount
  <2>2. PgaTyped
    BY <2>1, CalmTyped DEF PgaInit, PgaTyped
  <2>3. RowsOK
    BY <2>1 DEF PgaInit, RowsOK, Paired, Told, Verdicts
  <2>4. \A p \in Procs : Minded(p, run[p], ef)
    BY DEF PgaInit, Minded, Calm
  <2> QED BY <2>2, <2>3, <2>4 DEF PgaInv
<1>2. PgaInv /\ [PgaNext]_pgaVars => PgaInv'
  <2> SUFFICES ASSUME PgaInv, [PgaNext]_pgaVars PROVE PgaInv'
    OBVIOUS
  <2>1. CASE UNCHANGED pgaVars
    BY <2>1 DEF pgaVars, PgaInv, PgaTyped, RowsOK
  <2>2. CASE PgOther
    <3>1. \A q \in Procs : Minded(q, run[q], ef')
      BY <2>2 DEF PgOther, PgaInv
    <3> QED BY <2>2, <3>1, RunStays, RunOnlyStep DEF PgOther
  <2>3. ASSUME NEW a \in Requests,
               \/ \E r, plain \in BOOLEAN : PgCreate(a, r, plain)
               \/ PgBundle(a) \/ PgAnnounce(a) \/ PgLink(a) \/ PgHeartbeat(a) \/ PgElapse(a)
        PROVE  PgaInv'
    BY <2>3, CreateStep, MarkSteps
  <2>4. ASSUME NEW p \in Procs, NEW a \in Requests, NEW n \in 1..MaxEpochs,
               \/ PgHeartbeatEffect(p, a, n) \/ PgFailEffect(p, a, n)
               \/ BeginDone(p, a, n) \/ PgComplete(p, a, n)
        PROVE  PgaInv'
    BY <2>4, MarkSteps, DoneSteps, FailStep, CompleteStep
  <2>5. ASSUME NEW p \in Procs,
               \/ \E a \in Requests :
                    (\E v \in {"approved", "denied"} : BeginResolve(p, a, v)) \/ PgClaim(p, a)
               \/ \E v \in {"timed_out", "cancelled"} : Sweep(p, v)
               \/ SweepNext(p) \/ FinishResolve(p) \/ FinishDone(p) \/ PgCrash(p)
        PROVE  PgaInv'
    BY <2>5, DecideSteps, ClaimStep, ResolveStep, DoneSteps
  <2> QED BY <2>1, <2>2, <2>3, <2>4, <2>5 DEF PgaNext
<1> QED BY <1>1, <1>2, PgaInvIsSafe, PTL DEF PgaSpec

-----------------------------------------------------------------------------
(* The statements about turns.                                             *)

StmtRecord ==
  [op : {"none", "enqueue", "complete", "end", "endDream", "append", "once", "claim"},
   s : Sessions \cup {None}, t : Turns \cup {None}, w : Workers \cup {None},
   client : ClientIds \cup {None}, content : Contents \cup {None},
   active : BOOLEAN, next : Nat, event : Nat, seen : BOOLEAN, retries : Nat,
   queue : SUBSET Turns]

\* A waiting statement holds the arguments its call was given.
WellCalled(st) ==
  /\ st.op \notin {"none", "claim"} => st.s \in Sessions
  /\ st.op \in {"enqueue", "complete", "once"} => st.t \in Turns
  /\ st.op = "enqueue" => st.client \in ClientIds /\ st.content \in Contents
  /\ st.op \in {"complete", "claim"} => st.w \in Workers

PgTyped ==
  /\ log \in [Sessions -> Seq(Turns \cup {None})]
  /\ stmt \in [Conns -> StmtRecord]
  /\ \A p \in Conns : WellCalled(stmt[p])

\* While the event key of an append_once is free in the log lg nothing was
\* logged since its snapshot, so the snapshot's answer is still the right one.
Fresh(lg, st) ==
  st.op = "once" =>
    /\ st.event <= Len(lg[st.s]) + 1
    /\ Len(lg[st.s]) < st.event => (st.seen <=> \E i \in DOMAIN lg[st.s] : lg[st.s][i] = st.t)

PgInv ==
  /\ TypeOK /\ Related /\ PgTyped /\ OnceEventsOnce
  /\ \A p \in Conns : Fresh(log, stmt[p])

\* An empty statement, and one with some of its arguments set, is a record.
LEMMA NoStmtTyped ==
  /\ NoStmt \in StmtRecord /\ WellCalled(NoStmt) /\ NoStmt.op = "none"
BY DEF NoStmt, StmtRecord, WellCalled

\* The snapshot keeps the arguments and reads the log as it is.
LEMMA SnapshotMeans ==
  ASSUME PgTyped, TypeOK, NEW st \in StmtRecord, st.s \in Sessions
  PROVE  /\ Snapshot(st) \in StmtRecord
         /\ Snapshot(st).op = st.op /\ Snapshot(st).s = st.s /\ Snapshot(st).t = st.t
         /\ Snapshot(st).w = st.w /\ Snapshot(st).client = st.client
         /\ Snapshot(st).content = st.content /\ Snapshot(st).retries = st.retries
         /\ Snapshot(st).event = Len(log[st.s]) + 1
         /\ Snapshot(st).seen = Logged(st.s, st.t)
<1>1. Len(messages[st.s]) + 1 \in Nat /\ Len(log[st.s]) + 1 \in Nat
  BY DEF PgTyped, TypeOK
<1>2. (Open(st.s) # {}) \in BOOLEAN /\ Logged(st.s, st.t) \in BOOLEAN
  BY DEF Logged
<1> HIDE DEF Logged, Open
<1> QED BY <1>1, <1>2, ZenonT(30) DEF Snapshot, StmtRecord

\* A process changes its own statement only.
LEMMA StmtChanges ==
  ASSUME PgInv, NEW p \in Conns, NEW x \in StmtRecord, WellCalled(x), Fresh(log', x),
         stmt' = [stmt EXCEPT ![p] = x],
         log' \in [Sessions -> Seq(Turns \cup {None})],
         \A q \in Conns : Fresh(log', stmt[q])
  PROVE  /\ PgTyped'
         /\ \A q \in Conns : Fresh(log', stmt'[q])
<1>1. stmt'[p] = x /\ \A q \in Conns \ {p} : stmt'[q] = stmt[q]
  BY DEF PgInv, PgTyped
<1>2. stmt' \in [Conns -> StmtRecord]
  BY DEF PgInv, PgTyped
<1>3. \A q \in Conns : WellCalled(stmt'[q])
  BY <1>1 DEF PgInv, PgTyped
<1> QED BY <1>1, <1>2, <1>3 DEF PgTyped

\* Nothing was logged: the open snapshots are as good as before.
LEMMA SameLog ==
  ASSUME PgInv, log' = log
  PROVE  /\ log' \in [Sessions -> Seq(Turns \cup {None})]
         /\ OnceEventsOnce'
         /\ \A q \in Conns : Fresh(log', stmt[q])
BY DEF PgInv, PgTyped, OnceEventsOnce

\* An event was logged: open snapshots of that session have lost their key.
LEMMA LogGrows ==
  ASSUME PgInv, NEW s \in Sessions, NEW v \in Turns \cup {None},
         log' = [log EXCEPT ![s] = Append(@, v)],
         v = None \/ ~Logged(s, v)
  PROVE  /\ log' \in [Sessions -> Seq(Turns \cup {None})]
         /\ OnceEventsOnce'
         /\ \A q \in Conns : Fresh(log', stmt[q])
<1>1. /\ log[s] \in Seq(Turns \cup {None})
      /\ log'[s] = Append(log[s], v) /\ \A r \in Sessions \ {s} : log'[r] = log[r]
  BY DEF PgInv, PgTyped
<1>2. /\ Len(log'[s]) = Len(log[s]) + 1 /\ Len(log[s]) \in Nat
      /\ DOMAIN log'[s] = 1..(Len(log[s]) + 1) /\ DOMAIN log[s] = 1..Len(log[s])
      /\ log'[s][Len(log[s]) + 1] = v
      /\ \A i \in 1..Len(log[s]) : log'[s][i] = log[s][i]
  BY <1>1
<1>3. log' \in [Sessions -> Seq(Turns \cup {None})]
  BY DEF PgInv, PgTyped
<1>4. OnceEventsOnce'
  <2> SUFFICES ASSUME NEW r \in Sessions, NEW i \in DOMAIN log'[r], NEW j \in DOMAIN log'[r],
                      log'[r][i] = log'[r][j], log'[r][i] # None
               PROVE  i = j
    BY DEF OnceEventsOnce
  <2>1. CASE r # s
    BY <1>1, <2>1 DEF PgInv, OnceEventsOnce
  <2>2. CASE r = s
    <3>1. \A m, n \in 1..Len(log[s]) : log[s][m] = log[s][n] /\ log[s][m] # None => m = n
      BY <1>2 DEF PgInv, OnceEventsOnce
    <3>2. v = None \/ \A m \in 1..Len(log[s]) : log[s][m] # v
      BY <1>2 DEF Logged
    <3> QED BY <1>2, <2>2, <3>1, <3>2
  <2> QED BY <2>1, <2>2
<1>5. ASSUME NEW q \in Conns, stmt[q].op = "once"
      PROVE  Fresh(log', stmt[q])
  <2>1. /\ stmt[q].s \in Sessions /\ stmt[q].event \in Nat
        /\ Fresh(log, stmt[q])
    BY <1>5 DEF PgInv, PgTyped, WellCalled, StmtRecord
  <2>2. CASE stmt[q].s = s
    BY <1>2, <1>5, <2>1, <2>2 DEF Fresh
  <2>3. CASE stmt[q].s # s
    <3>1. log'[stmt[q].s] = log[stmt[q].s]
      BY <1>1, <2>1, <2>3
    <3> QED BY <2>1, <3>1 DEF Fresh
  <2> QED BY <2>2, <2>3
<1>6. \A q \in Conns : Fresh(log', stmt[q])
  BY <1>5 DEF Fresh
<1> QED BY <1>3, <1>4, <1>6

\* Beginning a statement, or starting it again, takes a fresh snapshot.
LEMMA SnapshotFresh ==
  ASSUME PgInv, NEW st \in StmtRecord, st.s \in Sessions, WellCalled(st)
  PROVE  /\ WellCalled(Snapshot(st)) /\ Fresh(log, Snapshot(st))
         /\ WellCalled([Snapshot(st) EXCEPT !.retries = @ + 1])
         /\ Fresh(log, [Snapshot(st) EXCEPT !.retries = @ + 1])
         /\ [Snapshot(st) EXCEPT !.retries = @ + 1] \in StmtRecord
<1> DEFINE x == Snapshot(st)
           y == [x EXCEPT !.retries = @ + 1]
<1>1. /\ x \in StmtRecord
      /\ x.op = st.op /\ x.s = st.s /\ x.t = st.t /\ x.w = st.w
      /\ x.client = st.client /\ x.content = st.content
      /\ x.event = Len(log[st.s]) + 1 /\ x.seen = Logged(st.s, st.t)
  BY SnapshotMeans DEF PgInv
<1> HIDE DEF x
<1>2. /\ y \in StmtRecord
      /\ y.op = x.op /\ y.s = x.s /\ y.t = x.t /\ y.w = x.w
      /\ y.client = x.client /\ y.content = x.content
      /\ y.event = x.event /\ y.seen = x.seen
  BY <1>1 DEF StmtRecord
<1> HIDE DEF y
<1>3. WellCalled(x) /\ WellCalled(y)
  BY <1>1, <1>2 DEF WellCalled
<1>4. Len(log[st.s]) \in Nat
  BY DEF PgInv, PgTyped
<1>5. Fresh(log, x)
  BY <1>1, <1>4 DEF Fresh, Logged
<1>6. Fresh(log, y)
  BY <1>2, <1>5 DEF Fresh
<1> QED BY <1>2, <1>3, <1>5, <1>6 DEF x, y

\* What a step leaves of the statements, the log and the once-only events.
Kept == PgTyped' /\ OnceEventsOnce' /\ \A q \in Conns : Fresh(log', stmt'[q])

\* Beginning a statement changes no table.
LEMMA BeginKeeps ==
  ASSUME PgInv, NEW p \in Conns, NEW st \in StmtRecord, st.s \in Sessions,
         WellCalled(st), Begin(p, st)
  PROVE  Kept /\ UNCHANGED storeVars
<1>1. Snapshot(st) \in StmtRecord
  BY SnapshotMeans DEF PgInv
<1>2. stmt' = [stmt EXCEPT ![p] = Snapshot(st)] /\ log' = log /\ UNCHANGED storeVars
  BY DEF Begin
<1>3. WellCalled(Snapshot(st)) /\ Fresh(log, Snapshot(st))
  BY SnapshotFresh
<1> HIDE DEF Snapshot, Fresh
<1> QED BY <1>1, <1>2, <1>3, SameLog, StmtChanges DEF Kept

\* Every statement is begun with arguments of its call.
LEMMA BeginSteps ==
  ASSUME PgInv, NEW p \in Conns,
         \/ \E t \in Turns, s \in Sessions, c \in ClientIds, h \in Contents :
              BeginEnqueue(p, t, s, c, h)
         \/ \E t \in Turns, w \in Workers : BeginComplete(p, t, w)
         \/ \E s \in Sessions : BeginEnd(p, s) \/ BeginAppend(p, s)
         \/ \E t \in Turns : BeginAppendOnce(p, t)
         \/ \E w \in Workers : BeginClaim(p, w)
  PROVE  Kept /\ UNCHANGED storeVars
<1>1. ASSUME NEW t \in Turns, NEW s \in Sessions, NEW c \in ClientIds, NEW h \in Contents,
             BeginEnqueue(p, t, s, c, h)
      PROVE  Kept /\ UNCHANGED storeVars
  <2> DEFINE st == [NoStmt EXCEPT !.op = "enqueue", !.s = s, !.t = t, !.client = c,
                                  !.content = h]
  <2>1. st \in StmtRecord /\ st.s \in Sessions /\ WellCalled(st)
    BY DEF NoStmt, StmtRecord, WellCalled
  <2>2. Begin(p, st)
    BY <1>1 DEF BeginEnqueue
  <2> HIDE DEF st
  <2> QED BY <2>1, <2>2, BeginKeeps
<1>2. ASSUME NEW t \in Turns, NEW w \in Workers, BeginComplete(p, t, w)
      PROVE  Kept /\ UNCHANGED storeVars
  <2>1. turns[t] \in TurnRecord
    BY <1>2, RowTyped DEF BeginComplete, Owns, Status, PgInv
  <2> DEFINE st == [NoStmt EXCEPT !.op = "complete", !.s = turns[t].session, !.t = t, !.w = w]
  <2>2. st \in StmtRecord /\ st.s \in Sessions /\ WellCalled(st)
    BY <2>1 DEF NoStmt, StmtRecord, WellCalled, TurnRecord
  <2>3. Begin(p, st)
    BY <1>2 DEF BeginComplete
  <2> HIDE DEF st
  <2> QED BY <2>2, <2>3, BeginKeeps
<1>3. ASSUME NEW s \in Sessions, NEW op \in {"end", "endDream", "append"},
             Begin(p, [NoStmt EXCEPT !.op = op, !.s = s])
      PROVE  Kept /\ UNCHANGED storeVars
  <2> DEFINE st == [NoStmt EXCEPT !.op = op, !.s = s]
  <2>1. st \in StmtRecord /\ st.s \in Sessions /\ WellCalled(st)
    BY DEF NoStmt, StmtRecord, WellCalled
  <2>2. Begin(p, st)
    BY <1>3
  <2> HIDE DEF st
  <2> QED BY <2>1, <2>2, BeginKeeps
<1>4. ASSUME NEW t \in Turns, BeginAppendOnce(p, t) PROVE Kept /\ UNCHANGED storeVars
  <2>1. turns[t] \in TurnRecord
    BY <1>4 DEF BeginAppendOnce, PgInv, TypeOK
  <2> DEFINE st == [NoStmt EXCEPT !.op = "once", !.s = turns[t].session, !.t = t]
  <2>2. st \in StmtRecord /\ st.s \in Sessions /\ WellCalled(st)
    BY <2>1 DEF NoStmt, StmtRecord, WellCalled, TurnRecord
  <2>3. Begin(p, st)
    BY <1>4 DEF BeginAppendOnce
  <2> HIDE DEF st
  <2> QED BY <2>2, <2>3, BeginKeeps
<1>5. CASE \E s \in Sessions : BeginEnd(p, s) \/ BeginAppend(p, s)
  <2> PICK s \in Sessions : BeginEnd(p, s) \/ BeginAppend(p, s)
    BY <1>5
  <2> PICK op \in {"end", "endDream", "append"} : Begin(p, [NoStmt EXCEPT !.op = op, !.s = s])
    BY DEF BeginEnd, BeginAppend
  <2> QED BY <1>3
<1>6. ASSUME NEW w \in Workers, BeginClaim(p, w) PROVE Kept /\ UNCHANGED storeVars
  <2> DEFINE st == [NoStmt EXCEPT !.op = "claim", !.w = w, !.queue = Claimable]
  <2>1. Claimable \in SUBSET Turns
    BY DEF Claimable
  <2> HIDE DEF Claimable
  <2>2. st \in StmtRecord /\ st.op = "claim" /\ st.w = w
    BY <2>1 DEF NoStmt, StmtRecord
  <2>3. stmt' = [stmt EXCEPT ![p] = st] /\ log' = log /\ UNCHANGED storeVars
    BY <1>6 DEF BeginClaim
  <2> HIDE DEF st
  <2>4. WellCalled(st) /\ Fresh(log', st)
    BY <2>2 DEF WellCalled, Fresh
  <2> QED BY <2>2, <2>3, <2>4, SameLog, StmtChanges DEF Kept
<1> QED BY <1>1, <1>2, <1>4, <1>5, <1>6

\* A statement that returns leaves an idle connection.
LEMMA ReturnKeeps ==
  ASSUME PgInv, NEW p \in Conns, Return(p), OnceEventsOnce',
         log' \in [Sessions -> Seq(Turns \cup {None})],
         \A q \in Conns : Fresh(log', stmt[q])
  PROVE  Kept
<1>1. NoStmt \in StmtRecord /\ WellCalled(NoStmt) /\ Fresh(log', NoStmt)
  BY NoStmtTyped DEF Fresh
<1>2. stmt' = [stmt EXCEPT ![p] = NoStmt]
  BY DEF Return
<1> HIDE DEF NoStmt
<1> QED BY <1>1, <1>2, StmtChanges DEF Kept

\* Ending a session, whatever its turns are.
EndsAnyhow ==
  \E s \in Sessions : session' = [session EXCEPT ![s] = "ended"] /\ UNCHANGED <<turns, messages>>

\* The statements about turns are steps of the atomic store.
LEMMA FinishTurnStatements ==
  ASSUME PgInv, NEW p \in Conns, FinishEnqueue(p) \/ FinishComplete(p)
  PROVE  Kept /\ (StoreNext \/ UNCHANGED storeVars)
<1>1. log' = log /\ Return(p)
  BY DEF FinishEnqueue, FinishComplete
<1>2. Kept
  BY <1>1, SameLog, ReturnKeeps
<1>3. WellCalled(stmt[p])
  BY DEF PgInv, PgTyped
<1>4. CASE FinishEnqueue(p)
  <2>1. /\ stmt[p].t \in Turns /\ stmt[p].s \in Sessions
        /\ stmt[p].client \in ClientIds /\ stmt[p].content \in Contents
    BY <1>3, <1>4 DEF FinishEnqueue, WellCalled
  <2>2. \/ \E now \in 1..MaxStamp :
             EnqueueTurn(stmt[p].t, stmt[p].s, stmt[p].client, stmt[p].content, now)
        \/ UNCHANGED storeVars
    BY <1>4 DEF FinishEnqueue
  <2> HIDE DEF storeVars
  <2> QED BY <1>2, <2>1, <2>2 DEF StoreNext, PostMessage
<1>5. CASE FinishComplete(p)
  <2>1. stmt[p].t \in Turns /\ stmt[p].w \in Workers
    BY <1>3, <1>5 DEF FinishComplete, WellCalled
  <2>2. CompleteTurn(stmt[p].t, stmt[p].w) \/ UNCHANGED storeVars
    BY <1>5 DEF FinishComplete
  <2> HIDE DEF storeVars
  <2> QED BY <1>2, <2>1, <2>2 DEF StoreNext
<1> QED BY <1>4, <1>5

\* A claim starts a turn that is claimable now, oldest or not.
ClaimsAny == \E t \in Turns, w \in Workers : StartTurn(t, w)

LEMMA FinishClaimStatement ==
  ASSUME PgInv, NEW p \in Conns, FinishClaim(p)
  PROVE  Kept /\ (ClaimsAny \/ UNCHANGED storeVars)
<1>1. log' = log /\ Return(p)
  BY DEF FinishClaim
<1>2. Kept
  BY <1>1, SameLog, ReturnKeeps
<1>3. stmt[p].w \in Workers /\ stmt[p].queue \in SUBSET Turns
  BY DEF FinishClaim, PgInv, PgTyped, WellCalled, StmtRecord
<1>4. CASE \E t \in StillFirst(stmt[p]) :
             /\ Running(turns[t].session) = {} /\ session[turns[t].session] # "ended"
             /\ turns' = [turns EXCEPT ![t].status = "running", ![t].age = 0,
                                       ![t].worker = stmt[p].w]
             /\ UNCHANGED <<session, messages>>
  <2> PICK t \in StillFirst(stmt[p]) :
             /\ Running(turns[t].session) = {} /\ session[turns[t].session] # "ended"
             /\ turns' = [turns EXCEPT ![t].status = "running", ![t].age = 0,
                                       ![t].worker = stmt[p].w]
             /\ UNCHANGED <<session, messages>>
    BY <1>4
  <2>1. t \in Turns /\ turns[t].status = "queued"
    BY <1>3 DEF StillFirst
  <2>2. StartTurn(t, stmt[p].w)
    BY <2>1 DEF StartTurn, Claimable
  <2> HIDE DEF StartTurn
  <2> QED BY <1>2, <1>3, <2>1, <2>2 DEF ClaimsAny
<1>5. CASE UNCHANGED storeVars
  BY <1>2, <1>5
<1> QED BY <1>4, <1>5 DEF FinishClaim

\* Ending a session may log an event that is not a once-only one.
LEMMA FinishEndStatement ==
  ASSUME PgInv, NEW p \in Conns, FinishEnd(p)
  PROVE  Kept /\ (EndsAnyhow \/ UNCHANGED storeVars)
<1>1. stmt[p].s \in Sessions /\ Return(p)
  BY DEF FinishEnd, PgInv, PgTyped, WellCalled
<1>2. log' = log \/ log' = [log EXCEPT ![stmt[p].s] = Append(@, None)]
  BY DEF FinishEnd
<1>3. Kept
  BY <1>1, <1>2, SameLog, LogGrows, ReturnKeeps
<1>4. EndsAnyhow \/ UNCHANGED storeVars
  BY <1>1 DEF FinishEnd, EndsAnyhow, storeVars
<1> QED BY <1>3, <1>4

\* Appending events changes no table of the turns; a once-only event is
\* appended when the log, as it is now, does not have it.
LEMMA FinishEventStatements ==
  ASSUME PgInv, NEW p \in Conns, FinishAppend(p) \/ FinishAppendOnce(p)
  PROVE  Kept /\ UNCHANGED storeVars
<1>1. /\ stmt[p].s \in Sessions /\ stmt[p] \in StmtRecord /\ WellCalled(stmt[p])
      /\ Fresh(log, stmt[p])
  BY DEF FinishAppend, FinishAppendOnce, PgInv, PgTyped, WellCalled
<1>2. CASE FinishAppend(p)
  <2>1. log' = log \/ log' = [log EXCEPT ![stmt[p].s] = Append(@, None)]
    BY <1>2 DEF FinishAppend
  <2> QED BY <1>1, <1>2, <2>1, SameLog, LogGrows, ReturnKeeps DEF FinishAppend
<1>3. CASE FinishAppendOnce(p)
  <2>1. CASE Return(p) /\ log' = log
    BY <1>3, <2>1, SameLog, ReturnKeeps DEF FinishAppendOnce
  <2>2. CASE /\ ~stmt[p].seen /\ EventKeyFree(stmt[p])
             /\ log' = [log EXCEPT ![stmt[p].s] = Append(@, stmt[p].t)] /\ Return(p)
    <3>1. stmt[p].t \in Turns /\ ~Logged(stmt[p].s, stmt[p].t)
      BY <1>1, <1>3, <2>2 DEF FinishAppendOnce, Fresh, EventKeyFree, Logged, WellCalled
    <3> QED BY <1>1, <1>3, <2>2, <3>1, LogGrows, ReturnKeeps DEF FinishAppendOnce
  <2>3. CASE /\ stmt' = [stmt EXCEPT ![p] = [Snapshot(stmt[p]) EXCEPT !.retries = @ + 1]]
             /\ log' = log
    <3> DEFINE x == [Snapshot(stmt[p]) EXCEPT !.retries = @ + 1]
    <3>1. x \in StmtRecord /\ WellCalled(x) /\ Fresh(log, x)
      BY <1>1, SnapshotFresh
    <3>2. stmt' = [stmt EXCEPT ![p] = x]
      BY <2>3
    <3> HIDE DEF x
    <3> QED BY <1>3, <2>3, <3>1, <3>2, SameLog, StmtChanges DEF Kept, FinishAppendOnce
  <2> QED BY <1>3, <2>1, <2>2, <2>3 DEF FinishAppendOnce
<1> QED BY <1>2, <1>3

\* Every step of the Postgres statements is a step of the atomic store, ends a
\* session, claims out of turn, or leaves the tables of the turns alone.
LEMMA PgStep ==
  ASSUME PgInv, [PgNext]_pgVars
  PROVE  Kept /\ (StoreNext \/ EndsAnyhow \/ ClaimsAny \/ UNCHANGED storeVars)
<1>1. CASE Immediate
  <2>1. StoreNext
    BY <1>1 DEF Immediate, StoreNext
  <2>2. log' = log /\ stmt' = stmt
    BY <1>1 DEF Immediate
  <2> QED BY <2>1, <2>2, SameLog DEF Kept, PgInv, PgTyped
<1>2. CASE UNCHANGED pgVars
  <2>1. log' = log /\ stmt' = stmt /\ UNCHANGED storeVars
    BY <1>2 DEF pgVars, storeVars
  <2> QED BY <2>1, SameLog DEF Kept, PgInv, PgTyped
<1> QED BY <1>1, <1>2, BeginSteps, FinishTurnStatements, FinishEndStatement,
       FinishEventStatements, FinishClaimStatement DEF PgNext

\* Ending a session anyhow keeps the types and the relations between rows.
LEMMA EndKeeps ==
  ASSUME TypeOK, Related, EndsAnyhow
  PROVE  TypeOK' /\ Related'
<1>1. TypeOK'
  BY DEF EndsAnyhow, TypeOK
<1>2. Related'
  BY AgeOnly DEF EndsAnyhow
<1> QED BY <1>1, <1>2

\* The invariant of the Postgres statements holds in every reachable state.
LEMMA PgInvariance == PgSpec => []PgInv
<1>1. PgInit => PgInv
  <2> SUFFICES ASSUME PgInit PROVE PgInv
    OBVIOUS
  <2>1. TypeOK
    BY DEF PgInit, StoreInit, TypeOK, NoTurn
  <2>2. Related
    BY NoneAssumption DEF PgInit, StoreInit, Related, OneRunningPerSession,
         TranscriptMatchesTurns, UniqueClientId, TurnsOf, Running, NoTurn
  <2>3. PgTyped
    BY NoStmtTyped DEF PgInit, PgTyped
  <2>4. OnceEventsOnce /\ \A p \in Conns : Fresh(log, stmt[p])
    BY NoStmtTyped DEF PgInit, OnceEventsOnce, Fresh
  <2> QED BY <2>1, <2>2, <2>3, <2>4 DEF PgInv
<1>2. PgInv /\ [PgNext]_pgVars => PgInv'
  <2> SUFFICES ASSUME PgInv, [PgNext]_pgVars PROVE PgInv'
    OBVIOUS
  <2>1. Kept /\ (StoreNext \/ EndsAnyhow \/ ClaimsAny \/ UNCHANGED storeVars)
    BY PgStep
  <2>2. TypeOK' /\ Related'
    BY <2>1, StepTypeOK, StepRelated, EndKeeps, StartTypeOK, StartRelated DEF PgInv, ClaimsAny
  <2> QED BY <2>1, <2>2 DEF PgInv, Kept
<1> QED BY <1>1, <1>2, PTL DEF PgSpec

\* What a statement may do to a row that was started.
LEMMA PgStepRow ==
  ASSUME TypeOK, StoreNext \/ EndsAnyhow \/ ClaimsAny, NEW t \in Turns,
         turns[t].worker # None
  PROVE  /\ turns'[t].worker = turns[t].worker
         /\ turns[t].status = "running" \/ turns'[t] = turns[t]
         /\ turns'[t].status # "queued"
<1>1. turns[t].status \in Started /\ turns[t].status # "queued"
  BY DEF TypeOK, Started
<1>2. CASE EndsAnyhow
  BY <1>1, <1>2 DEF EndsAnyhow
<1>3. CASE ClaimsAny
  <2> PICK u \in Turns, w \in Workers : StartTurn(u, w)
    BY <1>3 DEF ClaimsAny
  <2>1. turns'[t] = turns[t]
    BY <1>1 DEF StartTurn, Claimable, TypeOK
  <2> QED BY <1>1, <2>1
<1> QED BY <1>2, <1>3, StepRow

\* Claims that find a turn queued in an old snapshot, sweeps and late owners,
\* from any number of processes, never run a turn twice nor change its outcome.
THEOREM PgOutcomesAreFinal == PgSpec => PgOutcomesFinal
<1>1. PgInv /\ [PgNext]_pgVars =>
        [\A t \in Turns : turns[t].worker # None =>
           /\ turns'[t].worker = turns[t].worker
           /\ turns'[t].status # "queued"
           /\ turns[t].status # "running" => turns'[t].status # "running"]_storeVars
  BY PgStep, PgStepRow DEF PgInv
<1>2. PgInv /\ [PgNext]_pgVars =>
        [\A t \in Turns : turns[t].status \in {"completed", "failed"} =>
           turns'[t] = turns[t]]_storeVars
  <2> SUFFICES ASSUME PgInv, [PgNext]_pgVars, ~UNCHANGED storeVars, NEW t \in Turns,
                      turns[t].status \in {"completed", "failed"}
               PROVE  turns'[t] = turns[t]
    OBVIOUS
  <2>1. turns[t].worker # None /\ turns[t].status # "running"
    BY DEF PgInv, TypeOK
  <2> QED BY <2>1, PgStep, PgStepRow DEF PgInv
<1> QED BY <1>1, <1>2, PgInvariance, PTL
     DEF PgSpec, PgOutcomesFinal, NeverReplayed, TerminalIsFinal

\* Late snapshots, taken keys, retries and ended sessions leave one running turn
\* per session, a transcript that agrees with the turn table, one turn per
\* client id and one once-only event per turn.
THEOREM PgTurnsAreSafe == PgSpec => []PgTurnsSafe
<1>1. PgInv => PgTurnsSafe
  BY DEF PgInv, Related, PgTurnsSafe
<1> QED BY <1>1, PgInvariance, PTL
=============================================================================
