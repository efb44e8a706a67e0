---------------------------- MODULE PostgresStore -----------------------------
(***************************************************************************)
(* The tables of the Postgres store as several server processes write them *)
(* at READ COMMITTED: the turn queue first, then the approvals.  The two   *)
(* parts share no table.                                                   *)
(***************************************************************************)
EXTENDS TurnStore, FiniteSets

(***************************************************************************)
(* The statements of the Postgres store that wait for a session's advisory *)
(* lock, at READ COMMITTED, from several processes with a connection each. *)
(* A statement's snapshot is taken when it starts, the lock is granted     *)
(* later: rows it locks FOR UPDATE are then read as they are, everything   *)
(* else as the snapshot has it, and a key taken meanwhile is a violation.  *)
(* So each such statement is two actions, Begin and Finish.  So is the     *)
(* claim, which waits for nothing but skips what others have locked.  The  *)
(* statements that touch one row only are those of TurnStore.              *)
(***************************************************************************)
CONSTANTS
  Conns,         \* processes, one statement at a time each
  MaxRetries,    \* retries of an append_once (8 in the code)
  MaxLog         \* bound on a session's events

ASSUME PgAssumption == MaxRetries \in Nat /\ MaxLog \in Nat

VARIABLES
  log,    \* log[s]: session_events in seq order; the turn of a once-only
          \* event, None for any other event
  stmt    \* stmt[p]: the statement p is waiting in, with its snapshot

pgVars == <<storeVars, log, stmt>>

-----------------------------------------------------------------------------
NoStmt ==
  [op |-> "none", s |-> None, t |-> None, w |-> None, client |-> None,
   content |-> None, active |-> FALSE, next |-> 0, event |-> 0, seen |-> FALSE,
   retries |-> 0, queue |-> {}]

\* Does the log have the once-only event of turn t?
Logged(s, t) == \E i \in DOMAIN log[s] : log[s][i] = t

\* The parts of the database a waiting statement reads from its snapshot.
Snapshot(st) ==
  [st EXCEPT !.active = Open(st.s) # {}, !.next = Len(messages[st.s]) + 1,
             !.event = Len(log[st.s]) + 1, !.seen = Logged(st.s, st.t)]

Begin(p, st) ==
  /\ stmt[p] = NoStmt
  /\ stmt' = [stmt EXCEPT ![p] = Snapshot(st)]
  /\ UNCHANGED <<storeVars, log>>

BeginEnqueue(p, t, s, c, h) ==
  /\ turns[t] = NoTurn /\ \A q \in Conns : stmt[q].t # t
  /\ Begin(p, [NoStmt EXCEPT !.op = "enqueue", !.s = s, !.t = t, !.client = c, !.content = h])

BeginComplete(p, t, w) ==
  /\ Owns(t, w)
  /\ Begin(p, [NoStmt EXCEPT !.op = "complete", !.s = turns[t].session, !.t = t, !.w = w])

BeginEnd(p, s) ==
  \E op \in {"end", "endDream"} : Begin(p, [NoStmt EXCEPT !.op = op, !.s = s])

\* append_event_for_turn by anyone; append_event_for_turn_once for a turn.
BeginAppend(p, s) == Begin(p, [NoStmt EXCEPT !.op = "append", !.s = s])

BeginAppendOnce(p, t) ==
  /\ turns[t] # NoTurn
  /\ Begin(p, [NoStmt EXCEPT !.op = "once", !.s = turns[t].session, !.t = t])

\* claim_next_turn: its candidates are those of the snapshot; with none it
\* returns.
BeginClaim(p, w) ==
  /\ stmt[p] = NoStmt /\ Claimable # {}
  /\ stmt' = [stmt EXCEPT ![p] =
                [NoStmt EXCEPT !.op = "claim", !.w = w, !.queue = Claimable]]
  /\ UNCHANGED <<storeVars, log>>

-----------------------------------------------------------------------------
Return(p) == stmt' = [stmt EXCEPT ![p] = NoStmt]

\* (session_id, seq) of messages is a primary key.
MessageKeyFree(st) == Len(messages[st.s]) < st.next

EventKeyFree(st) == Len(log[st.s]) < st.event

\* enqueue_turn: sessions is locked, so its status is current; so is the row
\* that an equal client id conflicts with.  A taken message key is reported
\* as a conflict.
FinishEnqueue(p) ==
  LET st == stmt[p] IN
  /\ st.op = "enqueue"
  /\ \/ /\ MessageKeyFree(st)
        /\ \E now \in 1..MaxStamp : EnqueueTurn(st.t, st.s, st.client, st.content, now)
     \/ /\ \/ session[st.s] = "ended"
           \/ \E u \in TurnsOf(st.s) : turns[u].client = st.client
           \/ ~MessageKeyFree(st)
        /\ UNCHANGED storeVars
  /\ Return(p) /\ UNCHANGED log

\* complete_turn: the turn is locked and checked again.
FinishComplete(p) ==
  LET st == stmt[p] IN
  /\ st.op = "complete"
  /\ \/ MessageKeyFree(st) /\ CompleteTurn(st.t, st.w)
     \/ /\ ~Owns(st.t, st.w) \/ ~MessageKeyFree(st)
        /\ UNCHANGED storeVars
  /\ Return(p) /\ UNCHANGED log

\* Variant, not the code: the locked rows are taken as the snapshot has them.
StillFirstBlindly(st) == st.queue

\* Candidates of the snapshot that are still queued once their rows are locked,
\* each the oldest of its session.
StillFirst(st) ==
  LET left == {t \in st.queue : turns[t].status = "queued"} IN
  {t \in left : \A u \in left :
     turns[u].session = turns[t].session => turns[t].created <= turns[u].created}

\* The row of a session that another statement has locked is skipped, so any
\* candidate may be next, or none.  The session's status is read again; that
\* another turn of it runs by now is for the unique index to say.
FinishClaim(p) ==
  LET st == stmt[p] IN
  /\ st.op = "claim"
  /\ \/ \E t \in StillFirst(st) :
          /\ Running(turns[t].session) = {} /\ session[turns[t].session] # "ended"
          /\ turns' = [turns EXCEPT ![t].status = "running", ![t].age = 0, ![t].worker = st.w]
          /\ UNCHANGED <<session, messages>>
     \/ UNCHANGED storeVars
  /\ Return(p) /\ UNCHANGED log

\* end_session and end_session_and_enqueue_dream: the turns are looked at in
\* the snapshot; the second also takes the next event keys.
FinishEnd(p) ==
  LET st == stmt[p]
      logs == st.op = "endDream"
  IN /\ st.op \in {"end", "endDream"}
     /\ \/ /\ ~st.active /\ (logs => EventKeyFree(st) /\ Len(log[st.s]) < MaxLog)
           /\ session' = [session EXCEPT ![st.s] = "ended"]
           /\ log' = IF logs THEN [log EXCEPT ![st.s] = Append(@, None)] ELSE log
           /\ UNCHANGED <<turns, messages>>
        \/ /\ st.active \/ (logs /\ ~EventKeyFree(st))
           /\ UNCHANGED <<storeVars, log>>
     /\ Return(p)

\* append_event_for_turn: a taken event key is an error.
FinishAppend(p) ==
  LET st == stmt[p] IN
  /\ st.op = "append"
  /\ log' = IF EventKeyFree(st) /\ Len(log[st.s]) < MaxLog
            THEN [log EXCEPT ![st.s] = Append(@, None)] ELSE log
  /\ Return(p) /\ UNCHANGED storeVars

\* Variant, not the code: the retry keeps the snapshot's answer and only
\* takes the next free key.
FinishAppendOnceBlindly(p) ==
  LET st == stmt[p] IN
  /\ st.op = "once"
  /\ log' = IF ~st.seen /\ Len(log[st.s]) < MaxLog
            THEN [log EXCEPT ![st.s] = Append(@, st.t)] ELSE log
  /\ Return(p) /\ UNCHANGED storeVars

\* append_event_for_turn_once: returns the event the snapshot has, or inserts
\* it; when the key is taken it tries again with a new snapshot.
FinishAppendOnce(p) ==
  LET st == stmt[p] IN
  /\ st.op = "once"
  /\ \/ /\ st.seen /\ Return(p) /\ UNCHANGED log
     \/ /\ ~st.seen /\ EventKeyFree(st) /\ Len(log[st.s]) < MaxLog
        /\ log' = [log EXCEPT ![st.s] = Append(@, st.t)]
        /\ Return(p)
     \/ /\ ~st.seen /\ ~EventKeyFree(st) /\ st.retries < MaxRetries
        /\ stmt' = [stmt EXCEPT ![p] = [Snapshot(st) EXCEPT !.retries = @ + 1]]
        /\ UNCHANGED log
     \/ /\ ~st.seen /\ ~EventKeyFree(st) /\ st.retries = MaxRetries
        /\ Return(p) /\ UNCHANGED log
  /\ UNCHANGED storeVars

\* heartbeat_turn, fail_turn and the sweep check their conditions on the rows
\* they update.
Immediate ==
  /\ \/ \E t \in Turns, w \in Workers : HeartbeatTurn(t, w) \/ FailTurn(t, w)
     \/ FailStaleRunningTurns
     \/ Tick
  /\ UNCHANGED <<log, stmt>>

PgInit ==
  /\ StoreInit
  /\ log = [s \in Sessions |-> <<>>]
  /\ stmt = [p \in Conns |-> NoStmt]

PgNext ==
  \/ \E p \in Conns :
       \/ \E t \in Turns, s \in Sessions, c \in ClientIds, h \in Contents :
            BeginEnqueue(p, t, s, c, h)
       \/ \E t \in Turns, w \in Workers : BeginComplete(p, t, w)
       \/ \E s \in Sessions : BeginEnd(p, s) \/ BeginAppend(p, s)
       \/ \E t \in Turns : BeginAppendOnce(p, t)
       \/ \E w \in Workers : BeginClaim(p, w)
       \/ FinishEnqueue(p) \/ FinishComplete(p) \/ FinishEnd(p) \/ FinishClaim(p)
       \/ FinishAppend(p) \/ FinishAppendOnce(p)
  \/ Immediate

PgSpec == PgInit /\ [][PgNext]_pgVars

-----------------------------------------------------------------------------
(* Properties.                                                             *)

\* A turn runs once and its first outcome is its last, although claims of two
\* processes found it queued in their snapshots, sweeps fail it and its owner
\* completes it meanwhile.
PgOutcomesFinal == NeverReplayed /\ TerminalIsFinal

\* append_event_for_turn_once logs its event once per turn, although two
\* processes may both have looked for it in vain.
OnceEventsOnce ==
  \A s \in Sessions : \A i, j \in DOMAIN log[s] :
    log[s][i] = log[s][j] /\ log[s][i] # None => i = j

\* The turn queue's invariants that its statements keep.
PgTurnsSafe ==
  /\ OneRunningPerSession
  /\ TranscriptMatchesTurns
  /\ UniqueClientId
  /\ OnceEventsOnce

-----------------------------------------------------------------------------
(***************************************************************************)
(* Approvals, their effects, their audit rows and their events as the      *)
(* statements of the Postgres store write them, from several processes.    *)
(* A statement that numbers a session event reads the next number in the   *)
(* snapshot it starts with, then waits for the session's advisory lock:    *)
(* a number taken in between is a key violation and nothing is written.    *)
(* Rows it updates are checked again as they are.  A sweep is a select     *)
(* followed by one such statement per row it found.  Of the log only the   *)
(* number of events of each kind is kept, and of a number read in a        *)
(* snapshot whether it is still free.                                      *)
(***************************************************************************)
CONSTANTS
  Requests,        \* approval ids; one session
  Procs,           \* server processes, a statement at a time each
  NoProc,          \* no lease owner
  MaxEffectTries,  \* claims after which a failure is final (3 in the code)
  MaxEpochs        \* bound: leases of one effect

ASSUME PgApprovalAssumption ==
  /\ MaxEffectTries \in Nat \ {0} /\ MaxEpochs \in Nat
  /\ NoProc \notin Procs

VARIABLES
  rq,      \* rq[a]: the row of approval_requests
  ef,      \* ef[a]: the row of approval_effects
  audit,   \* idempotency keys of evolution_audits
  evs,     \* evs[a]: how many session_events of each kind are about a
  run      \* run[p]: what process p is in the middle of

pgaVars == <<rq, ef, audit, evs, run>>

-----------------------------------------------------------------------------
Verdicts == {"approved", "denied", "timed_out", "cancelled"}

\* stale: heartbeat_at is too old; due: expires_at has passed; bundled: written
\* by create_skill_approval_bundle; shown: request_event_seq is set.
NoRequest == [status |-> "none", resumable |-> FALSE, bundled |-> FALSE,
              stale |-> FALSE, due |-> FALSE, shown |-> FALSE]

\* plain: the effect_type is approval_resolution or approval_continuation, which
\* write nothing, so that there is no evolution metadata and no audit.
NoEffect == [status |-> "none", attempts |-> 0, epoch |-> 0, owner |-> NoProc,
             stale |-> FALSE, plain |-> FALSE]
Calm == [op |-> "none", a |-> {}, verdict |-> "none", free |-> FALSE, epoch |-> 0,
         list |-> {}]

NoEvents == [approval |-> 0, resolved |-> 0, proposal |-> 0]

PgaTypeOK ==
  /\ \A a \in Requests :
       /\ rq[a].status \in {"none", "pending"} \cup Verdicts
       /\ ef[a].status \in {"none", "blocked", "pending", "claimed", "applied", "failed"}
       /\ ef[a].attempts \in 0..MaxEpochs /\ ef[a].epoch \in 0..MaxEpochs
       /\ (ef[a].owner # NoProc) = (ef[a].status = "claimed")
  /\ evs \in [Requests -> [approval : 0..1, resolved : Nat, proposal : Nat]]
  /\ \A p \in Procs : run[p].op \in {"none", "resolve", "done", "sweep"}

PgaInit ==
  /\ rq = [a \in Requests |-> NoRequest]
  /\ ef = [a \in Requests |-> NoEffect]
  /\ audit = {} /\ evs = [a \in Requests |-> NoEvents]
  /\ run = [p \in Procs |-> Calm]

-----------------------------------------------------------------------------
\* Events were appended: the numbers in the open snapshots are taken.
NumbersTaken(r) == [q \in Procs |-> [r[q] EXCEPT !.free = FALSE]]

EnterStep(p, st) == run' = [run EXCEPT ![p] = st]
Write(p, st) == run' = NumbersTaken([run EXCEPT ![p] = st])

\* evolution_audit_record: only what would write something is audited.
Audited(plain, entry) == IF plain THEN {} ELSE {entry}

\* create_approval_request: request, blocked effect and audit in one statement.
PgCreate(a, resumable, plain) ==
  /\ rq[a].status = "none"
  /\ rq' = [rq EXCEPT ![a] = [NoRequest EXCEPT !.status = "pending",
                                               !.resumable = resumable]]
  /\ ef' = [ef EXCEPT ![a].status = "blocked", ![a].plain = plain]
  /\ audit' = audit \cup Audited(plain, <<a, "attempt">>)
  /\ UNCHANGED <<evs, run>>

\* create_skill_approval_bundle: one transaction whose number is read by a
\* statement of its own, after the lock.
PgBundle(a) ==
  /\ rq[a].status = "none"
  /\ rq' = [rq EXCEPT ![a] = [NoRequest EXCEPT !.status = "pending",
              !.resumable = TRUE, !.bundled = TRUE, !.shown = TRUE]]
  /\ ef' = [ef EXCEPT ![a].status = "blocked"]
  /\ audit' = audit \cup {<<a, "attempt">>}
  /\ evs' = [evs EXCEPT ![a].proposal = 1, ![a].approval = 1]
  /\ run' = NumbersTaken(run)

\* The approval event is appended, and linked by another statement.
PgAnnounce(a) ==
  /\ rq[a].status # "none" /\ evs[a].approval = 0
  /\ evs' = [evs EXCEPT ![a].approval = 1]
  /\ run' = NumbersTaken(run)
  /\ UNCHANGED <<rq, ef, audit>>

PgLink(a) ==
  /\ evs[a].approval = 1 /\ ~rq[a].shown
  /\ rq' = [rq EXCEPT ![a].shown = TRUE]
  /\ UNCHANGED <<ef, audit, evs, run>>

PgHeartbeat(a) ==
  /\ rq[a].status = "pending"
  /\ rq' = [rq EXCEPT ![a].stale = FALSE]
  /\ UNCHANGED <<ef, audit, evs, run>>

-----------------------------------------------------------------------------
(* Decisions. *)

BeginResolve(p, a, verdict) ==
  /\ run[p].op = "none" /\ rq[a].status # "none"
  /\ EnterStep(p, [Calm EXCEPT !.op = "resolve", !.a = {a}, !.verdict = verdict,
                           !.free = TRUE])
  /\ UNCHANGED <<rq, ef, audit, evs>>

\* The two sweeps select their candidates.
Candidates(verdict) ==
  {a \in Requests :
     /\ rq[a].status = "pending"
     /\ \/ verdict = "cancelled" /\ ~rq[a].resumable /\ rq[a].stale
        \/ verdict = "timed_out" /\ rq[a].due}

Sweep(p, verdict) ==
  /\ run[p].op = "none" /\ Candidates(verdict) # {}
  /\ EnterStep(p, [Calm EXCEPT !.op = "sweep", !.verdict = verdict,
                           !.list = Candidates(verdict)])
  /\ UNCHANGED <<rq, ef, audit, evs>>

SweepNext(p) ==
  /\ run[p].op = "sweep"
  /\ \E a \in run[p].list :
       EnterStep(p, [run[p] EXCEPT !.op = "resolve", !.a = {a}, !.free = TRUE,
                               !.list = @ \ {a}])
  /\ UNCHANGED <<rq, ef, audit, evs>>

\* After a row: a sweep goes on unless the statement failed.
Onward(p, failed) ==
  IF run[p].list = {} \/ failed THEN Calm
  ELSE [run[p] EXCEPT !.op = "sweep", !.a = {}, !.free = FALSE]

\* resolve_approval_request_with_event: only a pending row is resolved, and
\* with it go the event, the release of the effect and the audit.
FinishResolve(p) ==
  /\ run[p].op = "resolve"
  /\ LET a == CHOOSE b \in run[p].a : TRUE
         verdict == run[p].verdict
     IN \/ /\ rq[a].status = "pending" /\ run[p].free
           /\ rq' = [rq EXCEPT ![a].status = verdict]
           /\ ef' = [ef EXCEPT ![a].status = "pending"]
           /\ audit' = audit \cup Audited(ef[a].plain, <<a, verdict>>)
           /\ evs' = [evs EXCEPT ![a].resolved = @ + 1]
           /\ Write(p, Onward(p, FALSE))
        \/ /\ rq[a].status = "pending" /\ ~run[p].free
           /\ EnterStep(p, Onward(p, TRUE)) /\ UNCHANGED <<rq, ef, audit, evs>>
        \/ /\ rq[a].status # "pending"
           /\ EnterStep(p, Onward(p, FALSE)) /\ UNCHANGED <<rq, ef, audit, evs>>

-----------------------------------------------------------------------------
(* Effects.  A process that completes an effect holds its row meanwhile. *)

RowLocked(a) == \E q \in Procs : run[q].op = "done" /\ a \in run[q].a

PgClaim(p, a) ==
  /\ \/ ef[a].status = "pending"
     \/ ef[a].status = "claimed" /\ ef[a].stale
  /\ ~RowLocked(a) /\ ef[a].epoch < MaxEpochs
  /\ ef' = [ef EXCEPT ![a] = [status |-> "claimed", attempts |-> @.attempts + 1,
              epoch |-> @.epoch + 1, owner |-> p, stale |-> FALSE, plain |-> @.plain]]
  /\ UNCHANGED <<rq, audit, evs, run>>

\* Variant, not the code: a lease is known by its epoch alone.
LeasedByEpoch(p, a, epoch) == ef[a].epoch = epoch

Leased(p, a, epoch) ==
  ef[a].status = "claimed" /\ ef[a].owner = p /\ ef[a].epoch = epoch

PgHeartbeatEffect(p, a, epoch) ==
  /\ Leased(p, a, epoch) /\ ~RowLocked(a)
  /\ ef' = [ef EXCEPT ![a].stale = FALSE]
  /\ UNCHANGED <<rq, audit, evs, run>>

\* complete_approval_effect_with_event locks the leased row, then waits.
BeginDone(p, a, epoch) ==
  /\ run[p].op = "none" /\ Leased(p, a, epoch) /\ ~RowLocked(a) /\ ~ef[a].plain
  /\ EnterStep(p, [Calm EXCEPT !.op = "done", !.a = {a}, !.epoch = epoch,
                           !.free = TRUE])
  /\ UNCHANGED <<rq, ef, audit, evs>>

Dropped(e, status) == [e EXCEPT !.status = status, !.owner = NoProc, !.stale = FALSE]

FinishDone(p) ==
  /\ run[p].op = "done"
  /\ LET a == CHOOSE b \in run[p].a : TRUE IN
     \/ /\ run[p].free
        /\ ef' = [ef EXCEPT ![a] = Dropped(@, "applied")]
        /\ audit' = audit \cup {<<a, "applied">>}
        /\ evs' = [evs EXCEPT ![a].proposal = @ + 1]
        /\ Write(p, Calm)
     \/ ~run[p].free /\ EnterStep(p, Calm) /\ UNCHANGED <<ef, audit, evs>>
  /\ UNCHANGED rq

\* complete_approval_effect: a plain effect is one update, told to nobody.
PgComplete(p, a, epoch) ==
  /\ Leased(p, a, epoch) /\ ef[a].plain
  /\ ef' = [ef EXCEPT ![a] = Dropped(@, "applied")]
  /\ UNCHANGED <<rq, audit, evs, run>>

PgFailEffect(p, a, epoch) ==
  /\ Leased(p, a, epoch) /\ ~RowLocked(a)
  /\ ef' = [ef EXCEPT ![a] = Dropped(@,
              IF ef[a].attempts >= MaxEffectTries THEN "failed" ELSE "pending")]
  /\ audit' = audit \cup Audited(ef[a].plain, <<a, "failure", epoch>>)
  /\ UNCHANGED <<rq, evs, run>>

-----------------------------------------------------------------------------
\* Any other event of the session.
PgOther ==
  /\ \E q \in Procs : run[q].free
  /\ run' = NumbersTaken(run)
  /\ UNCHANGED <<rq, ef, audit, evs>>

\* Clocks: a heartbeat or a lease grows old, a request comes to its end.
PgElapse(a) ==
  /\ \/ rq[a].status = "pending" /\ rq' = [rq EXCEPT ![a].stale = TRUE] /\ UNCHANGED ef
     \/ rq[a].status = "pending" /\ rq' = [rq EXCEPT ![a].due = TRUE] /\ UNCHANGED ef
     \/ ef[a].status = "claimed" /\ ef' = [ef EXCEPT ![a].stale = TRUE] /\ UNCHANGED rq
  /\ UNCHANGED <<audit, evs, run>>

\* A process dies: its open statement is rolled back.
PgCrash(p) ==
  /\ run[p].op # "none"
  /\ EnterStep(p, Calm) /\ UNCHANGED <<rq, ef, audit, evs>>

PgaNext ==
  \/ \E a \in Requests :
       \/ \E r, plain \in BOOLEAN : PgCreate(a, r, plain)
       \/ PgBundle(a) \/ PgAnnounce(a) \/ PgLink(a) \/ PgHeartbeat(a) \/ PgElapse(a)
  \/ \E p \in Procs :
       \/ \E a \in Requests :
            \/ \E v \in {"approved", "denied"} : BeginResolve(p, a, v)
            \/ PgClaim(p, a)
            \/ \E n \in 1..MaxEpochs :
                 \/ PgHeartbeatEffect(p, a, n) \/ PgFailEffect(p, a, n)
                 \/ BeginDone(p, a, n) \/ PgComplete(p, a, n)
       \/ \E v \in {"timed_out", "cancelled"} : Sweep(p, v)
       \/ SweepNext(p) \/ FinishResolve(p) \/ FinishDone(p) \/ PgCrash(p)
  \/ PgOther

PgaSpec == PgaInit /\ [][PgaNext]_pgaVars

-----------------------------------------------------------------------------
\* Concurrent decisions, sweeps and a client's answer, leave one verdict: one
\* approval_resolved event if and only if the row is resolved, and then, of an
\* approval that is audited, that one verdict in the audit.
OneVerdict ==
  \A a \in Requests :
    LET verdict == {rq[a].status} \cap Verdicts
        said == {v \in Verdicts : <<a, v>> \in audit}
    IN /\ said = IF ef[a].plain THEN {} ELSE verdict
       /\ evs[a].resolved = Cardinality(verdict)

\* The terminal write_proposal event, the applied row and its audit agree; an
\* effect that writes nothing has neither event nor audit.
AppliedOnce ==
  \A a \in Requests :
    LET applied == IF ef[a].status = "applied" /\ ~ef[a].plain THEN 1 ELSE 0
        shown == IF rq[a].bundled THEN 1 ELSE 0
    IN /\ evs[a].proposal = applied + shown
       /\ <<a, "applied">> \in audit <=> applied = 1

\* What the statements of the approval tables keep.
PgApprovalsSafe ==
  /\ PgaTypeOK
  /\ OneVerdict
  /\ AppliedOnce
=============================================================================
