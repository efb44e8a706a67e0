-------------------------- MODULE TurnDispatchProofs --------------------------
(***************************************************************************)
(* Proofs about TurnDispatch for any sessions, turns, processes and        *)
(* runtimes: the dispatchers use the store as TurnStore allows, and no     *)
(* interpreter hands on the effects of a turn that was not completed.      *)
(***************************************************************************)
EXTENDS TurnDispatch, TurnStoreProofs

-----------------------------------------------------------------------------
(* The dispatchers implement the store's specification.                    *)

\* Every step of the dispatchers is a step of the store or leaves it alone.
LEMMA StepIsStoreStep == TypeOK /\ [Next]_vars => [StoreNext]_storeVars
<1> SUFFICES ASSUME TypeOK, [Next]_vars PROVE [StoreNext]_storeVars
  OBVIOUS
<1>1. ASSUME NEW t \in Turns, turns[t].status = "running"
      PROVE  turns[t].worker \in Workers
  BY <1>1 DEF TypeOK, TurnRecord, NoTurn
<1>2. CASE ClientStep
  BY <1>2 DEF ClientStep, StoreNext
<1>3. CASE Time
  BY <1>3 DEF Time, StoreNext
<1>4. ASSUME NEW w \in Workers,
             Start(w) \/ StartFails(w) \/ Claim(w) \/ PeriodicSweep(w)
               \/ Shutdown(w) \/ Drained(w) \/ Crash(w)
      PROVE  [StoreNext]_storeVars
  BY <1>4 DEF Start, NothingStale, StartFails, Claim, PeriodicSweep, Shutdown, Drained,
              Crash, StoreNext
<1>5. ASSUME NEW t \in Turns, TaskStep(t) \/ Heartbeat(t) \/ HeartbeatFails(t)
      PROVE  [StoreNext]_storeVars
  <2>1. CASE Complete(t)
    BY <2>1, <1>1 DEF Complete, CompleteTurn, Owns, StoreNext
  <2>2. CASE Fail(t)
    BY <2>2, <1>1 DEF Fail, FailTurn, Owns, StoreNext
  <2>3. CASE Heartbeat(t)
    BY <2>3, <1>1 DEF Heartbeat, HeartbeatTurn, Owns, StoreNext
  <2> QED BY <1>5, <2>1, <2>2, <2>3 DEF TaskStep, SubmitRun, BodyStepFails, BodyReturns,
                SendPromote, SendAbort, AbortDone, HeartbeatFails
<1>6. ASSUME NEW w \in Workers, NEW rt \in Runtimes,
             ShardStep(w, rt) \/ \E s \in Sessions : Evict(w, rt, s)
      PROVE  UNCHANGED storeVars
  BY <1>6 DEF ShardStep, ShardRun, ShardFinish, ShardPromote, ShardAbort, Evict
<1>7. CASE UNCHANGED vars
  BY <1>7 DEF vars, storeVars
<1> QED BY <1>2, <1>3, <1>4, <1>5, <1>6, <1>7 DEF Next

\* The processes, tasks and shards use the store only as its specification
\* allows, so that everything proved of the store holds of the whole service.
THEOREM DispatchImplementsStore == Spec => StoreSpec
<1>1. Init => StoreInit
  BY DEF Init
<1>2. StoreInit => TypeOK
  BY DEF StoreInit, TypeOK, NoTurn
<1> QED BY <1>1, <1>2, StepIsStoreStep, StepTypeOK, PTL DEF Spec, StoreSpec

\* What the turn queue promises its callers holds whatever the processes, their
\* tasks, their crashes and their late answers do.
THEOREM ServiceKeepsTheQueue == Spec => StoreCorrect
BY DispatchImplementsStore, StoreIsCorrect, PTL

-----------------------------------------------------------------------------
(* The inductive invariant.  A task that awaits a shard has exactly one      *)
(* request there, in the queue or running, so no reply can move a task that  *)
(* has gone on; and an interpreter carries an uncompleted turn only while    *)
(* that turn runs on it or is the one it is quarantined for.                 *)

Ops == {"run", "promote", "abort"}
Request == [op : Ops, turn : Turns]
TaskRecord ==
  [phase : Phases, rt : Runtimes \cup {None},
   todo : Suffixes(RuntimeOrder) \cup {<<rt>> : rt \in Runtimes},
   then : {"done", "fail"}, lost : BOOLEAN, cancelled : BOOLEAN]
Cached == [live : BOOLEAN, pending : Turns \cup {None}, carries : SUBSET Turns]

Typed ==
  /\ proc \in [Workers -> {"off", "up", "draining", "drained", "crashed"}]
  /\ task \in [Turns -> TaskRecord]
  /\ queue \in [Workers -> [Runtimes -> Seq(Request)]]
  /\ exec \in [Workers -> [Runtimes -> Turns \cup {None}]]
  /\ cache \in [Workers -> [Runtimes -> [Sessions -> Cached]]]

\* What the phase of a task says of its row and of the task itself.
Fits(row, k) ==
  /\ k.phase # "idle" => row.worker # None
  /\ k.phase \in {"wait", "post", "complete", "promote", "promoteWait"} => k.rt \in Runtimes
  /\ k.phase \in {"promote", "promoteWait"} => row.status = "completed"
  /\ k.phase = "abortWait" => k.todo # <<>>

\* The task awaits the reply to request op at shard rt of process w.
Awaits(row, k, op, w, rt) ==
  /\ row.worker = w
  /\ op = "run" => k.phase = "wait" /\ k.rt = rt
  /\ op = "promote" => k.phase = "promoteWait" /\ k.rt = rt
  /\ op = "abort" => k.phase = "abortWait" /\ Head(k.todo) = rt

Fitting == \A t \in Turns : Fits(turns[t], task[t])

Queued ==
  \A w \in Workers, rt \in Runtimes : \A i \in 1..Len(queue[w][rt]) :
    LET q == queue[w][rt][i] IN Awaits(turns[q.turn], task[q.turn], q.op, w, rt)

QueuedOnce ==
  \A w \in Workers, rt \in Runtimes : \A i, j \in 1..Len(queue[w][rt]) :
    queue[w][rt][i].turn = queue[w][rt][j].turn => i = j

Executing ==
  \A w \in Workers, rt \in Runtimes : exec[w][rt] # None =>
    LET t == exec[w][rt] IN
    /\ Awaits(turns[t], task[t], "run", w, rt)
    /\ \A i \in 1..Len(queue[w][rt]) : queue[w][rt][i].turn # t
    /\ cache[w][rt][turns[t].session].pending = None

Clean ==
  \A w \in Workers, rt \in Runtimes, s \in Sessions :
    \A u \in cache[w][rt][s].carries :
      \/ turns[u].status = "completed"
      \/ u = cache[w][rt][s].pending
      \/ u = exec[w][rt] /\ turns[u].session = s

DispatchInv == TypeOK /\ Typed /\ Fitting /\ Queued /\ QueuedOnce /\ Executing /\ Clean

\* The invariant says what the run checks.
LEMMA InvIsSafe == DispatchInv => DispatchSafe
<1> SUFFICES ASSUME DispatchInv PROVE DispatchSafe
  OBVIOUS
<1>1. DispatchTypeOK
  <2>1. ASSUME NEW w \in Workers, NEW rt \in Runtimes
        PROVE  /\ exec[w][rt] \in Turns \cup {None}
               /\ Range(queue[w][rt]) \subseteq [op : Ops, turn : Turns]
               /\ \A s \in Sessions : cache[w][rt][s] \in Cached
    <3>1. exec[w][rt] \in Turns \cup {None} /\ queue[w][rt] \in Seq(Request)
      BY DEF DispatchInv, Typed
    <3>2. ASSUME NEW s \in Seq(Request) PROVE Range(s) \subseteq Request
      BY DEF Range
    <3>3. \A s \in Sessions : cache[w][rt][s] \in Cached
      BY DEF DispatchInv, Typed
    <3> QED BY <3>1, <3>2, <3>3 DEF Request
  <2> QED BY <2>1 DEF DispatchInv, Typed, DispatchTypeOK, TaskRecord, Ops, Cached
<1>2. OnlyCompletedEffectsAreReused
  <2> SUFFICES ASSUME NEW w \in Workers, NEW rt \in Runtimes, NEW s \in Sessions,
                      NEW u \in cache[w][rt][s].carries
               PROVE  u \in Completed \cup {cache[w][rt][s].pending, exec[w][rt]}
    BY DEF OnlyCompletedEffectsAreReused
  <2>1. cache[w][rt][s] \in Cached
    BY DEF DispatchInv, Typed
  <2>2. u \in Turns
    BY <2>1 DEF Cached
  <2> QED BY <2>2 DEF DispatchInv, Clean, Completed
<1> QED BY <1>1, <1>2 DEF DispatchSafe

-----------------------------------------------------------------------------
\* A row that has a worker keeps it, and keeps its session; completed is final.
RowsKept ==
  \A t \in Turns : turns[t].worker # None =>
    /\ turns'[t].worker = turns[t].worker
    /\ turns'[t].session = turns[t].session
    /\ turns[t].status = "completed" => turns'[t].status = "completed"

\* A claimed turn keeps its worker and its session, and a completed one its status.
LEMMA StoreKeepsRows == TypeOK /\ [StoreNext]_storeVars => RowsKept
<1> SUFFICES ASSUME TypeOK, [StoreNext]_storeVars, NEW t \in Turns, turns[t].worker # None
             PROVE  /\ turns'[t].worker = turns[t].worker
                    /\ turns'[t].session = turns[t].session
                    /\ turns[t].status = "completed" => turns'[t].status = "completed"
  BY DEF RowsKept
<1>1. turns[t] \in TurnRecord /\ turns[t] # NoTurn
  BY DEF TypeOK, NoTurn
<1>2. CASE PostMessage
  BY <1>1, <1>2 DEF PostMessage, EnqueueTurn, TypeOK
<1>3. ASSUME NEW u \in Turns, NEW w \in Workers,
             ClaimNextTurn(u, w) \/ HeartbeatTurn(u, w) \/ CompleteTurn(u, w) \/ FailTurn(u, w)
      PROVE  /\ turns'[t].session = turns[t].session
             /\ turns[t].status = "completed" => turns'[t] = turns[t]
             /\ turns'[t].worker = turns[t].worker
  <2>1. turns[t].status # "queued"
    BY DEF TypeOK
  <2>2. CASE ClaimNextTurn(u, w)
    BY <2>1, <2>2, <1>1 DEF ClaimNextTurn, StartTurn, Claimable, TypeOK
  <2>3. CASE HeartbeatTurn(u, w)
    BY <2>3, <1>1 DEF HeartbeatTurn, Owns, TypeOK, TurnRecord
  <2>4. CASE CompleteTurn(u, w)
    BY <2>4, <1>1 DEF CompleteTurn, Owns, TypeOK, TurnRecord
  <2>5. CASE FailTurn(u, w)
    BY <2>5, <1>1 DEF FailTurn, Owns, TypeOK, TurnRecord
  <2> QED BY <1>3, <2>2, <2>3, <2>4, <2>5
<1>4. CASE FailStaleRunningTurns
  BY <1>1, <1>4 DEF FailStaleRunningTurns, Stale, TurnRecord
<1>5. CASE Tick
  BY <1>1, <1>5 DEF Tick, TurnRecord
<1>6. CASE \E s \in Sessions : EndSession(s)
  BY <1>6 DEF EndSession
<1>7. CASE UNCHANGED storeVars
  BY <1>7 DEF storeVars
<1> QED BY <1>2, <1>3, <1>4, <1>5, <1>6, <1>7 DEF StoreNext

-----------------------------------------------------------------------------
(* How the tasks and the shards move.                                      *)

Waiting == {"wait", "promoteWait", "abortWait"}

\* Rows and tasks move, but no task that awaits a shard; the shards stay.
LEMMA TasksMove ==
  ASSUME DispatchInv, TypeOK', Typed', RowsKept, UNCHANGED <<queue, exec, cache>>, Fitting',
         \A t \in Turns : task[t].phase \in Waiting =>
           /\ task'[t].phase = task[t].phase
           /\ task'[t].rt = task[t].rt /\ task'[t].todo = task[t].todo
  PROVE  DispatchInv'
<1>1. ASSUME NEW t \in Turns, NEW op \in Ops, NEW w \in Workers, NEW rt \in Runtimes,
             Awaits(turns[t], task[t], op, w, rt)
      PROVE  Awaits(turns'[t], task'[t], op, w, rt)
  BY <1>1, NoneAssumption DEF Awaits, RowsKept, Ops, Waiting
<1>2. Queued'
  <2> SUFFICES ASSUME NEW w \in Workers, NEW rt \in Runtimes, NEW i \in 1..Len(queue[w][rt])
               PROVE  Awaits(turns'[queue[w][rt][i].turn], task'[queue[w][rt][i].turn],
                             queue[w][rt][i].op, w, rt)
    BY DEF Queued
  <2>1. queue[w][rt][i] \in Request
    BY DEF DispatchInv, Typed
  <2> QED BY <1>1, <2>1 DEF DispatchInv, Queued, Request
<1>3. Executing'
  <2> SUFFICES ASSUME NEW w \in Workers, NEW rt \in Runtimes, exec[w][rt] # None
               PROVE  LET t == exec[w][rt] IN
                      /\ Awaits(turns'[t], task'[t], "run", w, rt)
                      /\ \A i \in 1..Len(queue[w][rt]) : queue[w][rt][i].turn # t
                      /\ cache[w][rt][turns'[t].session].pending = None
    BY DEF Executing
  <2>1. exec[w][rt] \in Turns
    BY DEF DispatchInv, Typed
  <2>2. turns'[exec[w][rt]].session = turns[exec[w][rt]].session
    BY <2>1, NoneAssumption DEF DispatchInv, Executing, Awaits, RowsKept
  <2> QED BY <1>1, <2>1, <2>2 DEF DispatchInv, Executing, Ops
<1>4. Clean'
  <2> SUFFICES ASSUME NEW w \in Workers, NEW rt \in Runtimes, NEW s \in Sessions,
                      NEW u \in cache[w][rt][s].carries
               PROVE  \/ turns'[u].status = "completed"
                      \/ u = cache[w][rt][s].pending
                      \/ u = exec[w][rt] /\ turns'[u].session = s
    BY DEF Clean
  <2>1. u \in Turns
    BY DEF DispatchInv, Typed, Cached
  <2>2. turns[u].status = "completed" => turns[u].worker # None
    BY <2>1 DEF DispatchInv, TypeOK
  <2>3. u = exec[w][rt] => turns[u].worker # None
    BY <2>1, NoneAssumption, DispatchAssumption DEF DispatchInv, Executing, Awaits
  <2> QED BY <2>1, <2>2, <2>3 DEF DispatchInv, Clean, RowsKept
<1> QED BY <1>2, <1>3, <1>4 DEF DispatchInv, QueuedOnce

\* One task moves, and it does not await a shard or still awaits the same.
LEMMA OneTaskMoves ==
  ASSUME DispatchInv, TypeOK', RowsKept, UNCHANGED <<proc, queue, exec, cache>>,
         NEW t \in Turns, NEW k \in TaskRecord, task' = [task EXCEPT ![t] = k],
         Fits(turns'[t], k),
         \/ task[t].phase \notin Waiting
         \/ k.phase = task[t].phase /\ k.rt = task[t].rt /\ k.todo = task[t].todo
  PROVE  DispatchInv'
<1>1. Typed'
  BY DEF DispatchInv, Typed
<1>2. task'[t] = k /\ \A u \in Turns \ {t} : task'[u] = task[u]
  BY DEF DispatchInv, Typed
<1>3. Fitting'
  BY <1>2 DEF DispatchInv, Fitting, Fits, RowsKept
<1> QED BY <1>1, <1>2, <1>3, TasksMove

-----------------------------------------------------------------------------
(* The task records the actions write.                                     *)

Todos == Suffixes(RuntimeOrder) \cup {<<rt>> : rt \in Runtimes}

\* What is left of a list of shards to abort is such a list.
LEMMA TodoTyped ==
  /\ RuntimeOrder \in Todos /\ <<>> \in Todos
  /\ \A rt \in Runtimes : <<rt>> \in Todos
  /\ \A todo \in Todos : todo # <<>> => Head(todo) \in Runtimes /\ Tail(todo) \in Todos
<1> DEFINE R == RuntimeOrder
<1>1. R \in Seq(Runtimes)
  BY DispatchAssumption DEF Runtimes
<1>2. R \in Todos
  <2>1. CASE R = <<>>
    BY <2>1 DEF Todos, Suffixes
  <2>2. CASE R # <<>>
    <3>1. Len(R) \in Nat \ {0} /\ R = SubSeq(R, 1, Len(R))
      BY <1>1, <2>2
    <3> QED BY <3>1 DEF Todos, Suffixes
  <2> QED BY <2>1, <2>2
<1>3. ASSUME NEW todo \in Suffixes(R), todo # <<>>
      PROVE  Head(todo) \in Runtimes /\ Tail(todo) \in Suffixes(R)
  <2>1. PICK l \in 1..Len(R) : todo = SubSeq(R, l, Len(R))
    BY <1>3 DEF Suffixes
  <2>2. Head(todo) = R[l]
    BY <1>1, <2>1
  <2>3. CASE l = Len(R)
    BY <1>1, <2>1, <2>2, <2>3 DEF Suffixes
  <2>4. CASE l # Len(R)
    <3>1. Tail(todo) = SubSeq(R, l + 1, Len(R))
      BY <1>1, <2>1, <2>4
    <3>2. l + 1 \in 1..Len(R)
      BY <1>1, <2>4
    <3>3. \A m \in 1..Len(R) : SubSeq(R, m, Len(R)) \in Suffixes(R)
      BY Zenon DEF Suffixes
    <3>4. Tail(todo) \in Suffixes(R)
      BY <3>1, <3>2, <3>3, Zenon
    <3>5. R[l] \in Runtimes
      BY <1>1
    <3> QED BY <2>2, <3>4, <3>5
  <2> QED BY <2>3, <2>4
<1>4. ASSUME NEW rt \in Runtimes
      PROVE  Head(<<rt>>) \in Runtimes /\ Tail(<<rt>>) \in Suffixes(R)
  BY DEF Suffixes
<1> QED BY <1>2, <1>3, <1>4 DEF Todos, Suffixes

\* A task just moved to a phase is typed.
LEMMA FreshTask ==
  ASSUME NEW ph \in Phases
  PROVE  Task(ph) \in TaskRecord /\ Task(ph).phase = ph
BY TodoTyped DEF Task, TaskRecord, Todos

AbortRecord(k, rts, nxt) == [k EXCEPT !.phase = "abort", !.todo = rts, !.then = nxt]

\* The task record while the shards are being told to abort.
LEMMA AbortTask ==
  ASSUME DispatchInv, NEW t \in Turns, NEW rts \in Todos, NEW nxt \in {"done", "fail"},
         AbortThen(t, rts, nxt)
  PROVE  LET k == AbortRecord(task[t], rts, nxt) IN
         /\ k \in TaskRecord /\ k.phase = "abort"
         /\ task' = [task EXCEPT ![t] = k]
<1>1. task[t] \in TaskRecord
  BY DEF DispatchInv, Typed
<1>2. AbortRecord(task[t], rts, nxt) \in TaskRecord
  BY <1>1 DEF AbortRecord, TaskRecord, Phases, Todos
<1> QED BY <1>1, <1>2 DEF AbortThen, AbortRecord, TaskRecord, DispatchInv, Typed

\* An abort begins for a task that awaits no shard.
LEMMA AbortMoves ==
  ASSUME DispatchInv, TypeOK', RowsKept, UNCHANGED <<proc, queue, exec, cache>>,
         NEW t \in Turns, task[t].phase \notin Waiting \cup {"idle"},
         NEW rts \in Todos, NEW nxt \in {"done", "fail"}, AbortThen(t, rts, nxt)
  PROVE  DispatchInv'
<1> DEFINE k == AbortRecord(task[t], rts, nxt)
<1>1. k \in TaskRecord /\ k.phase = "abort" /\ task' = [task EXCEPT ![t] = k]
  BY AbortTask
<1>2. Fits(turns'[t], k)
  BY <1>1 DEF DispatchInv, Fitting, Fits, RowsKept
<1> HIDE DEF k
<1> QED BY <1>1, <1>2, OneTaskMoves

-----------------------------------------------------------------------------
(* A task hands a request to a shard.                                      *)

\* Appending a request of a turn that has none keeps one request per turn.
LEMMA AppendRequest ==
  ASSUME NEW q \in Seq(Request), NEW r \in Request,
         \A i, j \in 1..Len(q) : q[i].turn = q[j].turn => i = j,
         \A i \in 1..Len(q) : q[i].turn # r.turn
  PROVE  /\ Append(q, r) \in Seq(Request)
         /\ \A i, j \in 1..Len(Append(q, r)) : Append(q, r)[i].turn = Append(q, r)[j].turn => i = j
         /\ \A i \in 1..Len(Append(q, r)) :
              Append(q, r)[i] = r \/ (i \in 1..Len(q) /\ Append(q, r)[i] = q[i])
OBVIOUS

\* A task sends one request to one shard and waits for it.
LEMMA RequestMoves ==
  ASSUME DispatchInv, UNCHANGED <<session, turns, messages, proc, exec, cache>>,
         NEW t \in Turns, NEW rt \in Runtimes, NEW op \in Ops, NEW k \in TaskRecord,
         task[t].phase \notin Waiting \cup {"idle"},
         task' = [task EXCEPT ![t] = k], Send(t, rt, op),
         Fits(turns[t], k), Awaits(turns[t], k, op, turns[t].worker, rt)
  PROVE  DispatchInv'
<1> DEFINE me == turns[t].worker
           r == [op |-> op, turn |-> t]
<1>1. me \in Workers
  BY DEF DispatchInv, TypeOK, Fitting, Fits, TurnRecord, NoTurn
<1>2. r \in Request /\ r.turn = t /\ r.op = op
  BY DEF Request
<1>3. task'[t] = k /\ \A u \in Turns \ {t} : task'[u] = task[u]
  BY DEF DispatchInv, Typed
<1>4. ASSUME NEW w \in Workers, NEW x \in Runtimes, NEW i \in 1..Len(queue[w][x])
      PROVE  queue[w][x][i] \in Request /\ queue[w][x][i].turn \in Turns \ {t}
  <2>1. queue[w][x][i] \in Request
    BY <1>4 DEF DispatchInv, Typed
  <2> QED BY <1>4, <2>1 DEF DispatchInv, Queued, Awaits, Request, Ops, Waiting
<1>5. /\ queue'[me][rt] = Append(queue[me][rt], r)
      /\ \A w \in Workers, x \in Runtimes :
           w # me \/ x # rt => queue'[w][x] = queue[w][x]
      /\ queue' \in [Workers -> [Runtimes -> Seq(Request)]]
  BY <1>1, <1>2 DEF Send, DispatchInv, Typed
<1>6. queue[me][rt] \in Seq(Request)
  BY <1>1 DEF DispatchInv, Typed
<1> DEFINE q == queue[me][rt]
           p == queue'[me][rt]
<1>7. /\ \A i, j \in 1..Len(p) : p[i].turn = p[j].turn => i = j
      /\ \A i \in 1..Len(p) : p[i] = r \/ (i \in 1..Len(q) /\ p[i] = q[i])
  <2>1. \A i, j \in 1..Len(q) : q[i].turn = q[j].turn => i = j
    BY <1>1 DEF DispatchInv, QueuedOnce
  <2>2. \A i \in 1..Len(q) : q[i].turn # r.turn
    BY <1>1, <1>2, <1>4
  <2>3. q \in Seq(Request) /\ r \in Request /\ p = Append(q, r)
    BY <1>2, <1>5, <1>6
  <2> HIDE DEF q, p, r
  <2> QED BY <2>1, <2>2, <2>3, AppendRequest
<1>8. TypeOK' /\ Typed'
  BY <1>5 DEF DispatchInv, TypeOK, Typed, TurnsOf
<1>9. Fitting'
  BY <1>3 DEF DispatchInv, Fitting
<1>10. Queued'
  <2> SUFFICES ASSUME NEW w \in Workers, NEW x \in Runtimes, NEW i \in 1..Len(queue'[w][x])
               PROVE  LET y == queue'[w][x][i] IN
                      Awaits(turns[y.turn], task'[y.turn], y.op, w, x)
    BY DEF Queued
  <2>1. CASE i \in 1..Len(queue[w][x]) /\ queue'[w][x][i] = queue[w][x][i]
    <3>1. queue[w][x][i].turn \in Turns \ {t}
      BY <1>4, <2>1
    <3> QED BY <1>3, <2>1, <3>1 DEF DispatchInv, Queued
  <2>2. CASE w = me /\ x = rt /\ queue'[w][x][i] = r
    BY <1>2, <1>3, <2>2
  <2> QED BY <1>5, <1>7, <2>1, <2>2
<1>11. QueuedOnce'
  <2> SUFFICES ASSUME NEW w \in Workers, NEW x \in Runtimes
               PROVE  \A i, j \in 1..Len(queue'[w][x]) :
                        queue'[w][x][i].turn = queue'[w][x][j].turn => i = j
    BY DEF QueuedOnce
  <2>1. CASE w = me /\ x = rt
    BY <2>1, <1>7
  <2>2. CASE w # me \/ x # rt
    <3>1. queue'[w][x] = queue[w][x]
      BY <2>2, <1>5
    <3> QED BY <3>1 DEF DispatchInv, QueuedOnce
  <2> QED BY <2>1, <2>2
<1>12. Executing'
  <2> SUFFICES ASSUME NEW w \in Workers, NEW x \in Runtimes, exec[w][x] # None
               PROVE  LET u == exec[w][x] IN
                      /\ Awaits(turns[u], task'[u], "run", w, x)
                      /\ \A i \in 1..Len(queue'[w][x]) : queue'[w][x][i].turn # u
                      /\ cache[w][x][turns[u].session].pending = None
    BY DEF Executing
  <2>1. exec[w][x] \in Turns /\ Awaits(turns[exec[w][x]], task[exec[w][x]], "run", w, x)
    BY DEF DispatchInv, Typed, Executing
  <2>2. exec[w][x] # t
    BY <2>1 DEF Awaits, Waiting
  <2>3. \A i \in 1..Len(queue[w][x]) : queue[w][x][i].turn # exec[w][x]
    BY DEF DispatchInv, Executing
  <2>4. ASSUME NEW i \in 1..Len(queue'[w][x]) PROVE queue'[w][x][i].turn # exec[w][x]
    BY <1>2, <1>5, <1>7, <2>2, <2>3, ZenonT(30)
  <2> QED BY <1>3, <2>1, <2>2, <2>4 DEF DispatchInv, Executing
<1>13. Clean'
  BY DEF DispatchInv, Clean
<1> QED BY <1>8, <1>9, <1>10, <1>11, <1>12, <1>13 DEF DispatchInv

-----------------------------------------------------------------------------
(* A shard takes the next request and answers it.                          *)

\* What is left of a queue once its head is taken.
LEMMA TailOf ==
  ASSUME NEW q \in Seq(Request), q # <<>>
  PROVE  /\ 1 \in 1..Len(q) /\ q[1] = Head(q) /\ q[1] \in Request
         /\ Tail(q) \in Seq(Request)
         /\ \A i \in 1..Len(Tail(q)) : i + 1 \in 2..Len(q) /\ Tail(q)[i] = q[i + 1]
OBVIOUS

\* A shard other than rt of w keeps its queue, and its interpreters.
Elsewhere(w, rt, f) == \A v \in Workers, x \in Runtimes : v # w \/ x # rt => f'[v][x] = f[v][x]

\* The request taken was the only one of its turn, and is awaited.
LEMMA PopTakes ==
  ASSUME DispatchInv, NEW w \in Workers, NEW rt \in Runtimes, NEW op \in Ops,
         Serves(w, rt, op), Pop(w, rt)
  PROVE  LET t == Head(queue[w][rt]).turn IN
         /\ t \in Turns
         /\ Awaits(turns[t], task[t], op, w, rt)
         /\ queue' \in [Workers -> [Runtimes -> Seq(Request)]]
         /\ \A v \in Workers, x \in Runtimes : \A i \in 1..Len(queue'[v][x]) :
              /\ queue'[v][x][i].turn # t
              /\ \E j \in 1..Len(queue[v][x]) : queue'[v][x][i] = queue[v][x][j]
         /\ QueuedOnce'
         /\ \A v \in Workers, x \in Runtimes : exec[v][x] # t
<1> DEFINE q == queue[w][rt]
           t == Head(q).turn
<1>1. q \in Seq(Request) /\ q # <<>> /\ Head(q).op = op
  BY DEF DispatchInv, Typed, Serves
<1>2. q[1] = Head(q) /\ 1 \in 1..Len(q) /\ q[1] \in Request /\ t \in Turns
  <2> HIDE DEF q
  <2>1. q[1] = Head(q) /\ 1 \in 1..Len(q) /\ q[1] \in Request
    BY <1>1, TailOf
  <2> QED BY <2>1 DEF Request
<1>3. Awaits(turns[t], task[t], op, w, rt)
  BY <1>1, <1>2 DEF DispatchInv, Queued
<1>4. /\ queue'[w][rt] = Tail(q) /\ Elsewhere(w, rt, queue)
      /\ queue' \in [Workers -> [Runtimes -> Seq(Request)]]
  <2>1. Tail(q) \in Seq(Request)
    <3> HIDE DEF q
    <3> QED BY <1>1, TailOf
  <2> QED BY <2>1 DEF Pop, DispatchInv, Typed, Elsewhere
<1>5. \A i \in 1..Len(Tail(q)) : i + 1 \in 2..Len(q) /\ Tail(q)[i] = q[i + 1]
  <2> HIDE DEF q
  <2> QED BY <1>1, TailOf
<1>6. ASSUME NEW v \in Workers, NEW x \in Runtimes, NEW i \in 1..Len(queue[v][x]),
             queue[v][x][i].turn = t
      PROVE  v = w /\ x = rt /\ i = 1
  <2>1. queue[v][x][i] \in Request
    BY <1>6 DEF DispatchInv, Typed
  <2>2. Awaits(turns[t], task[t], queue[v][x][i].op, v, x)
    BY <1>6 DEF DispatchInv, Queued
  <2>3. v = w /\ x = rt
    BY <1>3, <2>1, <2>2 DEF Awaits, Ops, Request
  <2> QED BY <1>2, <1>6, <2>3 DEF DispatchInv, QueuedOnce
<1>7. ASSUME NEW v \in Workers, NEW x \in Runtimes, exec[v][x] = t
      PROVE  FALSE
  <2>1. t # None /\ Awaits(turns[t], task[t], "run", v, x)
    BY <1>2, <1>7, DispatchAssumption DEF DispatchInv, Executing
  <2>2. v = w /\ x = rt
    BY <1>3, <2>1 DEF Awaits, Ops
  <2> QED BY <1>2, <1>7, <2>1, <2>2 DEF DispatchInv, Executing
<1>8. ASSUME NEW v \in Workers, NEW x \in Runtimes, NEW i \in 1..Len(queue'[v][x])
      PROVE  /\ queue'[v][x][i].turn # t
             /\ \E j \in 1..Len(queue[v][x]) : queue'[v][x][i] = queue[v][x][j]
  <2>1. CASE v = w /\ x = rt
    <3>1. i + 1 \in 2..Len(q) /\ queue'[v][x][i] = q[i + 1]
      BY <1>4, <1>8, <1>5, <2>1
    <3> QED BY <1>6, <2>1, <3>1
  <2>2. CASE v # w \/ x # rt
    BY <1>4, <1>6, <1>8, <2>2 DEF Elsewhere
  <2> QED BY <2>1, <2>2
<1>9. ASSUME NEW v \in Workers, NEW x \in Runtimes,
             NEW i \in 1..Len(queue'[v][x]), NEW j \in 1..Len(queue'[v][x]),
             queue'[v][x][i].turn = queue'[v][x][j].turn
      PROVE  i = j
  <2>1. CASE v = w /\ x = rt
    <3>1. /\ i + 1 \in 2..Len(q) /\ queue'[v][x][i] = q[i + 1]
          /\ j + 1 \in 2..Len(q) /\ queue'[v][x][j] = q[j + 1]
      BY <1>4, <1>9, <1>5, <2>1
    <3>2. i + 1 = j + 1
      BY <1>9, <2>1, <3>1 DEF DispatchInv, QueuedOnce
    <3> QED BY <3>2
  <2>2. CASE v # w \/ x # rt
    BY <1>4, <1>9, <2>2 DEF Elsewhere, DispatchInv, QueuedOnce
  <2> QED BY <2>1, <2>2
<1>10. QueuedOnce'
  BY <1>9 DEF QueuedOnce
<1> HIDE DEF q
<1> QED BY <1>2, <1>3, <1>4, <1>7, <1>8, <1>10 DEF q

\* The shard answers: the task goes on, the interpreters of this shard may change.
LEMMA ReplyMoves ==
  ASSUME DispatchInv, UNCHANGED <<session, turns, messages, proc, exec>>,
         NEW w \in Workers, NEW rt \in Runtimes, NEW op \in Ops,
         Serves(w, rt, op), Pop(w, rt), NEW k \in TaskRecord,
         task' = [task EXCEPT ![Head(queue[w][rt]).turn] = k],
         Fits(turns[Head(queue[w][rt]).turn], k),
         Typed', Elsewhere(w, rt, cache), Clean'
  PROVE  DispatchInv'
<1> DEFINE t == Head(queue[w][rt]).turn
<1>1. /\ t \in Turns
      /\ Awaits(turns[t], task[t], op, w, rt)
      /\ \A v \in Workers, x \in Runtimes : \A i \in 1..Len(queue'[v][x]) :
           /\ queue'[v][x][i].turn # t
           /\ \E j \in 1..Len(queue[v][x]) : queue'[v][x][i] = queue[v][x][j]
      /\ QueuedOnce'
      /\ \A v \in Workers, x \in Runtimes : exec[v][x] # t
  BY PopTakes, Zenon
<1> HIDE DEF t
<1>2. task'[t] = k /\ \A u \in Turns \ {t} : task'[u] = task[u]
  BY <1>1 DEF DispatchInv, Typed, t
<1>3. TypeOK'
  BY DEF DispatchInv, TypeOK
<1>4. Fitting'
  BY <1>2 DEF DispatchInv, Fitting, t
<1>5. Queued'
  <2> SUFFICES ASSUME NEW v \in Workers, NEW x \in Runtimes, NEW i \in 1..Len(queue'[v][x])
               PROVE  LET q == queue'[v][x][i] IN
                      Awaits(turns[q.turn], task'[q.turn], q.op, v, x)
    BY DEF Queued
  <2>1. PICK j \in 1..Len(queue[v][x]) : queue'[v][x][i] = queue[v][x][j]
    BY <1>1
  <2>2. queue[v][x][j] \in Request
    BY DEF DispatchInv, Typed
  <2>3. queue[v][x][j].turn \in Turns \ {t}
    BY <1>1, <2>1, <2>2 DEF Request
  <2> QED BY <1>2, <2>1, <2>3 DEF DispatchInv, Queued
<1>6. Executing'
  <2> SUFFICES ASSUME NEW v \in Workers, NEW x \in Runtimes, exec[v][x] # None
               PROVE  LET u == exec[v][x] IN
                      /\ Awaits(turns[u], task'[u], "run", v, x)
                      /\ \A i \in 1..Len(queue'[v][x]) : queue'[v][x][i].turn # u
                      /\ cache'[v][x][turns[u].session].pending = None
    BY DEF Executing
  <2>1. v # w \/ x # rt
    BY DEF Serves
  <2>2. exec[v][x] \in Turns \ {t}
    BY <1>1 DEF DispatchInv, Typed
  <2>3. \A i \in 1..Len(queue'[v][x]) : queue'[v][x][i].turn # exec[v][x]
    BY <1>1, SMTT(30) DEF DispatchInv, Executing
  <2>4. cache'[v][x] = cache[v][x]
    BY <2>1 DEF Elsewhere
  <2>5. /\ Awaits(turns[exec[v][x]], task[exec[v][x]], "run", v, x)
        /\ cache[v][x][turns[exec[v][x]].session].pending = None
    BY DEF DispatchInv, Executing
  <2>6. task'[exec[v][x]] = task[exec[v][x]]
    BY <1>2, <2>2
  <2> QED BY <2>3, <2>4, <2>5, <2>6
<1> QED BY <1>1, <1>3, <1>4, <1>5, <1>6 DEF DispatchInv

\* One interpreter is replaced by a record of the cache.
LEMMA CacheUpdate ==
  ASSUME DispatchInv, NEW w \in Workers, NEW rt \in Runtimes, NEW s \in Sessions,
         NEW c \in Cached, cache' = [cache EXCEPT ![w][rt][s] = c]
  PROVE  /\ cache' \in [Workers -> [Runtimes -> [Sessions -> Cached]]]
         /\ Elsewhere(w, rt, cache) /\ cache'[w][rt][s] = c
         /\ \A r \in Sessions \ {s} : cache'[w][rt][r] = cache[w][rt][r]
<1>1. cache \in [Workers -> [Runtimes -> [Sessions -> Cached]]]
  BY DEF DispatchInv, Typed
<1>2. cache' = [cache EXCEPT ![w] = [cache[w] EXCEPT ![rt] = [cache[w][rt] EXCEPT ![s] = c]]]
  BY <1>1
<1> QED BY <1>1, <1>2 DEF Elsewhere

\* The rows, sessions and workers of the turns that are at a shard.
LEMMA RowAtShard ==
  ASSUME DispatchInv, NEW t \in Turns, NEW op, NEW w \in Workers, NEW rt \in Runtimes,
         Awaits(turns[t], task[t], op, w, rt)
  PROVE  turns[t].session \in Sessions
BY NoneAssumption DEF DispatchInv, TypeOK, Awaits, TurnRecord, NoTurn

\* A shard keeps or drops the interpreter of a finished turn.
LEMMA PromoteStep ==
  ASSUME DispatchInv, NEW w \in Workers, NEW rt \in Runtimes, ShardPromote(w, rt)
  PROVE  DispatchInv'
<1> DEFINE t == Head(queue[w][rt]).turn
           s == turns[t].session
           c == cache[w][rt][s]
<1>1. Serves(w, rt, "promote") /\ Pop(w, rt) /\ "promote" \in Ops
  BY DEF ShardPromote, Ops
<1>2. t \in Turns /\ Awaits(turns[t], task[t], "promote", w, rt)
         /\ queue' \in [Workers -> [Runtimes -> Seq(Request)]]
  BY <1>1, PopTakes, Zenon
<1>3. turns[t].status = "completed" /\ turns[t].worker # None
  BY <1>2 DEF DispatchInv, Fitting, Fits, Awaits
<1>4. s \in Sessions /\ c \in Cached
  <2>1. s \in Sessions
    BY <1>2, RowAtShard
  <2> QED BY <2>1 DEF DispatchInv, Typed
<1>5. UNCHANGED <<session, turns, messages, proc, exec>>
  BY DEF ShardPromote, storeVars
<1>6. CASE AbortThen(t, <<rt>>, "done") /\ UNCHANGED cache
  <2> DEFINE k == AbortRecord(task[t], <<rt>>, "done")
  <2>1. k \in TaskRecord /\ k.phase = "abort" /\ task' = [task EXCEPT ![t] = k]
    BY <1>2, <1>6, AbortTask, TodoTyped
  <2>2. Fits(turns[t], k)
    BY <1>3, <2>1 DEF Fits
  <2> HIDE DEF k
  <2>3. Typed' /\ Elsewhere(w, rt, cache) /\ Clean'
    BY <1>2, <1>5, <1>6, <2>1 DEF DispatchInv, Typed, Elsewhere, Clean
  <2> QED BY <1>1, <1>5, <2>1, <2>2, <2>3, ReplyMoves
<1>7. CASE /\ ~(c.live /\ c.pending \notin {None, t})
           /\ cache' = [cache EXCEPT ![w][rt][s] =
                          IF c.live THEN Interpreter(None, c.carries) ELSE c]
           /\ task' = [task EXCEPT ![t] = Task("done")]
  <2> DEFINE d == IF c.live THEN Interpreter(None, c.carries) ELSE c
  <2>1. /\ d \in Cached /\ d.carries = c.carries
        /\ c.pending = d.pending \/ c.pending = t \/ c.pending = None
    BY <1>4, <1>7 DEF Cached, Interpreter
  <2>2. /\ cache' \in [Workers -> [Runtimes -> [Sessions -> Cached]]]
        /\ Elsewhere(w, rt, cache) /\ cache'[w][rt][s] = d
        /\ \A r \in Sessions \ {s} : cache'[w][rt][r] = cache[w][rt][r]
    <3> HIDE DEF d
    <3>1. cache' = [cache EXCEPT ![w][rt][s] = d]
      BY <1>7 DEF d
    <3> HIDE DEF s
    <3> QED BY <1>4, <2>1, <3>1, CacheUpdate
  <2>3. Task("done") \in TaskRecord /\ Fits(turns[t], Task("done"))
    BY <1>3, FreshTask DEF Phases, Fits
  <2>4. Typed'
    BY <1>2, <1>5, <1>7, <2>2, <2>3 DEF DispatchInv, Typed
  <2>5. Clean'
    <3> SUFFICES ASSUME NEW v \in Workers, NEW x \in Runtimes, NEW r \in Sessions,
                        NEW u \in cache'[v][x][r].carries
                 PROVE  \/ turns[u].status = "completed"
                        \/ u = cache'[v][x][r].pending
                        \/ u = exec[v][x] /\ turns[u].session = r
      BY <1>5 DEF Clean
    <3>1. CASE cache'[v][x][r] = cache[v][x][r]
      BY <3>1 DEF DispatchInv, Clean
    <3>2. CASE v = w /\ x = rt /\ r = s
      <4>1. u \in Turns /\ u \in c.carries
        BY <3>2, <1>4, <2>1, <2>2 DEF Cached
      <4>2. u = t \/ turns[u].status = "completed" \/ u = d.pending
        <5>1. exec[w][rt] = None /\ u # None
          BY <1>1, <4>1, DispatchAssumption DEF Serves
        <5>2. turns[u].status = "completed" \/ u = c.pending \/ u = exec[w][rt]
          <6>1. Clean /\ s \in Sessions
            BY <1>4 DEF DispatchInv
          <6> HIDE DEF s
          <6> QED BY <4>1, <6>1 DEF Clean
        <5> HIDE DEF t, c, d
        <5> QED BY <2>1, <5>1, <5>2
      <4> QED BY <1>3, <2>2, <3>2, <4>2
    <3> QED BY <2>2, <3>1, <3>2 DEF Elsewhere
  <2> QED BY <1>1, <1>5, <1>7, <2>2, <2>3, <2>4, <2>5, ReplyMoves
<1> QED BY <1>6, <1>7 DEF ShardPromote

\* A shard drops the interpreter of an aborted turn.
LEMMA AbortStep ==
  ASSUME DispatchInv, NEW w \in Workers, NEW rt \in Runtimes, ShardAbort(w, rt)
  PROVE  DispatchInv'
<1> DEFINE t == Head(queue[w][rt]).turn
           s == turns[t].session
           k == [task[t] EXCEPT !.phase = "abort", !.todo = Tail(@)]
<1>1. Serves(w, rt, "abort") /\ Pop(w, rt) /\ "abort" \in Ops
  BY DEF ShardAbort, Ops
<1>2. t \in Turns /\ Awaits(turns[t], task[t], "abort", w, rt)
         /\ queue' \in [Workers -> [Runtimes -> Seq(Request)]]
  BY <1>1, PopTakes, Zenon
<1>3. s \in Sessions
  BY <1>2, RowAtShard
<1>4. UNCHANGED <<session, turns, messages, proc, exec>>
  BY DEF ShardAbort, storeVars
<1>5. task[t] \in TaskRecord /\ task[t].todo # <<>> /\ turns[t].worker # None
  BY <1>2 DEF DispatchInv, Typed, Fitting, Fits, Awaits
<1>6. k \in TaskRecord /\ k.phase = "abort"
  <2>1. Tail(task[t].todo) \in Todos
    BY <1>5, TodoTyped DEF TaskRecord, Todos
  <2> QED BY <1>5, <2>1 DEF TaskRecord, Phases, Todos
<1>7. task' = [task EXCEPT ![t] = k]
  BY <1>2, <1>5 DEF ShardAbort, DispatchInv, Typed
<1>8. Fits(turns[t], k)
  BY <1>5, <1>6 DEF Fits
<1>9. /\ cache' \in [Workers -> [Runtimes -> [Sessions -> Cached]]]
      /\ Elsewhere(w, rt, cache)
      /\ \A r \in Sessions : cache'[w][rt][r] \in {cache[w][rt][r], NoInterpreter}
  <2>1. CASE cache' = cache
    BY <2>1 DEF DispatchInv, Typed, Elsewhere
  <2>2. CASE cache' = [cache EXCEPT ![w][rt][s] = NoInterpreter]
    <3>1. NoInterpreter \in Cached
      BY DEF NoInterpreter, Cached
    <3> HIDE DEF s
    <3>2. /\ cache' \in [Workers -> [Runtimes -> [Sessions -> Cached]]]
          /\ Elsewhere(w, rt, cache) /\ cache'[w][rt][s] = NoInterpreter
          /\ \A r \in Sessions \ {s} : cache'[w][rt][r] = cache[w][rt][r]
      BY <1>3, <2>2, <3>1, CacheUpdate
    <3> QED BY <3>2
  <2> QED BY <2>1, <2>2 DEF ShardAbort
<1> HIDE DEF k
<1>10. Typed'
  BY <1>2, <1>4, <1>6, <1>7, <1>9 DEF DispatchInv, Typed
<1>11. Clean'
  <2> SUFFICES ASSUME NEW v \in Workers, NEW x \in Runtimes, NEW r \in Sessions,
                      NEW u \in cache'[v][x][r].carries
               PROVE  /\ cache'[v][x][r] = cache[v][x][r]
    BY <1>4 DEF Clean, DispatchInv
  <2> QED BY <1>9 DEF Elsewhere, NoInterpreter
<1> QED BY <1>1, <1>4, <1>6, <1>7, <1>8, <1>9, <1>10, <1>11, ReplyMoves

\* A shard starts a turn on the interpreter of its session.
LEMMA RunStep ==
  ASSUME DispatchInv, NEW w \in Workers, NEW rt \in Runtimes, ShardRun(w, rt)
  PROVE  DispatchInv'
<1> DEFINE t == Head(queue[w][rt]).turn
           s == turns[t].session
           c == cache[w][rt][s]
<1>1. Serves(w, rt, "run") /\ Pop(w, rt) /\ "run" \in Ops
  BY DEF ShardRun, Ops
<1>2. /\ t \in Turns
      /\ Awaits(turns[t], task[t], "run", w, rt)
      /\ queue' \in [Workers -> [Runtimes -> Seq(Request)]]
      /\ \A v \in Workers, x \in Runtimes : \A i \in 1..Len(queue'[v][x]) :
           /\ queue'[v][x][i].turn # t
           /\ \E j \in 1..Len(queue[v][x]) : queue'[v][x][i] = queue[v][x][j]
      /\ QueuedOnce'
      /\ \A v \in Workers, x \in Runtimes : exec[v][x] # t
  BY <1>1, PopTakes, Zenon
<1>3. s \in Sessions
  BY <1>2, RowAtShard
<1>4. UNCHANGED <<session, turns, messages, proc, task>>
  BY DEF ShardRun, storeVars
<1>5. /\ exec'[w][rt] = t /\ Elsewhere(w, rt, exec)
      /\ exec' \in [Workers -> [Runtimes -> Turns \cup {None}]]
  BY <1>2 DEF ShardRun, DispatchInv, Typed, Elsewhere
<1>6. exec[w][rt] = None
  BY <1>1 DEF Serves
<1>7. PICK fresh \in BOOLEAN :
        /\ fresh \/ Settled(c)
        /\ cache' = [cache EXCEPT ![w][rt][s] =
                       Interpreter(None, IF fresh THEN {t} ELSE c.carries \cup {t})]
  BY DEF ShardRun
<1> DEFINE d == Interpreter(None, IF fresh THEN {t} ELSE c.carries \cup {t})
<1>8. c \in Cached
  BY <1>3 DEF DispatchInv, Typed
<1>9. /\ d \in Cached /\ d.pending = None
      /\ \A u \in d.carries : u = t \/ (u \in c.carries /\ c.pending = None)
  BY <1>2, <1>7, <1>8 DEF Cached, Interpreter, Settled
<1>10. /\ cache' \in [Workers -> [Runtimes -> [Sessions -> Cached]]]
       /\ Elsewhere(w, rt, cache) /\ cache'[w][rt][s] = d
       /\ \A r \in Sessions \ {s} : cache'[w][rt][r] = cache[w][rt][r]
  <2>1. cache' = [cache EXCEPT ![w][rt][s] = d]
    BY <1>7
  <2> HIDE DEF d, s
  <2> QED BY <1>3, <1>9, <2>1, CacheUpdate
<1> HIDE DEF t, d
<1>11. TypeOK' /\ Typed' /\ Fitting'
  BY <1>2, <1>4, <1>5, <1>10 DEF DispatchInv, TypeOK, Typed, Fitting
<1>12. Queued'
  <2> SUFFICES ASSUME NEW v \in Workers, NEW x \in Runtimes, NEW i \in 1..Len(queue'[v][x])
               PROVE  LET q == queue'[v][x][i] IN
                      Awaits(turns[q.turn], task[q.turn], q.op, v, x)
    BY <1>4 DEF Queued
  <2> QED BY <1>2 DEF DispatchInv, Queued
<1>13. Executing'
  <2> SUFFICES ASSUME NEW v \in Workers, NEW x \in Runtimes, exec'[v][x] # None
               PROVE  LET u == exec'[v][x] IN
                      /\ Awaits(turns[u], task[u], "run", v, x)
                      /\ \A i \in 1..Len(queue'[v][x]) : queue'[v][x][i].turn # u
                      /\ cache'[v][x][turns[u].session].pending = None
    BY <1>4 DEF Executing
  <2>1. CASE v = w /\ x = rt
    BY <1>2, <1>5, <1>9, <1>10, <2>1
  <2>2. CASE v # w \/ x # rt
    <3>1. exec'[v][x] = exec[v][x] /\ cache'[v][x] = cache[v][x]
      BY <1>5, <1>10, <2>2 DEF Elsewhere
    <3>2. \A i \in 1..Len(queue'[v][x]) : queue'[v][x][i].turn # exec[v][x]
      <4>1. \A i \in 1..Len(queue[v][x]) : queue[v][x][i].turn # exec[v][x]
        BY <3>1 DEF DispatchInv, Executing
      <4>2. ASSUME NEW i \in 1..Len(queue'[v][x])
            PROVE  \E j \in 1..Len(queue[v][x]) : queue'[v][x][i] = queue[v][x][j]
        BY <1>2
      <4> QED BY <4>1, <4>2
    <3> QED BY <3>1, <3>2 DEF DispatchInv, Executing
  <2> QED BY <2>1, <2>2
<1>14. Clean'
  <2> SUFFICES ASSUME NEW v \in Workers, NEW x \in Runtimes, NEW r \in Sessions,
                      NEW u \in cache'[v][x][r].carries
               PROVE  \/ turns[u].status = "completed"
                      \/ u = cache'[v][x][r].pending
                      \/ u = exec'[v][x] /\ turns[u].session = r
    BY <1>4 DEF Clean
  <2>1. CASE v # w \/ x # rt
    <3>1. exec'[v][x] = exec[v][x] /\ cache'[v][x] = cache[v][x]
      BY <1>5, <1>10, <2>1 DEF Elsewhere
    <3> QED BY <3>1 DEF DispatchInv, Clean
  <2>2. CASE v = w /\ x = rt /\ r # s
    <3>1. u \in cache[v][x][r].carries /\ cache'[v][x][r] = cache[v][x][r]
      BY <1>10, <2>2
    <3>2. u # None
      BY <3>1, DispatchAssumption DEF DispatchInv, Typed, Cached
    <3> QED BY <1>6, <2>2, <3>1, <3>2 DEF DispatchInv, Clean
  <2>3. CASE v = w /\ x = rt /\ r = s
    <3>1. CASE u = t
      BY <1>5, <2>3, <3>1
    <3>2. CASE u # t
      <4>1. u \in c.carries /\ c.pending = None
        BY <1>9, <1>10, <2>3, <3>2
      <4>2. u # None
        BY <4>1, <1>8, DispatchAssumption DEF Cached
      <4> QED BY <1>3, <1>6, <4>1, <4>2 DEF DispatchInv, Clean
    <3> QED BY <3>1, <3>2
  <2> QED BY <2>1, <2>2, <2>3
<1> QED BY <1>2, <1>11, <1>12, <1>13, <1>14 DEF DispatchInv

\* The interpreter ends its turn and the shard answers.
LEMMA FinishStep ==
  ASSUME DispatchInv, NEW w \in Workers, NEW rt \in Runtimes, ShardFinish(w, rt)
  PROVE  DispatchInv'
<1> DEFINE t == exec[w][rt]
           s == turns[t].session
           c == cache[w][rt][s]
<1>1. /\ t \in Turns /\ t # None
      /\ Awaits(turns[t], task[t], "run", w, rt)
      /\ \A i \in 1..Len(queue[w][rt]) : queue[w][rt][i].turn # t
      /\ c.pending = None
  <2>1. t # None
    BY DEF ShardFinish
  <2>2. t \in Turns
    <3>1. exec[w][rt] \in Turns \cup {None}
      BY DEF DispatchInv, Typed
    <3> QED BY <2>1, <3>1
  <2>3. Executing
    BY DEF DispatchInv
  <2> QED BY <2>1, <2>2, <2>3, Zenon DEF Executing
<1>2. s \in Sessions
  BY <1>1, RowAtShard
<1>3. c \in Cached
  BY <1>2 DEF DispatchInv, Typed
<1>4. UNCHANGED <<session, turns, messages, proc, queue>>
  BY DEF ShardFinish, storeVars
<1>5. /\ exec'[w][rt] = None /\ Elsewhere(w, rt, exec)
      /\ exec' \in [Workers -> [Runtimes -> Turns \cup {None}]]
  BY DEF ShardFinish, DispatchInv, Typed, Elsewhere
<1>6. task[t] \in TaskRecord /\ task[t].rt \in Runtimes /\ task[t].phase = "wait"
      /\ turns[t].worker # None
  BY <1>1 DEF DispatchInv, Typed, Awaits, Fitting, Fits
<1>7. \E k \in TaskRecord : task' = [task EXCEPT ![t] = k] /\ Fits(turns[t], k)
  <2>1. CASE task' = [task EXCEPT ![t].phase = "post"]
    <3> DEFINE k == [task[t] EXCEPT !.phase = "post"]
    <3>1. k \in TaskRecord /\ k.phase = "post" /\ k.rt \in Runtimes
      BY <1>6 DEF TaskRecord, Phases
    <3>2. Fits(turns[t], k)
      BY <1>6, <3>1 DEF Fits
    <3>3. task' = [task EXCEPT ![t] = k]
      BY <1>1, <2>1 DEF DispatchInv, Typed
    <3> HIDE DEF k
    <3> QED BY <3>1, <3>2, <3>3
  <2>2. CASE BodyError(t)
    <3> DEFINE nxt == IF task[t].lost THEN "done" ELSE "fail"
               k == AbortRecord(task[t], RuntimeOrder, nxt)
    <3>1. nxt \in {"done", "fail"}
      OBVIOUS
    <3>2. AbortThen(t, RuntimeOrder, nxt)
      BY <2>2 DEF BodyError
    <3> HIDE DEF nxt
    <3>3. k \in TaskRecord /\ k.phase = "abort" /\ task' = [task EXCEPT ![t] = k]
      BY <1>1, <3>1, <3>2, AbortTask, TodoTyped
    <3>4. Fits(turns[t], k)
      BY <1>6, <3>3 DEF Fits
    <3> HIDE DEF k
    <3> QED BY <3>3, <3>4
  <2> QED BY <2>1, <2>2 DEF ShardFinish
<1>8. PICK k \in TaskRecord : task' = [task EXCEPT ![t] = k] /\ Fits(turns[t], k)
  BY <1>7
<1>9. PICK d \in {NoInterpreter, Quarantine(t, c)} : cache' = [cache EXCEPT ![w][rt][s] = d]
  BY DEF ShardFinish
<1>10. /\ d \in Cached
       /\ \A u \in d.carries : u \in c.carries /\ d.pending = t
  <2> HIDE DEF c, t
  <2>1. CASE d = NoInterpreter
    BY <2>1 DEF Cached, NoInterpreter
  <2>2. CASE d = Quarantine(t, c)
    BY <1>1, <1>3, <2>2 DEF Cached, Quarantine, Interpreter
  <2> QED BY <1>9, <2>1, <2>2
<1>11. /\ cache' \in [Workers -> [Runtimes -> [Sessions -> Cached]]]
       /\ Elsewhere(w, rt, cache) /\ cache'[w][rt][s] = d
       /\ \A r \in Sessions \ {s} : cache'[w][rt][r] = cache[w][rt][r]
  <2> HIDE DEF s
  <2> QED BY <1>2, <1>9, <1>10, CacheUpdate
<1>12. ASSUME NEW v \in Workers, NEW x \in Runtimes, NEW i \in 1..Len(queue[v][x])
       PROVE  queue[v][x][i].turn \in Turns \ {t}
  <2>1. queue[v][x][i] \in Request
    BY <1>12 DEF DispatchInv, Typed
  <2>2. ASSUME queue[v][x][i].turn = t PROVE FALSE
    <3>1. Awaits(turns[t], task[t], queue[v][x][i].op, v, x)
      BY <1>12, <2>2 DEF DispatchInv, Queued
    <3>2. v = w /\ x = rt
      BY <1>1, <2>1, <3>1 DEF Awaits, Request, Ops
    <3> QED BY <1>1, <1>12, <2>2, <3>2
  <2> QED BY <2>1, <2>2 DEF Request
<1>13. ASSUME NEW v \in Workers, NEW x \in Runtimes, v # w \/ x # rt
       PROVE  exec[v][x] # t /\ exec'[v][x] = exec[v][x] /\ cache'[v][x] = cache[v][x]
  <2>1. exec'[v][x] = exec[v][x] /\ cache'[v][x] = cache[v][x]
    BY <1>5, <1>11, <1>13 DEF Elsewhere
  <2>2. ASSUME exec[v][x] = t PROVE FALSE
    <3>1. Awaits(turns[t], task[t], "run", v, x)
      BY <1>1, <2>2 DEF DispatchInv, Executing
    <3> QED BY <1>1, <1>13, <3>1 DEF Awaits
  <2> QED BY <2>1, <2>2
<1> HIDE DEF t
<1>14. task'[t] = k /\ \A u \in Turns \ {t} : task'[u] = task[u]
  BY <1>1, <1>8 DEF DispatchInv, Typed
<1>15. TypeOK' /\ Typed' /\ Fitting' /\ QueuedOnce'
  BY <1>1, <1>4, <1>5, <1>8, <1>11, <1>14
     DEF DispatchInv, TypeOK, Typed, Fitting, QueuedOnce
<1>16. Queued'
  <2> SUFFICES ASSUME NEW v \in Workers, NEW x \in Runtimes, NEW i \in 1..Len(queue[v][x])
               PROVE  LET q == queue[v][x][i] IN
                      Awaits(turns[q.turn], task'[q.turn], q.op, v, x)
    BY <1>4 DEF Queued
  <2> QED BY <1>12, <1>14 DEF DispatchInv, Queued
<1>17. Executing'
  <2> SUFFICES ASSUME NEW v \in Workers, NEW x \in Runtimes, exec'[v][x] # None
               PROVE  LET u == exec'[v][x] IN
                      /\ Awaits(turns[u], task'[u], "run", v, x)
                      /\ \A i \in 1..Len(queue[v][x]) : queue[v][x][i].turn # u
                      /\ cache'[v][x][turns[u].session].pending = None
    BY <1>4 DEF Executing
  <2>1. v # w \/ x # rt
    BY <1>5
  <2>2. exec[v][x] \in Turns \ {t} /\ exec'[v][x] = exec[v][x] /\ cache'[v][x] = cache[v][x]
    BY <1>13, <2>1 DEF DispatchInv, Typed
  <2> QED BY <1>14, <2>2 DEF DispatchInv, Executing
<1>18. Clean'
  <2> SUFFICES ASSUME NEW v \in Workers, NEW x \in Runtimes, NEW r \in Sessions,
                      NEW u \in cache'[v][x][r].carries
               PROVE  \/ turns[u].status = "completed"
                      \/ u = cache'[v][x][r].pending
                      \/ u = exec'[v][x] /\ turns[u].session = r
    BY <1>4 DEF Clean
  <2>1. CASE v # w \/ x # rt
    <3>1. exec'[v][x] = exec[v][x] /\ cache'[v][x] = cache[v][x]
      BY <1>13, <2>1
    <3> QED BY <3>1 DEF DispatchInv, Clean
  <2>2. CASE v = w /\ x = rt /\ r # s
    <3>1. u \in cache[v][x][r].carries /\ cache'[v][x][r] = cache[v][x][r]
      BY <1>11, <2>2
    <3>2. ~(u = t /\ turns[u].session = r)
      BY <2>2
    <3> QED BY <2>2, <3>1, <3>2 DEF DispatchInv, Clean, t
  <2>3. CASE v = w /\ x = rt /\ r = s
    <3>1. u \in c.carries /\ cache'[v][x][r].pending = t
      BY <1>10, <1>11, <2>3
    <3>2. u # None
      BY <3>1, <1>3, DispatchAssumption DEF Cached
    <3>3. turns[u].status = "completed" \/ u = c.pending \/ u = t
      <4>1. Clean /\ s \in Sessions
        BY <1>2 DEF DispatchInv
      <4> HIDE DEF s
      <4> QED BY <3>1, <4>1 DEF Clean, t
    <3> QED BY <1>1, <3>1, <3>2, <3>3
  <2> QED BY <2>1, <2>2, <2>3
<1> QED BY <1>15, <1>16, <1>17, <1>18 DEF DispatchInv

\* An idle interpreter is evicted.
LEMMA EvictStep ==
  ASSUME DispatchInv, NEW w \in Workers, NEW rt \in Runtimes, NEW s \in Sessions,
         Evict(w, rt, s)
  PROVE  DispatchInv'
<1>1. /\ cache' \in [Workers -> [Runtimes -> [Sessions -> Cached]]]
      /\ Elsewhere(w, rt, cache) /\ cache'[w][rt][s] = NoInterpreter
      /\ \A r \in Sessions \ {s} : cache'[w][rt][r] = cache[w][rt][r]
  <2>1. NoInterpreter \in Cached
    BY DEF NoInterpreter, Cached
  <2> QED BY <2>1, CacheUpdate, ZenonT(30) DEF Evict
<1>2. UNCHANGED <<session, turns, messages, proc, task, queue, exec>> /\ exec[w][rt] = None
  BY DEF Evict, storeVars
<1>3. TypeOK' /\ Typed' /\ Fitting' /\ Queued' /\ QueuedOnce'
  BY <1>1, <1>2 DEF DispatchInv, TypeOK, Typed, Fitting, Queued, QueuedOnce
<1>4. Executing'
  <2> SUFFICES ASSUME NEW v \in Workers, NEW x \in Runtimes, exec[v][x] # None
               PROVE  cache'[v][x] = cache[v][x]
    BY <1>2 DEF DispatchInv, Executing
  <2> QED BY <1>1, <1>2 DEF Elsewhere
<1>5. Clean'
  <2> SUFFICES ASSUME NEW v \in Workers, NEW x \in Runtimes, NEW r \in Sessions,
                      NEW u \in cache'[v][x][r].carries
               PROVE  cache'[v][x][r] = cache[v][x][r]
    BY <1>2 DEF DispatchInv, Clean
  <2> QED BY <1>1, SMTT(30) DEF Elsewhere, NoInterpreter
<1> QED BY <1>3, <1>4, <1>5 DEF DispatchInv

\* A process loses its shards; its tasks are over, the others belong elsewhere.
LEMMA ForgetStep ==
  ASSUME DispatchInv, UNCHANGED <<session, turns, messages>>, NEW w \in Workers, Forget(w),
         proc' \in [Workers -> {"off", "up", "draining", "drained", "crashed"}],
         task' = [t \in Turns |-> IF t \in InFlight(w) THEN Task("done") ELSE task[t]]
  PROVE  DispatchInv'
<1>1. /\ queue'[w] = [rt \in Runtimes |-> <<>>]
      /\ exec'[w] = [rt \in Runtimes |-> None]
      /\ cache'[w] = [rt \in Runtimes |-> [s \in Sessions |-> NoInterpreter]]
      /\ \A v \in Workers \ {w} :
           queue'[v] = queue[v] /\ exec'[v] = exec[v] /\ cache'[v] = cache[v]
  BY DEF Forget, DispatchInv, Typed
<1>2. Typed'
  <2>1. NoInterpreter \in Cached /\ Task("done") \in TaskRecord
    BY FreshTask DEF NoInterpreter, Cached, Phases
  <2>2. queue' \in [Workers -> [Runtimes -> Seq(Request)]]
    BY DEF Forget, DispatchInv, Typed
  <2>3. exec' \in [Workers -> [Runtimes -> Turns \cup {None}]]
    BY DEF Forget, DispatchInv, Typed
  <2>4. cache' \in [Workers -> [Runtimes -> [Sessions -> Cached]]]
    BY <2>1 DEF Forget, DispatchInv, Typed
  <2>5. task' \in [Turns -> TaskRecord]
    BY <2>1 DEF DispatchInv, Typed
  <2> QED BY <2>2, <2>3, <2>4, <2>5 DEF Typed
<1>3. \A t \in Turns : turns[t].worker # w => task'[t] = task[t]
  BY DEF InFlight
<1>4. Fitting'
  <2> SUFFICES ASSUME NEW t \in Turns PROVE Fits(turns[t], task'[t])
    BY DEF Fitting
  <2>1. CASE t \in InFlight(w)
    <3>1. turns[t].worker # None
      BY <2>1, NoneAssumption DEF InFlight
    <3> QED BY <2>1, <3>1, FreshTask DEF Fits, Phases
  <2>2. CASE t \notin InFlight(w)
    BY <2>2 DEF DispatchInv, Fitting
  <2> QED BY <2>1, <2>2
<1>5. Queued'
  <2> SUFFICES ASSUME NEW v \in Workers, NEW x \in Runtimes, NEW i \in 1..Len(queue'[v][x])
               PROVE  LET q == queue'[v][x][i] IN
                      Awaits(turns[q.turn], task'[q.turn], q.op, v, x)
    BY DEF Queued
  <2>1. v # w
    BY <1>1
  <2>2. queue'[v][x] = queue[v][x] /\ queue[v][x] \in Seq(Request)
    BY <1>1, <2>1 DEF DispatchInv, Typed
  <2>3. queue[v][x][i] \in Request /\ i \in 1..Len(queue[v][x])
    BY <2>2
  <2>4. Awaits(turns[queue[v][x][i].turn], task[queue[v][x][i].turn], queue[v][x][i].op, v, x)
    BY <2>3 DEF DispatchInv, Queued
  <2>5. task'[queue[v][x][i].turn] = task[queue[v][x][i].turn]
    BY <1>3, <2>1, <2>3, <2>4 DEF Awaits, Request
  <2> QED BY <2>2, <2>4, <2>5
<1>6. QueuedOnce'
  <2> SUFFICES ASSUME NEW v \in Workers, NEW x \in Runtimes, NEW i \in 1..Len(queue'[v][x])
               PROVE  queue'[v][x] = queue[v][x]
    BY DEF DispatchInv, QueuedOnce
  <2> QED BY <1>1
<1>7. Executing'
  <2> SUFFICES ASSUME NEW v \in Workers, NEW x \in Runtimes, exec'[v][x] # None
               PROVE  LET u == exec'[v][x] IN
                      /\ Awaits(turns[u], task'[u], "run", v, x)
                      /\ \A i \in 1..Len(queue'[v][x]) : queue'[v][x][i].turn # u
                      /\ cache'[v][x][turns[u].session].pending = None
    BY DEF Executing
  <2>1. v # w
    BY <1>1
  <2>2. queue'[v] = queue[v] /\ exec'[v] = exec[v] /\ cache'[v] = cache[v]
    BY <1>1, <2>1
  <2>3. exec[v][x] \in Turns /\ Awaits(turns[exec[v][x]], task[exec[v][x]], "run", v, x)
    BY <2>2 DEF DispatchInv, Typed, Executing
  <2>4. task'[exec[v][x]] = task[exec[v][x]]
    BY <1>3, <2>1, <2>3 DEF Awaits
  <2> QED BY <2>2, <2>3, <2>4, SMTT(30) DEF DispatchInv, Executing
<1>8. Clean'
  <2> SUFFICES ASSUME NEW v \in Workers, NEW x \in Runtimes, NEW r \in Sessions,
                      NEW u \in cache'[v][x][r].carries
               PROVE  cache'[v] = cache[v] /\ exec'[v] = exec[v]
    BY DEF DispatchInv, Clean
  <2> QED BY <1>1 DEF NoInterpreter
<1>9. TypeOK'
  BY DEF DispatchInv, TypeOK
<1> QED BY <1>2, <1>4, <1>5, <1>6, <1>7, <1>8, <1>9 DEF DispatchInv

-----------------------------------------------------------------------------
(* The steps of a task.                                                    *)

\* A step of the task of a turn, or of its heartbeat, keeps the invariant.
LEMMA TaskSteps ==
  ASSUME DispatchInv, TypeOK', RowsKept, NEW t \in Turns,
         TaskStep(t) \/ Heartbeat(t) \/ HeartbeatFails(t)
  PROVE  DispatchInv'
<1> DEFINE k0 == task[t]
<1>1. k0 \in TaskRecord /\ Fits(turns[t], k0)
  BY DEF DispatchInv, Typed, Fitting
<1>2. CASE SubmitRun(t)
  <2>1. PICK rt \in Runtimes : /\ Send(t, rt, "run")
                               /\ task' = [task EXCEPT ![t].phase = "wait", ![t].rt = rt]
    BY <1>2 DEF SubmitRun
  <2> DEFINE k == [k0 EXCEPT !.phase = "wait", !.rt = rt]
  <2>2. k \in TaskRecord /\ k.phase = "wait" /\ k.rt = rt
    BY <1>1 DEF TaskRecord, Phases
  <2>3. task' = [task EXCEPT ![t] = k]
    BY <2>1 DEF DispatchInv, Typed
  <2>4. k0.phase = "body" /\ UNCHANGED <<session, turns, messages, proc, exec, cache>>
    BY <1>2 DEF SubmitRun, storeVars
  <2>5. Fits(turns[t], k) /\ Awaits(turns[t], k, "run", turns[t].worker, rt)
    BY <1>1, <2>2, <2>4 DEF Fits, Awaits
  <2> HIDE DEF k
  <2> QED BY <2>1, <2>2, <2>3, <2>4, <2>5, RequestMoves DEF Ops, Waiting
<1>3. CASE SendPromote(t)
  <2> DEFINE k == [k0 EXCEPT !.phase = "promoteWait"]
  <2>1. k0.phase = "promote" /\ UNCHANGED <<session, turns, messages, proc, exec, cache>>
        /\ Send(t, k0.rt, "promote") /\ k0.rt \in Runtimes
    BY <1>1, <1>3 DEF SendPromote, storeVars, Fits
  <2>2. k \in TaskRecord /\ k.phase = "promoteWait" /\ k.rt = k0.rt
    BY <1>1 DEF TaskRecord, Phases
  <2>3. task' = [task EXCEPT ![t] = k]
    BY <1>3 DEF SendPromote, DispatchInv, Typed
  <2>4. Fits(turns[t], k) /\ Awaits(turns[t], k, "promote", turns[t].worker, k0.rt)
    BY <1>1, <2>1, <2>2 DEF Fits, Awaits
  <2> HIDE DEF k
  <2> QED BY <2>1, <2>2, <2>3, <2>4, RequestMoves DEF Ops, Waiting
<1>4. CASE SendAbort(t)
  <2> DEFINE k == [k0 EXCEPT !.phase = "abortWait"]
  <2>1. k0.phase = "abort" /\ UNCHANGED <<session, turns, messages, proc, exec, cache>>
        /\ Send(t, Head(k0.todo), "abort") /\ k0.todo # <<>>
    BY <1>4 DEF SendAbort, storeVars
  <2>2. Head(k0.todo) \in Runtimes
    BY <1>1, <2>1, TodoTyped DEF TaskRecord, Todos
  <2>3. k \in TaskRecord /\ k.phase = "abortWait" /\ k.todo = k0.todo
    BY <1>1 DEF TaskRecord, Phases
  <2>4. task' = [task EXCEPT ![t] = k]
    BY <1>4 DEF SendAbort, DispatchInv, Typed
  <2>5. Fits(turns[t], k) /\ Awaits(turns[t], k, "abort", turns[t].worker, Head(k0.todo))
    BY <1>1, <2>1, <2>3 DEF Fits, Awaits
  <2> HIDE DEF k
  <2> QED BY <2>1, <2>2, <2>3, <2>4, <2>5, RequestMoves DEF Ops, Waiting
<1>5. CASE BodyStepFails(t)
  <2> DEFINE nxt == IF k0.lost THEN "done" ELSE "fail"
  <2>1. AbortThen(t, RuntimeOrder, nxt) /\ k0.phase \in {"body", "post"}
        /\ UNCHANGED <<proc, queue, exec, cache>> /\ nxt \in {"done", "fail"}
    BY <1>5 DEF BodyStepFails, BodyError
  <2> HIDE DEF nxt
  <2> QED BY <2>1, AbortMoves, TodoTyped DEF Waiting
<1>6. CASE BodyReturns(t)
  <2>1. k0.phase = "post" /\ UNCHANGED <<proc, queue, exec, cache>>
    BY <1>6 DEF BodyReturns
  <2>2. CASE AbortThen(t, RuntimeOrder, "done")
    BY <2>1, <2>2, AbortMoves, TodoTyped DEF Waiting
  <2>3. CASE task' = [task EXCEPT ![t].phase = "complete"]
    <3> DEFINE k == [k0 EXCEPT !.phase = "complete"]
    <3>1. k \in TaskRecord /\ k.phase = "complete" /\ k.rt = k0.rt
      BY <1>1 DEF TaskRecord, Phases
    <3>2. task' = [task EXCEPT ![t] = k]
      BY <2>3 DEF DispatchInv, Typed
    <3>3. Fits(turns'[t], k)
      BY <1>1, <2>1, <3>1 DEF Fits, RowsKept
    <3> HIDE DEF k
    <3> QED BY <2>1, <3>1, <3>2, <3>3, OneTaskMoves DEF Waiting
  <2> QED BY <1>6, <2>2, <2>3 DEF BodyReturns
<1>7. CASE Complete(t)
  <2>1. k0.phase = "complete" /\ UNCHANGED <<proc, queue, exec, cache>> /\ k0.rt \in Runtimes
    BY <1>1, <1>7 DEF Complete, Fits
  <2>2. CASE AbortThen(t, <<k0.rt>>, "done")
    BY <2>1, <2>2, AbortMoves, TodoTyped DEF Waiting
  <2>3. CASE CompleteTurn(t, turns[t].worker) /\ task' = [task EXCEPT ![t].phase = "promote"]
    <3> DEFINE k == [k0 EXCEPT !.phase = "promote"]
    <3>1. k \in TaskRecord /\ k.phase = "promote" /\ k.rt = k0.rt
      BY <1>1 DEF TaskRecord, Phases
    <3>2. task' = [task EXCEPT ![t] = k]
      BY <2>3 DEF DispatchInv, Typed
    <3>3. turns'[t].status = "completed"
      BY <2>3 DEF CompleteTurn, DispatchInv, TypeOK
    <3>4. Fits(turns'[t], k)
      BY <1>1, <2>1, <3>1, <3>3 DEF Fits, RowsKept
    <3> HIDE DEF k
    <3> QED BY <2>1, <3>1, <3>2, <3>4, OneTaskMoves DEF Waiting
  <2> QED BY <1>7, <2>2, <2>3 DEF Complete
<1>8. CASE AbortDone(t) \/ Fail(t)
  <2>1. k0.phase \in {"abort", "fail"} /\ UNCHANGED <<proc, queue, exec, cache>>
    BY <1>8 DEF AbortDone, Fail
  <2>2. PICK ph \in {"done", "fail"} : task' = [task EXCEPT ![t] = Task(ph)]
    BY <1>1, <1>8 DEF AbortDone, Fail, TaskRecord
  <2>3. Task(ph) \in TaskRecord /\ Task(ph).phase = ph
    BY <2>2, FreshTask DEF Phases
  <2>4. Fits(turns'[t], Task(ph))
    BY <1>1, <2>1, <2>2, <2>3 DEF Fits, RowsKept
  <2> QED BY <2>1, <2>2, <2>3, <2>4, OneTaskMoves DEF Waiting
<1>9. CASE Heartbeat(t)
  <2>1. UNCHANGED <<proc, task, queue, exec, cache>>
    BY <1>9 DEF Heartbeat, taskVars
  <2>2. Typed' /\ Fitting'
    BY <2>1 DEF DispatchInv, Typed, Fitting, Fits, RowsKept
  <2> QED BY <2>1, <2>2, TasksMove
<1>10. CASE HeartbeatFails(t)
  <2> DEFINE k == [k0 EXCEPT !.lost = TRUE, !.cancelled = (k0.phase = "wait")]
  <2>1. k \in TaskRecord /\ k.phase = k0.phase /\ k.rt = k0.rt /\ k.todo = k0.todo
    BY <1>1 DEF TaskRecord
  <2>2. task' = [task EXCEPT ![t] = k] /\ UNCHANGED <<proc, queue, exec, cache>>
    BY <1>10 DEF HeartbeatFails, DispatchInv, Typed
  <2>3. Fits(turns'[t], k)
    BY <1>1, <2>1 DEF Fits, RowsKept
  <2> HIDE DEF k
  <2> QED BY <2>1, <2>2, <2>3, OneTaskMoves
<1> QED BY <1>2, <1>3, <1>4, <1>5, <1>6, <1>7, <1>8, <1>9, <1>10 DEF TaskStep

-----------------------------------------------------------------------------
\* Every step of the dispatcher keeps the invariant.
LEMMA StepKeepsInv == DispatchInv /\ [Next]_vars => DispatchInv'
<1> SUFFICES ASSUME DispatchInv, [Next]_vars PROVE DispatchInv'
  OBVIOUS
<1>1. TypeOK' /\ RowsKept
  BY StepIsStoreStep, StepTypeOK, StoreKeepsRows DEF DispatchInv
<1>2. ASSUME UNCHANGED <<task, queue, exec, cache>>,
             proc' \in [Workers -> {"off", "up", "draining", "drained", "crashed"}]
      PROVE  DispatchInv'
  <2>1. Typed' /\ Fitting'
    BY <1>1, <1>2 DEF DispatchInv, Typed, Fitting, Fits, RowsKept
  <2> QED BY <1>1, <1>2, <2>1, TasksMove
<1>3. proc \in [Workers -> {"off", "up", "draining", "drained", "crashed"}]
  BY DEF DispatchInv, Typed
<1>4. CASE ClientStep \/ Time \/ UNCHANGED vars
  BY <1>2, <1>3, <1>4 DEF ClientStep, Time, taskVars, vars
<1>5. ASSUME NEW w \in Workers,
             Start(w) \/ StartFails(w) \/ PeriodicSweep(w) \/ Shutdown(w)
      PROVE  DispatchInv'
  BY <1>2, <1>3, <1>5 DEF Start, StartFails, PeriodicSweep, Shutdown, taskVars
<1>6. ASSUME NEW w \in Workers, Claim(w) PROVE DispatchInv'
  <2>1. PICK t \in Turns : ClaimNextTurn(t, w) /\ task' = [task EXCEPT ![t] = Task("body")]
    BY <1>6 DEF Claim
  <2>2. UNCHANGED <<proc, queue, exec, cache>>
    BY <1>6 DEF Claim
  <2>3. task[t].phase = "idle"
    BY <2>1 DEF ClaimNextTurn, StartTurn, Claimable, DispatchInv, TypeOK, Fitting, Fits
  <2>4. turns'[t].worker # None
    BY <2>1, NoneAssumption DEF ClaimNextTurn, StartTurn, DispatchInv, TypeOK
  <2>5. Task("body") \in TaskRecord /\ Fits(turns'[t], Task("body"))
    BY <2>4, FreshTask DEF Fits, Phases
  <2> QED BY <1>1, <2>1, <2>2, <2>3, <2>5, OneTaskMoves DEF Waiting
<1>7. ASSUME NEW w \in Workers, Drained(w) PROVE DispatchInv'
  <2>1. task' = [t \in Turns |-> IF t \in InFlight(w) THEN Task("done") ELSE task[t]]
    BY <1>7 DEF Drained, DispatchInv, Typed
  <2> QED BY <1>3, <1>7, <2>1, ForgetStep DEF Drained, storeVars
<1>8. ASSUME NEW w \in Workers, Crash(w) PROVE DispatchInv'
  BY <1>3, <1>8, ForgetStep DEF Crash, storeVars
<1>9. ASSUME NEW t \in Turns, TaskStep(t) \/ Heartbeat(t) \/ HeartbeatFails(t)
      PROVE  DispatchInv'
  BY <1>1, <1>9, TaskSteps
<1>10. ASSUME NEW w \in Workers, NEW rt \in Runtimes,
              ShardStep(w, rt) \/ \E s \in Sessions : Evict(w, rt, s)
       PROVE  DispatchInv'
  BY <1>10, RunStep, FinishStep, PromoteStep, AbortStep, EvictStep DEF ShardStep
<1> QED BY <1>4, <1>5, <1>6, <1>7, <1>8, <1>9, <1>10 DEF Next

\* The invariant holds in every reachable state.
LEMMA DispatchInvariance == Spec => []DispatchInv
<1>1. Init => DispatchInv
  <2> SUFFICES ASSUME Init PROVE DispatchInv
    OBVIOUS
  <2>1. TypeOK
    BY DEF Init, StoreInit, TypeOK, NoTurn
  <2>2. Task("idle") \in TaskRecord /\ NoInterpreter \in Cached
    BY FreshTask DEF Phases, NoInterpreter, Cached
  <2>3. Typed
    BY <2>2 DEF Init, Typed
  <2>4. Fitting
    BY FreshTask DEF Init, Fitting, Fits, Phases
  <2>5. Queued /\ QueuedOnce /\ Executing
    BY DEF Init, Queued, QueuedOnce, Executing
  <2>6. Clean
    BY DEF Init, Clean, NoInterpreter
  <2> QED BY <2>1, <2>3, <2>4, <2>5, <2>6 DEF DispatchInv
<1> QED BY <1>1, StepKeepsInv, PTL DEF Spec

\* Whatever processes crash, drain or lose their heartbeats, an interpreter that
\* a session reuses carries completed turns only.
THEOREM InterpretersAreClean == Spec => []DispatchSafe
BY DispatchInvariance, InvIsSafe, PTL

-----------------------------------------------------------------------------
(* What a drained process leaves behind, while no call of the store fails. *)

\* The task still has to complete or fail its row.
OnIt(k) ==
  /\ ~k.lost
  /\ \/ k.phase \in BodyPhases \cup {"complete", "fail"}
     \/ k.phase \in {"abort", "abortWait"} /\ k.then = "fail"

\* A running row belongs to a process that crashed, or to a live one whose
\* task is still at it.
Held ==
  \A t \in Turns : turns[t].status = "running" =>
    \/ proc[turns[t].worker] = "crashed"
    \/ Alive(turns[t].worker) /\ OnIt(task[t])

\* No row starts running, and running ones keep their worker.
NoneStarts ==
  \A t \in Turns : turns'[t].status = "running" =>
    turns[t].status = "running" /\ turns'[t].worker = turns[t].worker

\* Only a claim starts a turn.
LEMMA OnlyClaimsStart ==
  ASSUME TypeOK,
         \/ UNCHANGED storeVars \/ PostMessage \/ FailStaleRunningTurns \/ Tick
         \/ \E s \in Sessions : EndSession(s)
         \/ \E t \in Turns, w \in Workers :
              HeartbeatTurn(t, w) \/ CompleteTurn(t, w) \/ FailTurn(t, w)
  PROVE  NoneStarts
<1> SUFFICES ASSUME NEW t \in Turns, turns'[t].status = "running"
             PROVE  turns[t].status = "running" /\ turns'[t].worker = turns[t].worker
  BY DEF NoneStarts
<1>1. CASE PostMessage
  BY <1>1 DEF PostMessage, EnqueueTurn, TypeOK
<1>2. ASSUME NEW u \in Turns, NEW w \in Workers,
             HeartbeatTurn(u, w) \/ CompleteTurn(u, w) \/ FailTurn(u, w)
      PROVE  turns[t].status = "running" /\ turns'[t].worker = turns[t].worker
  <2>1. turns[u].status = "running"
    BY <1>2 DEF HeartbeatTurn, CompleteTurn, FailTurn, Owns
  <2>2. turns[u] \in TurnRecord
    BY <2>1, RowTyped DEF Status
  <2>3. CASE HeartbeatTurn(u, w)
    BY <2>1, <2>2, <2>3 DEF HeartbeatTurn, TypeOK, TurnRecord
  <2>4. CASE CompleteTurn(u, w)
    BY <2>1, <2>2, <2>4 DEF CompleteTurn, TypeOK, TurnRecord
  <2>5. CASE FailTurn(u, w)
    BY <2>1, <2>2, <2>5 DEF FailTurn, TypeOK, TurnRecord
  <2> QED BY <1>2, <2>3, <2>4, <2>5
<1>3. CASE FailStaleRunningTurns
  <2>1. CASE Stale(t)
    <3>1. turns[t] \in TurnRecord
      BY <2>1, RowTyped DEF Stale, Status
    <3> QED BY <1>3, <2>1, <3>1 DEF FailStaleRunningTurns, TurnRecord
  <2>2. CASE ~Stale(t)
    BY <1>3, <2>2 DEF FailStaleRunningTurns
  <2> QED BY <2>1, <2>2
<1>4. CASE Tick
  <2>1. CASE turns[t].status = "running" /\ turns[t].age < StaleTimeout
    <3>1. turns[t] \in TurnRecord
      BY <2>1, RowTyped DEF Status
    <3> QED BY <1>4, <2>1, <3>1 DEF Tick, TurnRecord
  <2>2. CASE ~(turns[t].status = "running" /\ turns[t].age < StaleTimeout)
    BY <1>4, <2>2 DEF Tick
  <2> QED BY <2>1, <2>2
<1>5. CASE \E s \in Sessions : EndSession(s)
  BY <1>5 DEF EndSession
<1>6. CASE UNCHANGED storeVars
  BY <1>6 DEF storeVars
<1> QED BY <1>1, <1>2, <1>3, <1>4, <1>5, <1>6

\* One task moves on; if its row runs on, the task is still at it.
LEMMA OneTaskHeld ==
  ASSUME DispatchInv, Held, NoneStarts, proc' = proc, NEW t \in Turns, NEW k \in TaskRecord,
         task' = [task EXCEPT ![t] = k],
         turns[t].status = "running" /\ turns'[t].status = "running" /\ OnIt(task[t]) => OnIt(k)
  PROVE  Held'
<1>1. task'[t] = k /\ \A u \in Turns \ {t} : task'[u] = task[u]
  BY DEF DispatchInv, Typed
<1> QED BY <1>1 DEF Held, NoneStarts, Alive

\* Aborting, the task means to fail the row unless it had lost it.
LEMMA AbortHeld ==
  ASSUME DispatchInv, Held, NoneStarts, proc' = proc, NEW t \in Turns,
         NEW rts \in Todos, NEW nxt \in {"done", "fail"}, AbortThen(t, rts, nxt),
         turns[t].status = "running" /\ turns'[t].status = "running" /\ OnIt(task[t])
           => nxt = "fail"
  PROVE  Held'
<1> DEFINE k == AbortRecord(task[t], rts, nxt)
<1>1. k \in TaskRecord /\ k.phase = "abort" /\ task' = [task EXCEPT ![t] = k]
  BY AbortTask
<1>2. k.lost = task[t].lost /\ k.then = nxt
  <2>1. task[t] \in TaskRecord
    BY DEF DispatchInv, Typed
  <2> QED BY <2>1 DEF AbortRecord, TaskRecord
<1> HIDE DEF k
<1>3. turns[t].status = "running" /\ turns'[t].status = "running" /\ OnIt(task[t]) => OnIt(k)
  BY <1>1, <1>2 DEF OnIt
<1> HIDE DEF OnIt
<1> QED BY <1>1, <1>3, OneTaskHeld

\* The phase of a task changes and nothing else of it that matters here.
LEMMA PhaseHeld ==
  ASSUME DispatchInv, Held, NoneStarts, proc' = proc, NEW t \in Turns, NEW k \in TaskRecord,
         task' = [task EXCEPT ![t] = k], k.lost = task[t].lost, k.then = task[t].then,
         \/ k.phase \in BodyPhases \cup {"complete"}
         \/ k.phase \in {"abort", "abortWait"} /\ task[t].phase \in {"abort", "abortWait"}
  PROVE  Held'
<1>1. OnIt(task[t]) => OnIt(k)
  BY DEF OnIt, BodyPhases
<1> HIDE DEF OnIt
<1> QED BY <1>1, OneTaskHeld

\* Steps of a task: without failing calls it gives up only a row it has lost.
LEMMA TaskHeld ==
  ASSUME ~StoreErrors, DispatchInv, Held, NEW t \in Turns,
         TaskStep(t) \/ Heartbeat(t) \/ HeartbeatFails(t)
  PROVE  Held'
<1> DEFINE k0 == task[t]
<1>1. k0 \in TaskRecord /\ Fits(turns[t], k0) /\ TypeOK
  BY DEF DispatchInv, Typed, Fitting
<1>2. turns[t].status = "running" => turns[t].worker \in Workers /\ Owns(t, turns[t].worker)
  BY <1>1 DEF TypeOK, TurnRecord, NoTurn, Owns
<1>3. NoneStarts /\ proc' = proc
  <2>1. \/ UNCHANGED storeVars
        \/ \E w \in Workers : HeartbeatTurn(t, w) \/ CompleteTurn(t, w) \/ FailTurn(t, w)
    <3>1. CASE Heartbeat(t)
      BY <1>2, <3>1 DEF Heartbeat, HeartbeatTurn, Owns
    <3>2. CASE Complete(t)
      BY <1>2, <3>2 DEF Complete, CompleteTurn, Owns
    <3>3. CASE Fail(t)
      BY <1>2, <3>3 DEF Fail, FailTurn, Owns
    <3> QED BY <3>1, <3>2, <3>3 DEF TaskStep, SubmitRun, BodyStepFails, BodyReturns,
              SendPromote, SendAbort, AbortDone, HeartbeatFails
  <2>2. NoneStarts
    BY <1>1, <2>1, OnlyClaimsStart
  <2>3. proc' = proc
    BY DEF TaskStep, SubmitRun, BodyStepFails, BodyReturns, Complete, SendPromote, SendAbort,
           AbortDone, Fail, Heartbeat, HeartbeatFails, taskVars
  <2> QED BY <2>2, <2>3
<1>4. CASE SubmitRun(t)
  <2>1. PICK rt \in Runtimes : task' = [task EXCEPT ![t].phase = "wait", ![t].rt = rt]
    BY <1>4 DEF SubmitRun
  <2> DEFINE k == [k0 EXCEPT !.phase = "wait", !.rt = rt]
  <2>2. k \in TaskRecord /\ k.phase = "wait" /\ k.lost = k0.lost /\ k.then = k0.then
    BY <1>1 DEF TaskRecord, Phases
  <2>3. task' = [task EXCEPT ![t] = k]
    BY <2>1 DEF DispatchInv, Typed
  <2> HIDE DEF k
  <2> QED BY <1>3, <2>2, <2>3, PhaseHeld DEF BodyPhases
<1>5. CASE SendPromote(t)
  <2> DEFINE k == [k0 EXCEPT !.phase = "promoteWait"]
  <2>1. k \in TaskRecord
    BY <1>1 DEF TaskRecord, Phases
  <2>2. task' = [task EXCEPT ![t] = k] /\ turns[t].status = "completed"
    BY <1>1, <1>5 DEF SendPromote, DispatchInv, Typed, Fits
  <2> HIDE DEF k, OnIt
  <2> QED BY <1>3, <2>1, <2>2, OneTaskHeld
<1>6. CASE SendAbort(t)
  <2> DEFINE k == [k0 EXCEPT !.phase = "abortWait"]
  <2>1. k \in TaskRecord /\ k.phase = "abortWait" /\ k.lost = k0.lost /\ k.then = k0.then
    BY <1>1 DEF TaskRecord, Phases
  <2>2. task' = [task EXCEPT ![t] = k] /\ k0.phase = "abort"
    BY <1>6 DEF SendAbort, DispatchInv, Typed
  <2> HIDE DEF k
  <2> QED BY <1>3, <2>1, <2>2, PhaseHeld
<1>7. CASE BodyStepFails(t)
  <2> DEFINE nxt == IF k0.lost THEN "done" ELSE "fail"
  <2>1. AbortThen(t, RuntimeOrder, nxt) /\ nxt \in {"done", "fail"}
    BY <1>7 DEF BodyStepFails, BodyError
  <2>2. OnIt(k0) => nxt = "fail"
    BY DEF OnIt
  <2> HIDE DEF nxt, OnIt
  <2> QED BY <1>3, <2>1, <2>2, AbortHeld, TodoTyped
<1>8. CASE BodyReturns(t)
  <2>1. CASE k0.lost /\ AbortThen(t, RuntimeOrder, "done")
    <3>1. ~OnIt(k0)
      BY <2>1 DEF OnIt
    <3> HIDE DEF OnIt
    <3> QED BY <1>3, <2>1, <3>1, AbortHeld, TodoTyped
  <2>2. CASE task' = [task EXCEPT ![t].phase = "complete"]
    <3> DEFINE k == [k0 EXCEPT !.phase = "complete"]
    <3>1. k \in TaskRecord /\ k.phase = "complete" /\ k.lost = k0.lost /\ k.then = k0.then
      BY <1>1 DEF TaskRecord, Phases
    <3>2. task' = [task EXCEPT ![t] = k]
      BY <2>2 DEF DispatchInv, Typed
    <3> HIDE DEF k
    <3> QED BY <1>3, <3>1, <3>2, PhaseHeld
  <2> QED BY <1>8, <2>1, <2>2 DEF BodyReturns
<1>9. CASE Complete(t)
  <2>1. k0.rt \in Runtimes
    BY <1>1, <1>9 DEF Complete, Fits
  <2>2. CASE CompleteTurn(t, turns[t].worker) /\ task' = [task EXCEPT ![t].phase = "promote"]
    <3> DEFINE k == [k0 EXCEPT !.phase = "promote"]
    <3>1. k \in TaskRecord
      BY <1>1 DEF TaskRecord, Phases
    <3>2. task' = [task EXCEPT ![t] = k]
      BY <2>2 DEF DispatchInv, Typed
    <3>3. turns'[t].status = "completed"
      BY <2>2 DEF CompleteTurn, DispatchInv, TypeOK
    <3> HIDE DEF k, OnIt
    <3> QED BY <1>3, <3>1, <3>2, <3>3, OneTaskHeld
  <2>3. CASE ~Owns(t, turns[t].worker) /\ AbortThen(t, <<k0.rt>>, "done")
    <3>1. turns[t].status # "running"
      BY <1>2, <2>3
    <3> QED BY <1>3, <2>1, <2>3, <3>1, AbortHeld, TodoTyped
  <2> QED BY <1>9, <2>2, <2>3 DEF Complete
<1>10. CASE AbortDone(t)
  <2>1. task' = [task EXCEPT ![t] = Task(k0.then)] /\ k0.phase = "abort"
    BY <1>10 DEF AbortDone
  <2>2. k0.then \in {"done", "fail"}
    BY <1>1 DEF TaskRecord
  <2>3. Task(k0.then) \in TaskRecord /\ Task(k0.then).phase = k0.then /\ ~Task(k0.then).lost
    BY <2>2, FreshTask DEF Phases, Task
  <2>4. OnIt(k0) => OnIt(Task(k0.then))
    BY <2>1, <2>3 DEF OnIt, BodyPhases
  <2> HIDE DEF OnIt
  <2> QED BY <1>3, <2>1, <2>3, <2>4, OneTaskHeld
<1>11. CASE Fail(t)
  <2>1. task' = [task EXCEPT ![t] = Task("done")] /\ Task("done") \in TaskRecord
    BY <1>11, FreshTask DEF Fail, Phases
  <2>2. turns'[t].status # "running" \/ turns[t].status # "running"
    <3>1. CASE FailTurn(t, turns[t].worker)
      <4>1. turns[t] \in TurnRecord
        BY <1>1, <3>1, RowTyped DEF FailTurn, Owns, Status
      <4> QED BY <1>1, <3>1, <4>1 DEF FailTurn, TypeOK, TurnRecord
    <3>2. CASE ~Owns(t, turns[t].worker)
      BY <1>2, <3>2
    <3> QED BY <1>11, <3>1, <3>2 DEF Fail
  <2> HIDE DEF OnIt
  <2> QED BY <1>3, <2>1, <2>2, OneTaskHeld
<1>12. CASE Heartbeat(t)
  BY <1>3, <1>12 DEF Heartbeat, taskVars, Held, NoneStarts, Alive
<1>13. CASE HeartbeatFails(t)
  <2> DEFINE k == [k0 EXCEPT !.lost = TRUE, !.cancelled = (k0.phase = "wait")]
  <2>1. k \in TaskRecord
    BY <1>1 DEF TaskRecord
  <2>2. task' = [task EXCEPT ![t] = k] /\ turns[t].status # "running"
    BY <1>2, <1>13 DEF HeartbeatFails, DispatchInv, Typed
  <2> HIDE DEF k, OnIt
  <2> QED BY <1>3, <2>1, <2>2, OneTaskHeld
<1> QED BY <1>4, <1>5, <1>6, <1>7, <1>8, <1>9, <1>10, <1>11, <1>12, <1>13 DEF TaskStep

\* Steps of a shard: a reply never takes a task off a row that is running.
LEMMA ShardHeld ==
  ASSUME DispatchInv, Held, NEW w \in Workers, NEW rt \in Runtimes,
         ShardStep(w, rt) \/ \E s \in Sessions : Evict(w, rt, s)
  PROVE  Held'
<1>1. NoneStarts /\ proc' = proc
  <2>1. UNCHANGED storeVars /\ proc' = proc
    BY DEF ShardStep, ShardRun, ShardFinish, ShardPromote, ShardAbort, Evict
  <2> QED BY <2>1, OnlyClaimsStart DEF DispatchInv
<1>2. CASE ShardRun(w, rt) \/ \E s \in Sessions : Evict(w, rt, s)
  BY <1>1, <1>2 DEF ShardRun, Evict, Held, NoneStarts, Alive
<1>3. CASE ShardFinish(w, rt)
  <2> PICK t \in Turns : t = exec[w][rt]
    BY <1>3 DEF ShardFinish, DispatchInv, Typed
  <2>1. task[t] \in TaskRecord
    BY DEF DispatchInv, Typed
  <2>2. CASE task' = [task EXCEPT ![t].phase = "post"]
    <3> DEFINE k == [task[t] EXCEPT !.phase = "post"]
    <3>1. k \in TaskRecord /\ k.phase = "post" /\ k.lost = task[t].lost /\ k.then = task[t].then
      BY <2>1 DEF TaskRecord, Phases
    <3>2. task' = [task EXCEPT ![t] = k]
      BY <2>2 DEF DispatchInv, Typed
    <3> HIDE DEF k
    <3> QED BY <1>1, <3>1, <3>2, PhaseHeld DEF BodyPhases
  <2>3. CASE BodyError(t)
    <3> DEFINE nxt == IF task[t].lost THEN "done" ELSE "fail"
    <3>1. AbortThen(t, RuntimeOrder, nxt) /\ nxt \in {"done", "fail"}
      BY <2>3 DEF BodyError
    <3>2. OnIt(task[t]) => nxt = "fail"
      BY DEF OnIt
    <3> HIDE DEF nxt, OnIt
    <3> QED BY <1>1, <3>1, <3>2, AbortHeld, TodoTyped
  <2> QED BY <1>3, <2>2, <2>3 DEF ShardFinish
<1>4. ASSUME queue[w][rt] # <<>>
      PROVE  LET q == Head(queue[w][rt]) IN
             q \in Request /\ Awaits(turns[q.turn], task[q.turn], q.op, w, rt)
  <2>1. queue[w][rt] \in Seq(Request) /\ Head(queue[w][rt]) = queue[w][rt][1]
        /\ 1 \in 1..Len(queue[w][rt])
    BY <1>4 DEF DispatchInv, Typed
  <2> QED BY <2>1 DEF DispatchInv, Queued
<1>5. CASE ShardPromote(w, rt)
  <2>1. queue[w][rt] # <<>> /\ Head(queue[w][rt]).op = "promote"
    BY <1>5 DEF ShardPromote, Serves
  <2> PICK t \in Turns : t = Head(queue[w][rt]).turn
    BY <1>4, <2>1 DEF Request
  <2>2. turns[t].status = "completed"
    BY <1>4, <2>1 DEF Awaits, DispatchInv, Fitting, Fits
  <2>3. Task("done") \in TaskRecord
    BY FreshTask DEF Phases
  <2>4. AbortThen(t, <<rt>>, "done") \/ task' = [task EXCEPT ![t] = Task("done")]
    BY <1>5 DEF ShardPromote
  <2> HIDE DEF OnIt
  <2> QED BY <1>1, <2>2, <2>3, <2>4, AbortHeld, OneTaskHeld, TodoTyped
<1>6. CASE ShardAbort(w, rt)
  <2>1. queue[w][rt] # <<>> /\ Head(queue[w][rt]).op = "abort"
    BY <1>6 DEF ShardAbort, Serves
  <2> PICK t \in Turns : t = Head(queue[w][rt]).turn
    BY <1>4, <2>1 DEF Request
  <2>2. task[t].phase = "abortWait" /\ task[t] \in TaskRecord
    BY <1>4, <2>1 DEF Awaits, DispatchInv, Typed
  <2>3. task[t].todo # <<>>
    BY <2>2 DEF DispatchInv, Fitting, Fits
  <2> DEFINE rest == Tail(task[t].todo)
             k == [task[t] EXCEPT !.phase = "abort", !.todo = rest]
  <2>4. rest \in Todos
    BY <2>2, <2>3, TodoTyped DEF TaskRecord, Todos
  <2>5. task' = [task EXCEPT ![t] = k]
    BY <1>6 DEF ShardAbort, DispatchInv, Typed
  <2> HIDE DEF rest
  <2>6. k \in TaskRecord /\ k.phase = "abort" /\ k.lost = task[t].lost /\ k.then = task[t].then
    BY <2>2, <2>4 DEF TaskRecord, Todos, Phases
  <2> HIDE DEF k
  <2> QED BY <1>1, <2>2, <2>5, <2>6, PhaseHeld
<1> QED BY <1>2, <1>3, <1>5, <1>6 DEF ShardStep

\* While no call of the store fails, every step leaves running rows held.
LEMMA StepHeld ==
  ASSUME ~StoreErrors, DispatchInv, Held, [Next]_vars
  PROVE  Held'
<1> USE DEF Alive
<1>1. TypeOK /\ proc \in [Workers -> {"off", "up", "draining", "drained", "crashed"}]
      /\ \A t \in Turns : turns[t].status = "running" => turns[t].worker \in Workers
  <2>1. ASSUME NEW t \in Turns, turns[t].status = "running" PROVE turns[t].worker \in Workers
    BY <2>1 DEF DispatchInv, TypeOK, TurnRecord, NoTurn
  <2> QED BY <2>1 DEF DispatchInv, Typed
<1>2. CASE ClientStep \/ Time \/ UNCHANGED vars
  <2>1. NoneStarts /\ proc' = proc /\ task' = task
    BY <1>1, <1>2, OnlyClaimsStart DEF ClientStep, Time, taskVars, vars, storeVars
  <2> QED BY <2>1 DEF Held, NoneStarts
<1>3. ASSUME NEW w \in Workers,
             Start(w) \/ StartFails(w) \/ PeriodicSweep(w) \/ Shutdown(w)
      PROVE  Held'
  <2>1. NoneStarts /\ task' = task
    BY <1>1, <1>3, OnlyClaimsStart
       DEF Start, NothingStale, StartFails, PeriodicSweep, Shutdown, taskVars
  <2>2. CASE PeriodicSweep(w)
    BY <2>1, <2>2 DEF PeriodicSweep, taskVars, Held, NoneStarts
  <2>3. CASE Start(w)
    BY <1>1, <2>1, <2>3 DEF Start, Held, NoneStarts
  <2>4. CASE StartFails(w)
    BY <1>1, <2>1, <2>4 DEF StartFails, Held, NoneStarts
  <2>5. CASE Shutdown(w)
    BY <1>1, <2>1, <2>5 DEF Shutdown, Held, NoneStarts
  <2> QED BY <1>3, <2>2, <2>3, <2>4, <2>5
<1>4. ASSUME NEW w \in Workers, Claim(w) PROVE Held'
  <2>1. PICK t \in Turns : ClaimNextTurn(t, w) /\ task' = [task EXCEPT ![t] = Task("body")]
    BY <1>4 DEF Claim
  <2>2. proc[w] = "up" /\ proc' = proc
    BY <1>4 DEF Claim
  <2>3. /\ turns'[t].worker = w /\ task'[t] = Task("body")
        /\ \A u \in Turns \ {t} : turns'[u] = turns[u] /\ task'[u] = task[u]
    <3>1. turns[t] \in TurnRecord
      BY <1>1, <2>1, RowTyped DEF ClaimNextTurn, StartTurn, Claimable, Status
    <3> QED BY <1>1, <2>1, <3>1 DEF ClaimNextTurn, StartTurn, TypeOK, TurnRecord, DispatchInv, Typed
  <2>4. OnIt(Task("body"))
    BY DEF OnIt, Task, BodyPhases
  <2> QED BY <2>2, <2>3, <2>4 DEF Held
<1>5. ASSUME NEW w \in Workers, Drained(w) PROVE Held'
  <2>1. \A t \in Turns : turns[t].status = "running" => turns[t].worker # w
    BY <1>5 DEF Drained, InFlight, Held, OnIt, BodyPhases
  <2> QED BY <1>1, <1>5, <2>1 DEF Drained, storeVars, Held
<1>6. ASSUME NEW w \in Workers, Crash(w) PROVE Held'
  <2>1. /\ turns' = turns /\ proc' = [proc EXCEPT ![w] = "crashed"]
        /\ \A t \in Turns : turns[t].worker # w => task'[t] = task[t]
    BY <1>6 DEF Crash, storeVars, InFlight
  <2> HIDE DEF OnIt
  <2> QED BY <1>1, <2>1 DEF Held
<1>7. ASSUME NEW t \in Turns, TaskStep(t) \/ Heartbeat(t) \/ HeartbeatFails(t) PROVE Held'
  BY <1>7, TaskHeld
<1>8. ASSUME NEW w \in Workers, NEW rt \in Runtimes,
             ShardStep(w, rt) \/ \E s \in Sessions : Evict(w, rt, s)
      PROVE  Held'
  BY <1>8, ShardHeld
<1> QED BY <1>2, <1>3, <1>4, <1>5, <1>6, <1>7, <1>8 DEF Next

\* A process that drained leaves no row running, as long as the store answers:
\* with its tasks ended, each of its turns was completed, failed or swept.
THEOREM DrainLeavesNothing ==
  ASSUME ~StoreErrors
  PROVE  Spec => []DrainedOwnsNothing
<1>1. Init => Held
  BY DEF Init, StoreInit, NoTurn, Held
<1>2. DispatchInv /\ Held /\ [Next]_vars => Held'
  BY StepHeld
<1>3. Held => DrainedOwnsNothing
  BY DEF Held, DrainedOwnsNothing, Owns, Alive
<1>4. Spec => []DispatchInv
  BY DispatchInvariance
<1> QED BY <1>1, <1>2, <1>3, <1>4, PTL DEF Spec
=============================================================================
