----------------------------- MODULE TurnDispatch -----------------------------
(***************************************************************************)
(* Turn dispatchers over the store of TurnStore, one per server process,   *)
(* and the interpreter shards they drive.  A dispatcher claims turns, runs *)
(* each body in a task with a heartbeat beside it, and then completes and  *)
(* promotes, or aborts and fails.  A body submits its run to the shard of  *)
(* its runtime, which keeps one live interpreter per session and serves    *)
(* run, promote and abort requests one at a time.                          *)
(*                                                                         *)
(* A worker id is used by one process only: a restart is another worker.   *)
(* One shard stands for the pool of a runtime, the most serialised case.   *)
(***************************************************************************)
EXTENDS TurnStore, SequencesExt

CONSTANTS
  RuntimeOrder,  \* the configured runtimes in the order aborts visit them
  MaxInFlight,   \* turns a dispatcher runs at once
  StoreErrors,   \* whether a store call may fail for reasons of its own
  TimelyHeartbeats \* whether a healthy task always refreshes its row in time

ASSUME DispatchAssumption ==
  /\ RuntimeOrder \in Seq(Range(RuntimeOrder))
  /\ MaxInFlight \in Nat \ {0}
  /\ StoreErrors \in BOOLEAN /\ TimelyHeartbeats \in BOOLEAN
  /\ None \notin Turns

VARIABLES
  proc,   \* proc[w]: the life of the process whose dispatcher is w
  task,   \* task[t]: where the task that runs turn t is
  queue,  \* queue[w][rt]: requests waiting for a shard
  exec,   \* exec[w][rt]: the turn a shard is running, or None
  cache   \* cache[w][rt][s]: the live interpreter of a session

taskVars == <<proc, task, queue, exec, cache>>
vars == <<session, turns, messages, proc, task, queue, exec, cache>>

Runtimes == Range(RuntimeOrder)

Phases == {"idle", "body", "wait", "post", "complete", "promote", "promoteWait",
           "abort", "abortWait", "fail", "done"}

BodyPhases == {"body", "wait", "post"}

Task(phase) ==
  [phase |-> phase, rt |-> None, todo |-> <<>>, then |-> "done",
   lost |-> FALSE, cancelled |-> FALSE]

\* A session's interpreter: the turn whose promotion it awaits, and (for the
\* properties only) the turns whose effects it carries.
NoInterpreter == [live |-> FALSE, pending |-> None, carries |-> {}]

Interpreter(pending, carries) == [live |-> TRUE, pending |-> pending, carries |-> carries]

Alive(w) == proc[w] \in {"up", "draining"}

InFlight(w) ==
  {t \in Turns : turns[t].worker = w /\ task[t].phase \notin {"idle", "done"}}

Send(t, rt, op) ==
  queue' = [queue EXCEPT ![turns[t].worker][rt] = Append(@, [op |-> op, turn |-> t])]

-----------------------------------------------------------------------------
Init ==
  /\ StoreInit
  /\ proc = [w \in Workers |-> "off"]
  /\ task = [t \in Turns |-> Task("idle")]
  /\ queue = [w \in Workers |-> [rt \in Runtimes |-> <<>>]]
  /\ exec = [w \in Workers |-> [rt \in Runtimes |-> None]]
  /\ cache = [w \in Workers |-> [rt \in Runtimes |-> [s \in Sessions |-> NoInterpreter]]]

\* Something will still run turns once w is gone: the service is restarted.
Replaceable(w) == \E v \in Workers \ {w} : proc[v] \in {"off", "up"}

NothingStale == (\A t \in Turns : ~Stale(t)) /\ UNCHANGED storeVars

\* Variant, not the code: rows left running are queued again at startup.
StartRequeueing(w) ==
  /\ proc[w] = "off"
  /\ proc' = [proc EXCEPT ![w] = "up"]
  /\ RequeueStaleRunningTurns \/ NothingStale
  /\ UNCHANGED <<task, queue, exec, cache>>

\* The dispatcher sweeps stale rows before its first claim.
Start(w) ==
  /\ proc[w] = "off"
  /\ proc' = [proc EXCEPT ![w] = "up"]
  /\ FailStaleRunningTurns \/ NothingStale
  /\ UNCHANGED <<task, queue, exec, cache>>

\* A failed startup sweep ends the dispatcher, and with it the process.
StartFails(w) ==
  /\ proc[w] = "off" /\ StoreErrors /\ Replaceable(w)
  /\ proc' = [proc EXCEPT ![w] = "crashed"]
  /\ UNCHANGED <<storeVars, task, queue, exec, cache>>

Claim(w) ==
  /\ proc[w] = "up"
  /\ Cardinality(InFlight(w)) < MaxInFlight
  /\ \E t \in Turns : ClaimNextTurn(t, w) /\ task' = [task EXCEPT ![t] = Task("body")]
  /\ UNCHANGED <<proc, queue, exec, cache>>

\* Variant, not the code: only the startup sweep fails stale rows.
PeriodicSweepNever(w) == proc[w] = "up" /\ FALSE /\ UNCHANGED vars

\* On a timer, and not only at startup: a peer that dies later is swept too.
PeriodicSweep(w) ==
  /\ proc[w] = "up"
  /\ FailStaleRunningTurns
  /\ UNCHANGED taskVars

\* Shutdown stops claims and sweeps; owned turns go on.
Shutdown(w) ==
  /\ proc[w] = "up" /\ Replaceable(w)
  /\ proc' = [proc EXCEPT ![w] = "draining"]
  /\ UNCHANGED <<storeVars, task, queue, exec, cache>>

Forget(w) ==
  /\ queue' = [queue EXCEPT ![w] = [rt \in Runtimes |-> <<>>]]
  /\ exec' = [exec EXCEPT ![w] = [rt \in Runtimes |-> None]]
  /\ cache' = [cache EXCEPT ![w] = [rt \in Runtimes |-> [s \in Sessions |-> NoInterpreter]]]

\* Variant, not the code: the drain does not wait for the tasks in flight.
DrainedAtOnce(w) ==
  /\ proc[w] = "draining"
  /\ proc' = [proc EXCEPT ![w] = "drained"]
  /\ task' = [t \in Turns |-> IF t \in InFlight(w) THEN Task("done") ELSE task[t]]
  /\ Forget(w)
  /\ UNCHANGED storeVars

\* The dispatcher returns once every task it owns has ended.
Drained(w) ==
  /\ proc[w] = "draining" /\ InFlight(w) = {}
  /\ proc' = [proc EXCEPT ![w] = "drained"]
  /\ Forget(w)
  /\ UNCHANGED <<storeVars, task>>

\* A crash, or the hard abort once the drain grace has passed.
Crash(w) ==
  /\ Alive(w) /\ Replaceable(w)
  /\ proc' = [proc EXCEPT ![w] = "crashed"]
  /\ task' = [t \in Turns |-> IF t \in InFlight(w) THEN Task("done") ELSE task[t]]
  /\ Forget(w)
  /\ UNCHANGED storeVars

-----------------------------------------------------------------------------
(* The task of a claimed turn. *)

\* The next request of an abort over the runtimes rts, then the phase nxt.
AbortThen(t, rts, nxt) ==
  task' = [task EXCEPT ![t].phase = "abort", ![t].todo = rts, ![t].then = nxt]

\* The body returned an error: abort every runtime, then fail the row, unless
\* the heartbeat was lost before, which leaves the row alone.
BodyError(t) == AbortThen(t, RuntimeOrder, IF task[t].lost THEN "done" ELSE "fail")

\* The body has what it needs and hands the run to the runtime of its mode.
SubmitRun(t) ==
  /\ task[t].phase = "body"
  /\ \E rt \in Runtimes :
       /\ Send(t, rt, "run")
       /\ task' = [task EXCEPT ![t].phase = "wait", ![t].rt = rt]
  /\ UNCHANGED <<storeVars, proc, exec, cache>>

\* A step of the body before or after the run fails.
BodyStepFails(t) ==
  /\ task[t].phase \in {"body", "post"}
  /\ BodyError(t)
  /\ UNCHANGED <<storeVars, proc, queue, exec, cache>>

BodyReturns(t) ==
  /\ task[t].phase = "post"
  /\ IF task[t].lost THEN AbortThen(t, RuntimeOrder, "done")
                     ELSE task' = [task EXCEPT ![t].phase = "complete"]
  /\ UNCHANGED <<storeVars, proc, queue, exec, cache>>

Heartbeat(t) ==
  /\ task[t].phase \in BodyPhases /\ ~task[t].lost
  /\ HeartbeatTurn(t, turns[t].worker)
  /\ UNCHANGED taskVars

\* A heartbeat that fails for any reason is the last: the run is cancelled,
\* if it is registered by now, and the body awaited without heartbeats.
HeartbeatFails(t) ==
  /\ task[t].phase \in BodyPhases /\ ~task[t].lost
  /\ StoreErrors \/ ~Owns(t, turns[t].worker)
  /\ task' = [task EXCEPT ![t].lost = TRUE, ![t].cancelled = (task[t].phase = "wait")]
  /\ UNCHANGED <<storeVars, proc, queue, exec, cache>>

\* The answer is committed, then promoted; a commit that fails, or whose reply
\* is lost, aborts the run's runtime and leaves the row alone.
Complete(t) ==
  /\ task[t].phase = "complete"
  /\ \/ /\ CompleteTurn(t, turns[t].worker)
        /\ task' = [task EXCEPT ![t].phase = "promote"]
     \/ /\ StoreErrors /\ CompleteTurn(t, turns[t].worker)
        /\ AbortThen(t, <<task[t].rt>>, "done")
     \/ /\ StoreErrors \/ ~Owns(t, turns[t].worker)
        /\ AbortThen(t, <<task[t].rt>>, "done")
        /\ UNCHANGED storeVars
  /\ UNCHANGED <<proc, queue, exec, cache>>

SendPromote(t) ==
  /\ task[t].phase = "promote"
  /\ Send(t, task[t].rt, "promote")
  /\ task' = [task EXCEPT ![t].phase = "promoteWait"]
  /\ UNCHANGED <<storeVars, proc, exec, cache>>

\* Aborts visit the runtimes one after the other, each awaiting its reply.
SendAbort(t) ==
  /\ task[t].phase = "abort" /\ task[t].todo # <<>>
  /\ Send(t, Head(task[t].todo), "abort")
  /\ task' = [task EXCEPT ![t].phase = "abortWait"]
  /\ UNCHANGED <<storeVars, proc, exec, cache>>

AbortDone(t) ==
  /\ task[t].phase = "abort" /\ task[t].todo = <<>>
  /\ task' = [task EXCEPT ![t] = Task(@.then)]
  /\ UNCHANGED <<storeVars, proc, queue, exec, cache>>

\* Failing a row that was swept, or that the store cannot reach, is given up.
Fail(t) ==
  /\ task[t].phase = "fail"
  /\ \/ FailTurn(t, turns[t].worker)
     \/ (StoreErrors \/ ~Owns(t, turns[t].worker)) /\ UNCHANGED storeVars
  /\ task' = [task EXCEPT ![t] = Task("done")]
  /\ UNCHANGED <<proc, queue, exec, cache>>

-----------------------------------------------------------------------------
(* A shard serves its queue when it is not running a turn. *)

Serves(w, rt, op) ==
  /\ exec[w][rt] = None
  /\ queue[w][rt] # <<>>
  /\ Head(queue[w][rt]).op = op

Pop(w, rt) == queue' = [queue EXCEPT ![w][rt] = Tail(@)]

\* Variant, not the code: a pending interpreter is reused by the next turn.
SettledOrPending(c) == c.live

\* An interpreter is reused only when no promotion is pending.
Settled(c) == c.live /\ c.pending = None

\* The run starts on the session's interpreter or, when that is missing,
\* pending or of another profile, on a fresh one.
ShardRun(w, rt) ==
  LET t == Head(queue[w][rt]).turn
      s == turns[t].session
      c == cache[w][rt][s]
  IN
  /\ Serves(w, rt, "run")
  /\ Pop(w, rt)
  /\ exec' = [exec EXCEPT ![w][rt] = t]
  /\ \E fresh \in BOOLEAN :
       /\ fresh \/ Settled(c)
       /\ cache' = [cache EXCEPT ![w][rt][s] =
                      Interpreter(None, IF fresh THEN {t} ELSE c.carries \cup {t})]
  /\ UNCHANGED <<storeVars, proc, task>>

\* A successful run leaves its interpreter pending.
Quarantine(t, c) == Interpreter(t, c.carries)

\* The run ends: quarantined on success, which a cancelled run never has;
\* the interpreter dropped otherwise.
ShardFinish(w, rt) ==
  LET t == exec[w][rt]
      s == turns[t].session
      c == cache[w][rt][s]
  IN
  /\ exec[w][rt] # None
  /\ exec' = [exec EXCEPT ![w][rt] = None]
  /\ \/ /\ ~task[t].cancelled
        /\ cache' = [cache EXCEPT ![w][rt][s] = Quarantine(t, c)]
        /\ task' = [task EXCEPT ![t].phase = "post"]
     \/ /\ cache' = [cache EXCEPT ![w][rt][s] = NoInterpreter]
        /\ BodyError(t)
  /\ UNCHANGED <<storeVars, proc, queue>>

\* The interpreter pending for exactly this turn becomes reusable; one pending
\* for another turn is a conflict, answered by an abort.
ShardPromote(w, rt) ==
  LET t == Head(queue[w][rt]).turn
      s == turns[t].session
      c == cache[w][rt][s]
  IN
  /\ Serves(w, rt, "promote")
  /\ Pop(w, rt)
  /\ IF c.live /\ c.pending \notin {None, t}
     THEN AbortThen(t, <<rt>>, "done") /\ UNCHANGED cache
     ELSE /\ cache' = [cache EXCEPT ![w][rt][s] =
                         IF c.live THEN Interpreter(None, c.carries) ELSE c]
          /\ task' = [task EXCEPT ![t] = Task("done")]
  /\ UNCHANGED <<storeVars, proc, exec>>

ShardAbort(w, rt) ==
  LET t == Head(queue[w][rt]).turn
      s == turns[t].session
  IN
  /\ Serves(w, rt, "abort")
  /\ Pop(w, rt)
  /\ cache' = IF cache[w][rt][s].pending = t
              THEN [cache EXCEPT ![w][rt][s] = NoInterpreter] ELSE cache
  /\ task' = [task EXCEPT ![t].phase = "abort", ![t].todo = Tail(@)]
  /\ UNCHANGED <<storeVars, proc, exec>>

\* An idle interpreter outlives its time to live.
Evict(w, rt, s) ==
  /\ exec[w][rt] = None
  /\ cache[w][rt][s].live
  /\ cache' = [cache EXCEPT ![w][rt][s] = NoInterpreter]
  /\ UNCHANGED <<storeVars, proc, task, queue, exec>>

-----------------------------------------------------------------------------
ClientStep == (PostMessage \/ \E s \in Sessions : EndSession(s)) /\ UNCHANGED taskVars

\* Time passes.  With timely heartbeats a row grows stale only once its process
\* is gone, its heartbeat was lost or its task is over.
Time ==
  /\ TimelyHeartbeats => \A w \in Workers : \A t \in InFlight(w) :
       Owns(t, w) /\ ~task[t].lost => turns[t].age + 1 < StaleTimeout
  /\ Tick
  /\ UNCHANGED taskVars

TaskStep(t) ==
  \/ SubmitRun(t) \/ BodyStepFails(t) \/ BodyReturns(t)
  \/ Complete(t) \/ SendPromote(t) \/ SendAbort(t) \/ AbortDone(t) \/ Fail(t)

ShardStep(w, rt) ==
  ShardRun(w, rt) \/ ShardFinish(w, rt) \/ ShardPromote(w, rt) \/ ShardAbort(w, rt)

Next ==
  \/ ClientStep
  \/ Time
  \/ \E w \in Workers :
       Start(w) \/ StartFails(w) \/ Claim(w) \/ PeriodicSweep(w)
         \/ Shutdown(w) \/ Drained(w) \/ Crash(w)
  \/ \E t \in Turns : TaskStep(t) \/ Heartbeat(t) \/ HeartbeatFails(t)
  \/ \E w \in Workers, rt \in Runtimes :
       ShardStep(w, rt) \/ \E s \in Sessions : Evict(w, rt, s)

\* The service is restarted, dispatchers poll and sweep on timers, tasks are
\* polled, shard threads run, runs end (bounded agent loops) and time passes.
Fairness ==
  /\ \A w \in Workers : WF_vars(Start(w)) /\ WF_vars(Claim(w)) /\ WF_vars(PeriodicSweep(w))
  /\ \A t \in Turns : WF_vars(TaskStep(t))
  /\ \A w \in Workers, rt \in Runtimes : WF_vars(ShardStep(w, rt))
  /\ WF_vars(Time)

Spec == Init /\ [][Next]_vars
FairSpec == Spec /\ Fairness

-----------------------------------------------------------------------------
(* Properties. *)

Completed == {t \in Turns : turns[t].status = "completed"}

\* Every variable holds values of its type.
DispatchTypeOK ==
  /\ proc \in [Workers -> {"off", "up", "draining", "drained", "crashed"}]
  /\ task \in [Turns -> [phase : Phases, rt : Runtimes \cup {None},
                         todo : Suffixes(RuntimeOrder) \cup {<<rt>> : rt \in Runtimes},
                         then : {"done", "fail"}, lost : BOOLEAN, cancelled : BOOLEAN]]
  /\ \A w \in Workers, rt \in Runtimes :
       /\ exec[w][rt] \in Turns \cup {None}
       /\ Range(queue[w][rt]) \subseteq [op : {"run", "promote", "abort"}, turn : Turns]
       /\ \A s \in Sessions : cache[w][rt][s] \in
            [live : BOOLEAN, pending : Turns \cup {None}, carries : SUBSET Turns]

\* A live interpreter carries the effects of completed turns only, besides the
\* turn it is running and the turn it is quarantined for: nothing a failed,
\* lost or swept turn did reaches a later turn of the session.
OnlyCompletedEffectsAreReused ==
  \A w \in Workers, rt \in Runtimes, s \in Sessions :
    cache[w][rt][s].carries
      \subseteq Completed \cup {cache[w][rt][s].pending, exec[w][rt]}

\* A process that drained left no row running: its turns were all completed or
\* failed before it stopped (while the store itself does not fail).
DrainedOwnsNothing ==
  \A w \in Workers : proc[w] = "drained" => ~\E t \in Turns : Owns(t, w)

\* Every posted turn is answered or failed, although processes crash, drain and
\* restart, heartbeats fail and commits are lost.
EveryTurnEnds ==
  \A t \in Turns : turns[t].status \in {"queued", "running"}
                     ~> turns[t].status \in {"completed", "failed"}

\* What the dispatcher's processes and interpreters promise.
DispatchSafe ==
  /\ DispatchTypeOK
  /\ OnlyCompletedEffectsAreReused
=============================================================================
