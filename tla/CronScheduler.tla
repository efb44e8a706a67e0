---------------------------- MODULE CronScheduler ----------------------------
(***************************************************************************)
(* The scheduler: a job's durable cursor, the runs its fires materialize,  *)
(* and the daemons that run them.  Several server processes may each have  *)
(* a daemon.  Fires are numbered in schedule order; fire f is due once the *)
(* clock has reached f.  The job is the weekly ship ledger, always enabled *)
(* and within its bounds.  What a run says is left out: an execution       *)
(* creates a session of its own and either succeeds or does not.           *)
(***************************************************************************)
EXTENDS Leases

CONSTANTS
  MaxFire,       \* bound on the schedule
  FirstClock,    \* fires already due when the behaviour starts
  MaxCatchUp,    \* fires one tick may materialize (1 in the code)
  ClaimsPerTick, \* runs one tick may execute (8 in the code)
  MaxSessions,   \* bound on the sessions executions create
  MaxCronCrashes \* bound on crashes of daemons

ASSUME CronAssumption ==
  /\ MaxFire \in Nat /\ FirstClock \in 0..MaxFire
  /\ MaxCatchUp \in Nat /\ ClaimsPerTick \in Nat /\ MaxSessions \in Nat
  /\ MaxCronCrashes \in Nat

Fires == 1..MaxFire

VARIABLES
  clock,      \* the fires due so far are 1..clock
  cursor,     \* the job's next_run_at, as a fire; 0 before registration
  cronRun,    \* cronRun[f]: the leased row of cron_runs for fire f
  runSession, \* runSession[f]: the session a completed run names, 0 for none
  sessions,   \* sessions created by executions so far
  daemon,     \* daemon[w]: the scheduler daemon of slot w
  cronCrashes \* crashes so far

cronVars == <<clock, cursor, cronRun, runSession, sessions, daemon, cronCrashes>>

-----------------------------------------------------------------------------
CronStatus == {"none", "queued", "running", "completed", "failed"}

\* at: the daemon's copy of the cursor; quota: fires, then claims, left in
\* this tick; session: the session of the execution, 0 before it has one.
Down == [pc |-> "down", at |-> 0, quota |-> 0, fire |-> 0,
         lease |-> LeaseOf(NoRow), session |-> 0]

CronTypeOK ==
  /\ clock \in 0..MaxFire
  /\ cursor \in 0..(MaxFire + 1)
  /\ cronRun \in [Fires -> Row(CronStatus, MaxAttempts)]
  /\ runSession \in [Fires -> 0..MaxSessions]
  /\ sessions \in 0..MaxSessions
  /\ daemon \in [Slots -> [pc : {"down", "sleep", "fill", "claim", "open", "run",
                                "report", "complete", "fail"},
                           at : 0..(MaxFire + 1), quota : 0..(MaxCatchUp + ClaimsPerTick),
                           fire : 0..MaxFire,
                           lease : [owner : LeaseOwners \cup {NoOwner},
                                    epoch : 0..MaxAttempts],
                           session : 0..MaxSessions]]
  /\ cronCrashes \in 0..MaxCronCrashes

CronInit ==
  /\ clock = FirstClock
  /\ cursor = 1
  /\ cronRun = [f \in Fires |-> NoRow]
  /\ runSession = [f \in Fires |-> 0]
  /\ sessions = 0
  /\ daemon = [w \in Slots |-> Down]
  /\ cronCrashes = 0

\* The schedule's next_after.
NextAfter(f) == f + 1

AdvanceClock ==
  /\ clock < MaxFire
  /\ clock' = clock + 1
  /\ UNCHANGED <<cursor, cronRun, runSession, sessions, daemon, cronCrashes>>

-----------------------------------------------------------------------------
(* The daemon's tick.                                                      *)

\* upsert_cron_job: registration never moves a cursor that is set.
Registered == IF cursor = 0 THEN NextAfter(clock) ELSE cursor

\* run_scheduler_daemon registers the job, then ticks.
StartDaemon(w) ==
  /\ daemon[w].pc = "down"
  /\ cursor' = Registered
  /\ daemon' = [daemon EXCEPT ![w] = [Down EXCEPT !.pc = "sleep"]]
  /\ UNCHANGED <<clock, cronRun, runSession, sessions, cronCrashes>>

\* materialize_due_cron_runs reads the job once.
BeginTick(w) ==
  /\ daemon[w].pc = "sleep"
  /\ daemon' = [daemon EXCEPT ![w] =
       [Down EXCEPT !.pc = "fill", !.at = cursor, !.quota = MaxCatchUp]]
  /\ UNCHANGED <<clock, cursor, cronRun, runSession, sessions, cronCrashes>>

Filling(w) == daemon[w].at <= clock /\ daemon[w].quota > 0

\* Variant, not the code: the cursor is not compared.
MaterializeRunBlind(w) ==
  LET f == daemon[w].at
  IN /\ daemon[w].pc = "fill" /\ Filling(w)
     /\ cursor' = NextAfter(f)
     /\ cronRun' = [cronRun EXCEPT ![f] = IF @.status = "none" THEN NewRow(TRUE) ELSE @]
     /\ daemon' = [daemon EXCEPT ![w].at = NextAfter(f), ![w].quota = @ - 1]
     /\ UNCHANGED <<clock, runSession, sessions, cronCrashes>>

\* materialize_cron_run: moves the cursor if it is still where the daemon
\* read it, and inserts the run unless the fire has one.
MaterializeRun(w) ==
  LET f == daemon[w].at
  IN /\ daemon[w].pc = "fill" /\ Filling(w) /\ cursor = f
     /\ cursor' = NextAfter(f)
     /\ cronRun' = [cronRun EXCEPT ![f] = IF @.status = "none" THEN NewRow(TRUE) ELSE @]
     /\ daemon' = [daemon EXCEPT ![w].at = NextAfter(f), ![w].quota = @ - 1]
     /\ UNCHANGED <<clock, runSession, sessions, cronCrashes>>

\* Another daemon moved the cursor, nothing more is due, or the quota is used.
EndFill(w) ==
  /\ daemon[w].pc = "fill"
  /\ Filling(w) => cursor # daemon[w].at
  /\ daemon' = [daemon EXCEPT ![w].pc = "claim", ![w].quota = ClaimsPerTick]
  /\ UNCHANGED <<clock, cursor, cronRun, runSession, sessions, cronCrashes>>

ReadyRuns == {f \in Fires : Takeable(cronRun[f]) /\ cronRun[f].attempts < MaxAttempts}

\* claim_ready_cron_run.
ClaimRun(w) ==
  /\ daemon[w].pc = "claim" /\ daemon[w].quota > 0
  /\ \E f \in ReadyRuns :
       /\ cronRun' = [Swept(cronRun) EXCEPT ![f] = Taken(cronRun[f], w)]
       /\ daemon' = [daemon EXCEPT ![w].pc = "open", ![w].fire = f, ![w].quota = @ - 1,
                                   ![w].lease = LeaseOf(Taken(cronRun[f], w))]
  /\ UNCHANGED <<clock, cursor, runSession, sessions, cronCrashes>>

\* Nothing to claim, or enough claimed: sleep for the poll interval.
EndTick(w) ==
  /\ daemon[w].pc = "claim"
  /\ daemon[w].quota = 0 \/ ReadyRuns = {}
  /\ cronRun' = IF daemon[w].quota > 0 THEN Swept(cronRun) ELSE cronRun
  /\ daemon' = [daemon EXCEPT ![w] = [Down EXCEPT !.pc = "sleep"]]
  /\ UNCHANGED <<clock, cursor, runSession, sessions, cronCrashes>>

\* The row of a fire a trigger claims: the one there is, or a new one.
FoundRow(f) == IF cronRun[f].status = "none" THEN NoRow ELSE cronRun[f]

\* trigger_weekly_ship_ledger at an arbitrary fire: claim_cron_run inserts
\* the run leased, or claims the one there is, or settles a spent one.
TriggerRun(w, f) ==
  LET r == cronRun[f]
  IN /\ daemon[w].pc = "sleep"
     /\ \/ /\ r.status = "none" \/ (Takeable(r) /\ ~Spent(r))
           /\ cronRun' = [cronRun EXCEPT ![f] = Taken(FoundRow(f), w)]
           /\ daemon' = [daemon EXCEPT ![w] =
                [Down EXCEPT !.pc = "open", !.fire = f, !.lease = LeaseOf(Taken(FoundRow(f), w))]]
        \/ /\ Spent(r)
           /\ cronRun' = [cronRun EXCEPT ![f] = Released(@, "failed")]
           /\ UNCHANGED daemon
     /\ UNCHANGED <<clock, cursor, runSession, sessions, cronCrashes>>

-----------------------------------------------------------------------------
(* execute_weekly_ship_ledger_lease.                                       *)

CronTo(w, pc) == daemon' = [daemon EXCEPT ![w].pc = pc]

\* Creates the session of this execution and logs cron_run_started in it.
OpenSession(w) ==
  /\ daemon[w].pc = "open" /\ sessions < MaxSessions
  /\ sessions' = sessions + 1
  /\ daemon' = [daemon EXCEPT ![w].pc = "run", ![w].session = sessions + 1]
  /\ UNCHANGED <<clock, cursor, cronRun, runSession, cronCrashes>>

\* The turn ends well, or with an error, or by the script timeout.
RunTurn(w) ==
  /\ daemon[w].pc = "run"
  /\ CronTo(w, "report") \/ CronTo(w, "fail")
  /\ UNCHANGED <<clock, cursor, cronRun, runSession, sessions, cronCrashes>>

\* The answer and cron_run_completed are logged before the run is settled;
\* a store error on the way fails the run.
ReportRun(w) ==
  /\ daemon[w].pc = "report"
  /\ CronTo(w, "complete") \/ CronTo(w, "fail")
  /\ UNCHANGED <<clock, cursor, cronRun, runSession, sessions, cronCrashes>>

\* After a claimed run the tick goes on claiming; a trigger returns.
AfterRun(w) ==
  [daemon EXCEPT ![w] = [Down EXCEPT
     !.pc = IF daemon[w].at = 0 THEN "sleep" ELSE "claim",
     !.at = daemon[w].at, !.quota = daemon[w].quota]]

CompleteRun(w) ==
  LET f == daemon[w].fire
      held == Holds(cronRun[f], daemon[w].lease)
  IN /\ daemon[w].pc = "complete"
     /\ cronRun' = IF held THEN [cronRun EXCEPT ![f] = Released(@, "completed")] ELSE cronRun
     /\ runSession' = IF held THEN [runSession EXCEPT ![f] = daemon[w].session] ELSE runSession
     /\ daemon' = AfterRun(w)
     /\ UNCHANGED <<clock, cursor, sessions, cronCrashes>>

\* fail_cron_run; the tick calls it again on the error it gets back, by then
\* without a lease to lose.
FailRun(w) ==
  LET f == daemon[w].fire
  IN /\ daemon[w].pc = "fail"
     /\ cronRun' = IF Holds(cronRun[f], daemon[w].lease)
                   THEN [cronRun EXCEPT ![f] = Failed(@)] ELSE cronRun
     /\ daemon' = AfterRun(w)
     /\ UNCHANGED <<clock, cursor, runSession, sessions, cronCrashes>>

\* heartbeat_cron_run while the turn runs; a lost lease is an error.
HeartbeatRun(w) ==
  LET f == daemon[w].fire
      held == Holds(cronRun[f], daemon[w].lease)
  IN /\ daemon[w].pc = "run"
     /\ held => cronRun[f].stale
     /\ cronRun' = IF held THEN [cronRun EXCEPT ![f] = Renewed(@)] ELSE cronRun
     /\ daemon' = IF held THEN daemon ELSE [daemon EXCEPT ![w].pc = "fail"]
     /\ UNCHANGED <<clock, cursor, runSession, sessions, cronCrashes>>

ElapseRun(f) ==
  /\ cronRun' = [cronRun EXCEPT ![f] = Elapse(@)]
  /\ cronRun' # cronRun
  /\ UNCHANGED <<clock, cursor, runSession, sessions, daemon, cronCrashes>>

CrashDaemon(w) ==
  /\ daemon[w].pc # "down" /\ cronCrashes < MaxCronCrashes
  /\ cronCrashes' = cronCrashes + 1
  /\ daemon' = [daemon EXCEPT ![w] = Down]
  /\ UNCHANGED <<clock, cursor, cronRun, runSession, sessions>>

CronStep(w) ==
  \/ StartDaemon(w) \/ BeginTick(w) \/ MaterializeRun(w) \/ EndFill(w)
  \/ ClaimRun(w) \/ EndTick(w) \/ OpenSession(w) \/ RunTurn(w) \/ ReportRun(w)
  \/ CompleteRun(w) \/ FailRun(w)

CronNext ==
  \/ AdvanceClock
  \/ \E w \in Slots : CronStep(w) \/ HeartbeatRun(w) \/ CrashDaemon(w)
  \/ \E w \in Slots, f \in Fires : TriggerRun(w, f)
  \/ \E f \in Fires : ElapseRun(f)

CronSpec == CronInit /\ [][CronNext]_cronVars

-----------------------------------------------------------------------------
(* Properties.                                                             *)

\* The cursor passes a fire only by giving it a run: re-registration,
\* racing daemons, manual triggers and crashes skip none.
NoFireSkipped == \A f \in Fires : f < cursor => cronRun[f].status # "none"

\* The cursor never goes back, so no fire is materialized twice.
CursorAdvances == [][cursor' >= cursor]_cronVars

\* A completed run names the session of the execution that completed it, and
\* no two runs share one.
RunNamesItsSession ==
  \A f \in Fires :
    cronRun[f].status = "completed" =>
      /\ runSession[f] # 0
      /\ \A g \in Fires \ {f} : runSession[g] # runSession[f]

CronWork == INSTANCE LeasedWork WITH
  Items <- Fires,
  MaxTries <- MaxAttempts,
  work <- [f \in Fires |->
             [state |-> CASE cronRun[f].status = "none" -> "absent"
                          [] cronRun[f].status = "completed" -> "done"
                          [] cronRun[f].status = "failed" -> "dead"
                          [] OTHER -> "open",
              tries |-> cronRun[f].attempts]]

\* Daemons and triggers together treat the runs as a bounded work queue.
RunsAreLeasedWork == CronWork!WorkSpec

\* What the scheduler promises.
CronCorrect ==
  /\ []CronTypeOK
  /\ []NoFireSkipped
  /\ []RunNamesItsSession
  /\ CursorAdvances
  /\ RunsAreLeasedWork
=============================================================================
