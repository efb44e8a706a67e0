---------------------------- MODULE RemoteWorker ----------------------------
(***************************************************************************)
(* A host call executed by the external tm-worker: the coordinator's       *)
(* client posts a job, polls it, answers its approval prompt and cancels   *)
(* it when it leaves early; the worker keeps every job in memory and in a  *)
(* ledger on disk, and turns what a restart interrupted into               *)
(* "indeterminate".  The client draws a fresh id for every call and never  *)
(* repeats its POST, so one call is one job.                               *)
(***************************************************************************)
EXTENDS Naturals, FiniteSets

CONSTANTS
    Jobs,               \* calls and the jobs they create
    Slots,              \* max_concurrent_jobs
    MaxLedgerFaults,    \* ledger writes that fail
    MaxWorkerCrashes

ASSUME WorkerConstants ==
    /\ IsFiniteSet(Jobs) /\ Slots \in Nat \ {0}
    /\ {MaxLedgerFaults, MaxWorkerCrashes} \subseteq Nat

VARIABLES
    mem,        \* the worker's map of jobs
    disk,       \* its ledger
    jobTask,       \* where the job's task stands, and whether it has been aborted
    sender,     \* the registered approval waiter: "none", "open", or the decision sent
    canceller,  \* the cancel request of each job: idle, sent, checked, wrote
    call,       \* the coordinator's side
    effect,     \* history: the guarded operation was carried out
    consent,    \* history: the user approved the action
    spoiled     \* ledger faults and crashes so far

workerVars == <<mem, disk, jobTask, sender, canceller, call, effect, consent, spoiled>>

Ends == {"succeeded", "failed", "cancelled", "indeterminate"}
Statuses == {"queued", "running", "awaiting"} \cup Ends
NoTask == [pc |-> "none", doomed |-> FALSE, guarded |-> FALSE]
NewCall == [pc |-> "new", seen |-> "none", answered |-> FALSE, result |-> "none"]

WorkerTypeOK ==
    /\ mem \in [Jobs -> Statuses \cup {"none"}]
    /\ disk \in [Jobs -> Statuses \cup {"none"}]
    /\ jobTask \in [Jobs -> [pc : {"none", "queued", "starting", "invoking", "prompting", "waiting",
                                "granting", "acting", "succeeding", "failing", "saving"},
                          doomed : BOOLEAN, guarded : BOOLEAN]]
    /\ sender \in [Jobs -> {"none", "open", "approved", "denied"}]
    /\ canceller \in [Jobs -> {"idle", "sent", "checked", "wrote"}]
    /\ call \in [Jobs -> [pc : {"new", "polling", "approving", "denying", "done"},
                          seen : Statuses \cup {"none"}, answered : BOOLEAN,
                          result : {"none", "ok", "error"}]]
    /\ effect \in [Jobs -> BOOLEAN] /\ consent \in [Jobs -> BOOLEAN]
    /\ spoiled \in [faults : 0..MaxLedgerFaults, crashes : 0..MaxWorkerCrashes]

WorkerInit ==
    /\ mem = [j \in Jobs |-> "none"] /\ disk = [j \in Jobs |-> "none"]
    /\ jobTask = [j \in Jobs |-> NoTask]
    /\ sender = [j \in Jobs |-> "none"]
    /\ canceller = [j \in Jobs |-> "idle"]
    /\ call = [j \in Jobs |-> NewCall]
    /\ effect = [j \in Jobs |-> FALSE] /\ consent = [j \in Jobs |-> FALSE]
    /\ spoiled = [faults |-> 0, crashes |-> 0]

-----------------------------------------------------------------------------
(* The coordinator's call: RemoteWorkerClient::execute.                    *)

CallIs(j, pc) == call[j].pc = pc
Return(j, result) == call' = [call EXCEPT ![j].pc = "done", ![j].result = result]

\* Leaving with the guard armed spawns a best-effort DELETE, which may be lost.
Leave(j) ==
    /\ Return(j, "error")
    /\ \/ canceller' = [canceller EXCEPT ![j] = "sent"]
       \/ UNCHANGED canceller

SpoilLedger ==
    /\ spoiled.faults < MaxLedgerFaults
    /\ spoiled' = [spoiled EXCEPT !.faults = @ + 1]

\* POST /v1/jobs.  The guard exists only once the answer was read: a lost answer
\* leaves a job that nobody will cancel.
PostJob(j) ==
    /\ CallIs(j, "new")
    /\ \/ /\ mem' = [mem EXCEPT ![j] = "queued"]
          /\ disk' = [disk EXCEPT ![j] = "queued"]
          /\ \E guarded \in BOOLEAN :
                jobTask' = [jobTask EXCEPT ![j] = [NoTask EXCEPT !.pc = "queued", !.guarded = guarded]]
          /\ \/ call' = [call EXCEPT ![j].pc = "polling", ![j].seen = "queued"]
             \/ Return(j, "error")
          /\ UNCHANGED spoiled
       \/ /\ Return(j, "error")
          /\ SpoilLedger \/ UNCHANGED spoiled
          /\ UNCHANGED <<mem, disk, jobTask>>
    /\ UNCHANGED <<sender, canceller, effect, consent>>

OpenPrompt(j) == call[j].seen = "awaiting" /\ ~call[j].answered

\* GET /v1/jobs/:id; a job the worker does not know ends the call.
PollJob(j) ==
    /\ CallIs(j, "polling") /\ call[j].seen \notin Ends /\ ~OpenPrompt(j)
    /\ \/ /\ mem[j] # "none"
          /\ call' = [call EXCEPT ![j].seen = mem[j]]
          /\ UNCHANGED canceller
       \/ mem[j] = "none" /\ Leave(j)
    /\ UNCHANGED <<mem, disk, jobTask, sender, effect, consent, spoiled>>

\* require_approval: the user's verdict, or an error that ends the call.
AskUser(j) ==
    /\ CallIs(j, "polling") /\ OpenPrompt(j)
    /\ \/ \E pc \in {"approving", "denying"} :
            /\ call' = [call EXCEPT ![j].pc = pc]
            /\ consent' = [consent EXCEPT ![j] = pc = "approving"]
            /\ UNCHANGED canceller
       \/ Leave(j) /\ UNCHANGED consent
    /\ UNCHANGED <<mem, disk, jobTask, sender, effect, spoiled>>

\* resolve_approval takes the waiter only while the job still waits for it; an
\* answer after the worker's own timeout is a conflict.
AnswerPrompt(j) ==
    LET verdict == IF CallIs(j, "approving") THEN "approved" ELSE "denied" IN
    /\ call[j].pc \in {"approving", "denying"}
    /\ \/ /\ mem[j] = "awaiting" /\ sender[j] = "open"
          /\ sender' = [sender EXCEPT ![j] = verdict]
          /\ \/ /\ call' = [call EXCEPT ![j].pc = "polling", ![j].answered = TRUE]
                /\ UNCHANGED canceller
             \/ Leave(j)
       \/ Leave(j) /\ UNCHANGED sender
    /\ UNCHANGED <<mem, disk, jobTask, effect, consent, spoiled>>

\* A terminal status: a success still has its events to emit and its artifacts to
\* fetch, and may fail with the guard armed.
ReadVerdict(j) ==
    /\ CallIs(j, "polling") /\ call[j].seen \in Ends
    /\ \/ Return(j, IF call[j].seen = "succeeded" THEN "ok" ELSE "error") /\ UNCHANGED canceller
       \/ call[j].seen = "succeeded" /\ Leave(j)
    /\ UNCHANGED <<mem, disk, jobTask, sender, effect, consent, spoiled>>

\* The deadline, looked at before every poll; one request that fails; or the call is
\* dropped with its turn.
GiveUp(j) ==
    /\ call[j].pc \in {"polling", "approving", "denying"} /\ Leave(j)
    /\ UNCHANGED <<mem, disk, jobTask, sender, effect, consent, spoiled>>

-----------------------------------------------------------------------------
(* The worker's task: run_job and its approval policy.                     *)

TaskIs(j, pc) == jobTask[j].pc = pc
Go(j, pc) == jobTask' = [jobTask EXCEPT ![j].pc = pc]
EndTask(j) == jobTask' = [jobTask EXCEPT ![j] = NoTask]
coordinator == <<call, canceller, consent>>

\* update_status: the status in memory first, then the ledger, without the lock and
\* without an await, so that an abort cannot fall between.  The task goes to done when
\* the write succeeded and to failed when it did not.
Saving(j, status, done, failed) ==
    \/ disk' = [disk EXCEPT ![j] = status] /\ done /\ UNCHANGED spoiled
    \/ SpoilLedger /\ failed /\ UNCHANGED disk

\* Jobs holding a slot: a job waiting for its approval keeps its own.
Busy == {j \in Jobs : jobTask[j].pc \notin {"none", "queued"}}

TakeSlot(j) ==
    /\ TaskIs(j, "queued") /\ Cardinality(Busy) < Slots
    /\ mem' = [mem EXCEPT ![j] = "running"]
    /\ Go(j, "starting")
    /\ UNCHANGED <<disk, sender, effect, spoiled, coordinator>>

MarkRunning(j) ==
    /\ TaskIs(j, "starting")
    /\ Saving(j, "running", Go(j, "invoking"), EndTask(j))
    /\ UNCHANGED <<mem, sender, effect, coordinator>>

\* A read runs without asking; anything that changes a folder asks first.
Invoke(j) ==
    /\ TaskIs(j, "invoking")
    /\ \/ /\ jobTask[j].guarded
          /\ sender' = [sender EXCEPT ![j] = "open"]
          /\ mem' = [mem EXCEPT ![j] = "awaiting"]
          /\ Go(j, "prompting")
       \/ /\ ~jobTask[j].guarded
          /\ Go(j, "succeeding") \/ Go(j, "failing")
          /\ UNCHANGED <<mem, sender>>
    /\ UNCHANGED <<disk, effect, spoiled, coordinator>>

MarkAwaiting(j) ==
    /\ TaskIs(j, "prompting")
    /\ Saving(j, "awaiting", Go(j, "waiting"), Go(j, "failing"))
    /\ UNCHANGED <<mem, sender, effect, coordinator>>

\* The decision, or the timeout (also of a decision that came too late to be seen).
HearDecision(j) ==
    /\ TaskIs(j, "waiting")
    /\ \/ /\ sender[j] \in {"approved", "denied"}
          /\ mem' = [mem EXCEPT ![j] = "running"]
          /\ Go(j, "granting")
          /\ UNCHANGED sender
       \/ /\ sender' = [sender EXCEPT ![j] = "none"]
          /\ Go(j, "failing")
          /\ UNCHANGED mem
    /\ UNCHANGED <<disk, effect, spoiled, coordinator>>

\* Variant, not the code: the decision is not saved before it is acted on.
DecidedUnsaved(j) ==
    /\ TaskIs(j, "granting")
    /\ Go(j, IF sender[j] = "approved" THEN "acting" ELSE "failing")
    /\ sender' = [sender EXCEPT ![j] = "none"]
    /\ UNCHANGED <<mem, disk, effect, spoiled, coordinator>>

\* Either decision is saved as "running" before the operation goes on with it.
MarkDecided(j) ==
    /\ TaskIs(j, "granting")
    /\ Saving(j, "running",
               Go(j, IF sender[j] = "approved" THEN "acting" ELSE "failing"), Go(j, "failing"))
    /\ sender' = [sender EXCEPT ![j] = "none"]
    /\ UNCHANGED <<mem, effect, coordinator>>

Act(j) ==
    /\ TaskIs(j, "acting")
    /\ effect' = [effect EXCEPT ![j] = TRUE]
    /\ Go(j, "succeeding") \/ Go(j, "failing")
    /\ UNCHANGED <<mem, disk, sender, spoiled, coordinator>>

\* The terminal update overwrites whatever is there, a cancellation included.
EndJob(j) ==
    /\ jobTask[j].pc \in {"succeeding", "failing"}
    /\ mem' = [mem EXCEPT ![j] = IF TaskIs(j, "succeeding") THEN "succeeded" ELSE "failed"]
    /\ Go(j, "saving")
    /\ UNCHANGED <<disk, sender, effect, spoiled, coordinator>>

\* The snapshot being saved is the one taken with the update: the verdict of this
\* task, also when a cancellation has replaced it in memory meanwhile.
SaveEnd(j) ==
    /\ TaskIs(j, "saving")
    /\ \E end \in (IF mem[j] = "cancelled" THEN {"succeeded", "failed"} ELSE {mem[j]}) :
            Saving(j, end, EndTask(j), EndTask(j))
    /\ UNCHANGED <<mem, sender, effect, coordinator>>

\* An aborted task is dropped where it next waits.
DropTask(j) ==
    /\ jobTask[j].doomed /\ jobTask[j].pc \in {"queued", "invoking", "waiting", "acting"}
    /\ EndTask(j)
    /\ effect' \in {effect} \cup IF TaskIs(j, "acting") THEN {[effect EXCEPT ![j] = TRUE]} ELSE {}
    /\ UNCHANGED <<mem, disk, sender, spoiled, coordinator>>

-----------------------------------------------------------------------------
(* cancel_job, and the worker's restart.                                   *)

CancelCheck(j) ==
    /\ canceller[j] = "sent"
    /\ \/ /\ mem[j] \in Statuses \ Ends
          /\ jobTask' = [jobTask EXCEPT ![j].doomed = @ \/ jobTask[j].pc # "none"]
          /\ sender' = [sender EXCEPT ![j] = IF @ = "open" THEN "none" ELSE @]
          /\ canceller' = [canceller EXCEPT ![j] = "checked"]
       \/ /\ mem[j] \in Ends \cup {"none"}
          /\ canceller' = [canceller EXCEPT ![j] = "idle"]
          /\ UNCHANGED <<jobTask, sender>>
    /\ UNCHANGED <<mem, disk, call, effect, consent, spoiled>>

CancelWrite(j) ==
    /\ canceller[j] = "checked"
    /\ mem' = [mem EXCEPT ![j] = "cancelled"]
    /\ canceller' = [canceller EXCEPT ![j] = "wrote"]
    /\ UNCHANGED <<disk, jobTask, sender, call, effect, consent, spoiled>>

CancelSave(j) ==
    /\ canceller[j] = "wrote"
    /\ Saving(j, "cancelled", TRUE, TRUE)
    /\ canceller' = [canceller EXCEPT ![j] = "idle"]
    /\ UNCHANGED <<mem, jobTask, sender, call, effect, consent>>

Recovered(status) == IF status \in Ends \cup {"none"} THEN status ELSE "indeterminate"

\* Crash and restart: what the ledger does not show as ended is indeterminate.
RestartWorker ==
    /\ spoiled.crashes < MaxWorkerCrashes
    /\ spoiled' = [spoiled EXCEPT !.crashes = @ + 1]
    /\ disk' = [j \in Jobs |-> Recovered(disk[j])]
    /\ mem' = disk'
    /\ jobTask' = [j \in Jobs |-> NoTask]
    /\ sender' = [j \in Jobs |-> "none"]
    /\ canceller' = [j \in Jobs |-> "idle"]
    /\ UNCHANGED <<call, effect, consent>>

JobStep(j) ==
    \/ TakeSlot(j) \/ MarkRunning(j) \/ Invoke(j) \/ MarkAwaiting(j) \/ HearDecision(j)
    \/ MarkDecided(j) \/ Act(j) \/ EndJob(j) \/ SaveEnd(j) \/ DropTask(j)

CallStep(j) ==
    \/ PostJob(j) \/ PollJob(j) \/ AskUser(j) \/ AnswerPrompt(j) \/ ReadVerdict(j)

WorkerNext ==
    \/ \E j \in Jobs : CallStep(j) \/ GiveUp(j) \/ JobStep(j)
                       \/ CancelCheck(j) \/ CancelWrite(j) \/ CancelSave(j)
    \/ RestartWorker

WorkerSpec == WorkerInit /\ [][WorkerNext]_workerVars

\* The client polls, answers and looks at its deadline; nothing is asked of the worker.
WorkerFairness ==
    \A j \in Jobs : WF_workerVars(CallStep(j)) /\ WF_workerVars(GiveUp(j))

-----------------------------------------------------------------------------
\* An operation that must be approved is carried out only after the user's yes:
\* a timeout, a lost answer, a cancellation or a restart never stand in for one.
EffectWasApproved == \A j \in Jobs : effect[j] => consent[j]

\* The ledger shows a job as started before anything happens, so that a restart
\* reports it as indeterminate instead of forgetting or repeating it.
EffectWasRecorded == \A j \in Jobs : effect[j] => disk[j] \notin {"none", "queued", "awaiting"}

\* The caller hears "ok" of a job that asked for approval only when the operation
\* was carried out: not of one that was denied, cancelled or cut off by a restart.
OkMeansDone ==
    \A j \in Jobs : call[j].result = "ok" /\ call[j].answered => effect[j]

\* Whatever the worker does (a job that stays queued behind a full slot, a ledger
\* that cannot be written, a restart), the call returns.
RemoteCallEnds == \A j \in Jobs : call[j].pc = "polling" ~> call[j].pc = "done"

\* What the remote worker keeps.
WorkerSafe ==
  /\ WorkerTypeOK
  /\ EffectWasApproved
  /\ EffectWasRecorded
  /\ OkMeansDone
=============================================================================
