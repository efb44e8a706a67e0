-------------------------- MODULE RemoteCallProofs --------------------------
(***************************************************************************)
(* Proofs about calls that cross a process: the remote worker, for any set *)
(* of jobs and any number of slots, ledger faults and restarts; the MCP    *)
(* client, for any number of calls, sessions and restarts; proc.run, for   *)
(* any number of runs, replaced paths and crashes; and the turns delegated *)
(* to OMP, for any number of turns and any caps of the buffers.            *)
(***************************************************************************)
EXTENDS RemoteWorker, McpClient, ProcIsolation, AcpBackend, TLAPS

-----------------------------------------------------------------------------
(* The remote worker: its inductive invariant, one job at a time.  m and d   *)
(* are its status in memory and in the ledger, k its task, s its waiter, c   *)
(* its cancellation, p the call, e and u the effect and the user's consent.  *)

\* The call has returned an error: only then is the job cancelled.
HasLeft(p) == p.pc = "done" /\ p.result = "error"

BeforeActing == {"queued", "starting", "invoking", "prompting", "waiting", "granting"}

\* Nothing has happened to a job that was not posted.
Untouched(m, d, k, s, c, p, e, u) ==
    p.pc = "new" => /\ p.seen = "none" /\ ~p.answered /\ p.result = "none"
                    /\ m = "none" /\ d = "none" /\ k.pc = "none" /\ ~k.doomed
                    /\ s = "none" /\ c = "idle" /\ ~e /\ ~u

\* What is acted on was answered by the one question the call asks.
Consented(k, s, p, e, u) ==
    /\ p.pc = "approving" \/ s = "approved" \/ k.pc = "acting" \/ e => u
    /\ p.pc \in {"polling", "approving", "denying"} /\ ~p.answered =>
         s \notin {"approved", "denied"} /\ k.pc # "acting" /\ ~e
    /\ p.pc \in {"approving", "denying"} => p.seen = "awaiting" /\ ~p.answered

\* The ledger shows the job as running before the operation.
Recorded(d, k, e) ==
    /\ k.pc \in BeforeActing => ~e
    /\ k.pc = "acting" \/ e => d \notin {"none", "queued", "awaiting"}

\* Where a task can be while its job awaits a verdict, or is being saved.
Placed(m, k) ==
    /\ m = "awaiting" => k.pc \in {"prompting", "waiting", "failing", "none"}
    /\ k.pc = "saving" => m \in {"succeeded", "failed", "cancelled"}

\* A job nobody left is not being cancelled, and ends as its task says.
Uncancelled(m, d, k, c, p) ==
    HasLeft(p) \/ /\ c = "idle" /\ m # "cancelled" /\ d # "cancelled" /\ ~k.doomed
                  /\ d = "succeeded" => m = "succeeded" /\ k.pc = "none"

\* A job that does not ask is never answered.
Unasked(m, k, s, p) ==
    k.pc # "none" /\ ~k.guarded =>
      /\ m # "awaiting" /\ s = "none" /\ p.seen # "awaiting"
      /\ ~p.answered /\ p.pc \notin {"approving", "denying"}

\* Success of a job that asked means that the operation was carried out.
Done(m, k, p, e) ==
    /\ ~HasLeft(p) /\ p.answered => (k.pc = "succeeding" \/ m = "succeeded" \/ p.seen = "succeeded" => e)
    /\ p.result = "ok" => p.pc = "done" /\ p.seen = "succeeded"

JobInv(m, d, k, s, c, p, e, u) ==
    /\ Untouched(m, d, k, s, c, p, e, u)
    /\ Consented(k, s, p, e, u)
    /\ Recorded(d, k, e)
    /\ Placed(m, k)
    /\ Uncancelled(m, d, k, c, p)
    /\ Unasked(m, k, s, p)
    /\ Done(m, k, p, e)

JobOK(j) ==
    JobInv(mem[j], disk[j], jobTask[j], sender[j], canceller[j], call[j], effect[j], consent[j])

WorkerInv == WorkerTypeOK /\ \A j \in Jobs : JobOK(j)

-----------------------------------------------------------------------------
(* What the updates of a step mean, field by field.                        *)

TaskSet == [pc : {"none", "queued", "starting", "invoking", "prompting", "waiting",
                  "granting", "acting", "succeeding", "failing", "saving"},
            doomed : BOOLEAN, guarded : BOOLEAN]
CallSet == [pc : {"new", "polling", "approving", "denying", "done"},
            seen : Statuses \cup {"none"}, answered : BOOLEAN,
            result : {"none", "ok", "error"}]
Known == Statuses \cup {"none"}
Spoil == [faults : 0..MaxLedgerFaults, crashes : 0..MaxWorkerCrashes]

\* One entry of a table changes.
At(j, f) == \A i \in Jobs \ {j} : f'[i] = f[i]

\* The type invariant, variable by variable, in the form the provers expand best.
LEMMA Typing ==
  WorkerTypeOK <=>
    /\ mem \in [Jobs -> Known] /\ disk \in [Jobs -> Known]
    /\ jobTask \in [Jobs -> TaskSet]
    /\ sender \in [Jobs -> {"none", "open", "approved", "denied"}]
    /\ canceller \in [Jobs -> {"idle", "sent", "checked", "wrote"}]
    /\ call \in [Jobs -> CallSet]
    /\ effect \in [Jobs -> BOOLEAN] /\ consent \in [Jobs -> BOOLEAN]
    /\ spoiled \in Spoil
BY DEF WorkerTypeOK, Known, TaskSet, CallSet, Spoil

\* The dispatcher returns: only its own call moves, and to its end.
LEMMA ReturnMeans ==
  ASSUME WorkerTypeOK, NEW j \in Jobs, NEW r \in {"ok", "error"}, Return(j, r)
  PROVE  /\ call' \in [Jobs -> CallSet] /\ At(j, call)
         /\ call'[j].pc = "done" /\ call'[j].result = r
         /\ call'[j].seen = call[j].seen /\ call'[j].answered = call[j].answered
<1>1. call \in [Jobs -> CallSet]
  BY Typing
<1>2. call' = [call EXCEPT ![j] = [call[j] EXCEPT !.pc = "done", !.result = r]]
  BY <1>1 DEF Return, CallSet
<1> QED BY <1>1, <1>2 DEF CallSet, At

\* The dispatcher drops its request and its guard sends the cancellation.
LEMMA LeaveMeans ==
  ASSUME WorkerTypeOK, NEW j \in Jobs, Leave(j)
  PROVE  /\ call' \in [Jobs -> CallSet] /\ At(j, call)
         /\ call'[j].pc = "done" /\ call'[j].result = "error"
         /\ call'[j].seen = call[j].seen /\ call'[j].answered = call[j].answered
         /\ canceller' \in [Jobs -> {"idle", "sent", "checked", "wrote"}]
         /\ At(j, canceller)
<1>1. canceller \in [Jobs -> {"idle", "sent", "checked", "wrote"}]
  BY Typing
<1>2. Return(j, "error")
  BY DEF Leave
<1>3. canceller' \in [Jobs -> {"idle", "sent", "checked", "wrote"}] /\ At(j, canceller)
  BY <1>1 DEF Leave, At
<1> QED BY <1>2, <1>3, ReturnMeans

Pcs == {"none", "queued", "starting", "invoking", "prompting", "waiting",
        "granting", "acting", "succeeding", "failing", "saving"}

\* The worker's task moves on and keeps what it knows of its cancellation.
LEMMA GoMeans ==
  ASSUME WorkerTypeOK, NEW j \in Jobs, NEW pc \in Pcs, Go(j, pc)
  PROVE  /\ jobTask' \in [Jobs -> TaskSet] /\ At(j, jobTask)
         /\ jobTask'[j].pc = pc
         /\ jobTask'[j].doomed = jobTask[j].doomed /\ jobTask'[j].guarded = jobTask[j].guarded
<1>1. jobTask \in [Jobs -> TaskSet]
  BY Typing
<1>2. jobTask' = [jobTask EXCEPT ![j] = [jobTask[j] EXCEPT !.pc = pc]]
  BY <1>1 DEF Go, TaskSet
<1> QED BY <1>1, <1>2 DEF TaskSet, At, Pcs

\* The worker's task ends and forgets that it was doomed.
LEMMA EndTaskMeans ==
  ASSUME WorkerTypeOK, NEW j \in Jobs, EndTask(j)
  PROVE  /\ jobTask' \in [Jobs -> TaskSet] /\ At(j, jobTask)
         /\ jobTask'[j].pc = "none" /\ ~jobTask'[j].doomed
<1>1. jobTask \in [Jobs -> TaskSet]
  BY Typing
<1>2. NoTask \in TaskSet /\ NoTask.pc = "none" /\ ~NoTask.doomed
  BY DEF NoTask, TaskSet
<1> QED BY <1>1, <1>2 DEF EndTask, At

\* The count of ledger faults stays within its bound.
LEMMA SpoilMeans == WorkerTypeOK /\ (SpoilLedger \/ UNCHANGED spoiled) => spoiled' \in Spoil
<1> SUFFICES ASSUME WorkerTypeOK, SpoilLedger \/ UNCHANGED spoiled PROVE spoiled' \in Spoil
  OBVIOUS
<1>1. spoiled \in Spoil
  BY Typing
<1> QED BY <1>1, WorkerConstants DEF SpoilLedger, Spoil

\* A table with one entry replaced.
LEMMA PutMeans ==
  ASSUME NEW S, NEW f \in [Jobs -> S], NEW j \in Jobs, NEW x \in S
  PROVE  /\ [f EXCEPT ![j] = x] \in [Jobs -> S] /\ [f EXCEPT ![j] = x][j] = x
         /\ \A i \in Jobs \ {j} : [f EXCEPT ![j] = x][i] = f[i]
OBVIOUS

\* A step that moves one job and leaves the others alone.
LEMMA OneJobMoves ==
  ASSUME WorkerInv, NEW j \in Jobs, JobOK(j)',
         mem' \in [Jobs -> Known], At(j, mem), disk' \in [Jobs -> Known], At(j, disk),
         jobTask' \in [Jobs -> TaskSet], At(j, jobTask),
         sender' \in [Jobs -> {"none", "open", "approved", "denied"}], At(j, sender),
         canceller' \in [Jobs -> {"idle", "sent", "checked", "wrote"}], At(j, canceller),
         call' \in [Jobs -> CallSet], At(j, call),
         effect' \in [Jobs -> BOOLEAN], At(j, effect),
         consent' \in [Jobs -> BOOLEAN], At(j, consent), spoiled' \in Spoil
  PROVE  WorkerInv'
<1>1. ASSUME NEW i \in Jobs \ {j} PROVE JobOK(i)'
  BY <1>1 DEF JobOK, WorkerInv, At
<1>2. WorkerTypeOK'
  BY DEF WorkerTypeOK, Known, TaskSet, CallSet, Spoil
<1> QED BY <1>1, <1>2 DEF WorkerInv

-----------------------------------------------------------------------------
\* A step of the dispatcher, or its giving up, keeps the invariant.
LEMMA CallSteps ==
  ASSUME WorkerInv, NEW j \in Jobs, CallStep(j) \/ GiveUp(j)
  PROVE  WorkerInv'
<1>1. WorkerTypeOK /\ JobOK(j)
  BY DEF WorkerInv
<1>2. /\ mem \in [Jobs -> Known] /\ disk \in [Jobs -> Known]
      /\ jobTask \in [Jobs -> TaskSet]
      /\ sender \in [Jobs -> {"none", "open", "approved", "denied"}]
      /\ canceller \in [Jobs -> {"idle", "sent", "checked", "wrote"}]
      /\ call \in [Jobs -> CallSet]
      /\ effect \in [Jobs -> BOOLEAN] /\ consent \in [Jobs -> BOOLEAN]
      /\ spoiled \in Spoil
  BY <1>1, Typing
<1> USE DEF JobOK, JobInv, Untouched, Consented, Recorded, Placed, Uncancelled, Unasked,
            Done, HasLeft, BeforeActing
<1>3. CASE UNCHANGED <<mem, disk, jobTask, sender, effect, consent, spoiled>> /\ Leave(j)
           /\ call[j].pc \in {"polling", "approving", "denying"}
  <2>1. JobOK(j)'
    BY <1>1, <1>2, <1>3, LeaveMeans
  <2> QED BY <1>1, <1>2, <1>3, <2>1, LeaveMeans, OneJobMoves DEF At
<1>4. CASE GiveUp(j)
  BY <1>3, <1>4 DEF GiveUp
<1>5. CASE PollJob(j)
  <2>1. CASE Leave(j)
    BY <1>3, <1>5, <2>1 DEF PollJob, CallIs
  <2>2. CASE call' = [call EXCEPT ![j].seen = mem[j]] /\ UNCHANGED canceller
    <3>1. /\ call' \in [Jobs -> CallSet] /\ At(j, call) /\ call'[j].seen = mem[j]
          /\ call'[j].pc = call[j].pc /\ call'[j].answered = call[j].answered
          /\ call'[j].result = call[j].result
      <4>1. mem[j] \in Known /\ call[j] \in CallSet
        BY <1>2
      <4>2. call' = [call EXCEPT ![j] = [call[j] EXCEPT !.seen = mem[j]]]
        BY <1>2, <2>2 DEF CallSet
      <4> QED BY <1>2, <4>1, <4>2 DEF CallSet, Known, At
    <3>2. UNCHANGED <<mem, disk, jobTask, sender, effect, consent, spoiled>>
      BY <1>5 DEF PollJob
    <3>3. JobOK(j)'
      BY <1>1, <1>5, <2>2, <3>1, <3>2 DEF PollJob, CallIs
    <3> QED BY <1>2, <2>2, <3>1, <3>2, <3>3, OneJobMoves DEF At
  <2> QED BY <1>5, <2>1, <2>2 DEF PollJob
<1>6. CASE AskUser(j)
  <2>1. CASE Leave(j) /\ UNCHANGED consent
    BY <1>3, <1>6, <2>1 DEF AskUser, CallIs
  <2>2. ASSUME NEW pc \in {"approving", "denying"}, call' = [call EXCEPT ![j].pc = pc],
               consent' = [consent EXCEPT ![j] = pc = "approving"], UNCHANGED canceller
        PROVE  WorkerInv'
    <3>1. /\ call' \in [Jobs -> CallSet] /\ At(j, call) /\ call'[j].pc = pc
          /\ call'[j].seen = call[j].seen /\ call'[j].answered = call[j].answered
          /\ call'[j].result = call[j].result
      <4>1. call' = [call EXCEPT ![j] = [call[j] EXCEPT !.pc = pc]]
        BY <1>2, <2>2 DEF CallSet
      <4> QED BY <1>2, <4>1, ZenonT(30) DEF CallSet, At
    <3>2. consent' \in [Jobs -> BOOLEAN] /\ At(j, consent) /\ consent'[j] = (pc = "approving")
      BY <1>2, <2>2 DEF At
    <3>3. UNCHANGED <<mem, disk, jobTask, sender, effect, spoiled>>
      BY <1>6 DEF AskUser
    <3>4. call[j].pc = "polling" /\ call[j].seen = "awaiting" /\ ~call[j].answered
      BY <1>6 DEF AskUser, CallIs, OpenPrompt
    <3>5. JobOK(j)'
      BY <1>1, <1>2, <2>2, <3>1, <3>2, <3>3, <3>4
    <3> QED BY <1>2, <2>2, <3>1, <3>2, <3>3, <3>5, OneJobMoves DEF At
  <2> QED BY <1>6, <2>1, <2>2 DEF AskUser
<1>7. CASE AnswerPrompt(j)
  <2>1. UNCHANGED <<mem, disk, jobTask, effect, consent, spoiled>>
        /\ call[j].pc \in {"approving", "denying"}
    BY <1>7 DEF AnswerPrompt
  <2>2. CASE Leave(j) /\ UNCHANGED sender
    BY <1>3, <2>1, <2>2
  <2> DEFINE verdict == IF CallIs(j, "approving") THEN "approved" ELSE "denied"
  <2>3. CASE mem[j] = "awaiting" /\ sender[j] = "open" /\ sender' = [sender EXCEPT ![j] = verdict]
    <3>1. /\ sender' \in [Jobs -> {"none", "open", "approved", "denied"}] /\ At(j, sender)
          /\ sender'[j] \in {"approved", "denied"}
          /\ sender'[j] = "approved" => call[j].pc = "approving"
      BY <1>2, <2>3 DEF At, CallIs
    <3>2. CASE call' = [call EXCEPT ![j].pc = "polling", ![j].answered = TRUE]
               /\ UNCHANGED canceller
      <4>1. /\ call' \in [Jobs -> CallSet] /\ At(j, call) /\ call'[j].pc = "polling"
            /\ call'[j].seen = call[j].seen /\ call'[j].answered
            /\ call'[j].result = call[j].result
        <5>1. call' = [call EXCEPT ![j] = [call[j] EXCEPT !.pc = "polling", !.answered = TRUE]]
          BY <1>2, <3>2 DEF CallSet
        <5> QED BY <1>2, <5>1, ZenonT(30) DEF CallSet, At
      <4>2. JobOK(j)'
        BY <1>1, <1>2, <2>1, <2>3, <3>1, <3>2, <4>1
      <4> QED BY <1>2, <2>1, <3>1, <3>2, <4>1, <4>2, OneJobMoves DEF At
    <3>3. CASE Leave(j)
      <4>1. JobOK(j)'
        BY <1>1, <1>2, <2>1, <2>3, <3>1, <3>3, LeaveMeans
      <4> QED BY <1>1, <1>2, <2>1, <3>1, <3>3, <4>1, LeaveMeans, OneJobMoves DEF At
    <3> QED BY <1>7, <2>3, <3>2, <3>3 DEF AnswerPrompt
  <2> QED BY <1>7, <2>2, <2>3 DEF AnswerPrompt
<1>8. CASE ReadVerdict(j)
  <2>1. CASE Leave(j)
    BY <1>3, <1>8, <2>1 DEF ReadVerdict, CallIs
  <2>2. CASE Return(j, IF call[j].seen = "succeeded" THEN "ok" ELSE "error")
             /\ UNCHANGED canceller
    <3>1. PICK r \in {"ok", "error"} : Return(j, r) /\ (r = "ok" => call[j].seen = "succeeded")
      BY <2>2
    <3>2. UNCHANGED <<mem, disk, jobTask, sender, effect, consent, spoiled>>
          /\ call[j].pc = "polling"
      BY <1>8 DEF ReadVerdict, CallIs
    <3>3. /\ call' \in [Jobs -> CallSet] /\ At(j, call)
          /\ call'[j].pc = "done" /\ call'[j].result = r
          /\ call'[j].seen = call[j].seen /\ call'[j].answered = call[j].answered
      BY <1>1, <3>1, ReturnMeans
    <3>4. JobOK(j)'
      BY <1>1, <1>2, <2>2, <3>1, <3>2, <3>3
    <3> QED BY <1>2, <2>2, <3>2, <3>3, <3>4, OneJobMoves DEF At
  <2> QED BY <1>8, <2>1, <2>2 DEF ReadVerdict
<1>9. CASE PostJob(j)
  <2>1. spoiled' \in Spoil /\ UNCHANGED <<sender, canceller, effect, consent>>
        /\ call[j].pc = "new"
    BY <1>1, <1>2, <1>9, SpoilMeans DEF PostJob, CallIs
  <2>2. CASE Return(j, "error") /\ UNCHANGED <<mem, disk, jobTask>>
    <3>1. JobOK(j)'
      BY <1>1, <1>2, <2>1, <2>2, ReturnMeans
    <3> QED BY <1>1, <1>2, <2>1, <2>2, <3>1, ReturnMeans, OneJobMoves DEF At
  <2>3. ASSUME NEW g \in BOOLEAN,
               mem' = [mem EXCEPT ![j] = "queued"], disk' = [disk EXCEPT ![j] = "queued"],
               jobTask' = [jobTask EXCEPT ![j] = [NoTask EXCEPT !.pc = "queued", !.guarded = g]],
               \/ call' = [call EXCEPT ![j].pc = "polling", ![j].seen = "queued"]
               \/ Return(j, "error")
        PROVE  WorkerInv'
    <3>1. /\ mem' \in [Jobs -> Known] /\ At(j, mem) /\ mem'[j] = "queued"
          /\ disk' \in [Jobs -> Known] /\ At(j, disk) /\ disk'[j] = "queued"
      BY <1>2, <2>3 DEF Known, Statuses, At
    <3>2. /\ jobTask' \in [Jobs -> TaskSet] /\ At(j, jobTask)
          /\ jobTask'[j].pc = "queued" /\ ~jobTask'[j].doomed
      <4>1. /\ [NoTask EXCEPT !.pc = "queued", !.guarded = g] \in TaskSet
            /\ [NoTask EXCEPT !.pc = "queued", !.guarded = g].pc = "queued"
            /\ ~[NoTask EXCEPT !.pc = "queued", !.guarded = g].doomed
        BY DEF NoTask, TaskSet
      <4> QED BY <1>2, <2>3, <4>1 DEF At
    <3>3. /\ call' \in [Jobs -> CallSet] /\ At(j, call)
          /\ \/ call'[j].pc = "polling" /\ call'[j].result = call[j].result
             \/ call'[j].pc = "done" /\ call'[j].result = "error"
          /\ call'[j].seen \in {call[j].seen, "queued"} /\ call'[j].answered = call[j].answered
      <4>1. CASE Return(j, "error")
        BY <1>1, <4>1, ReturnMeans
      <4>2. CASE call' = [call EXCEPT ![j].pc = "polling", ![j].seen = "queued"]
        <5>1. call' = [call EXCEPT ![j] = [call[j] EXCEPT !.pc = "polling", !.seen = "queued"]]
          BY <1>2, <4>2 DEF CallSet
        <5>2. "queued" \in Statuses \cup {"none"}
          BY DEF Statuses
        <5>3. call[j] \in CallSet
          BY <1>2
        <5>4. /\ [call[j] EXCEPT !.pc = "polling", !.seen = "queued"] \in CallSet
              /\ [call[j] EXCEPT !.pc = "polling", !.seen = "queued"].pc = "polling"
              /\ [call[j] EXCEPT !.pc = "polling", !.seen = "queued"].seen = "queued"
              /\ [call[j] EXCEPT !.pc = "polling", !.seen = "queued"].result = call[j].result
              /\ [call[j] EXCEPT !.pc = "polling", !.seen = "queued"].answered = call[j].answered
          BY <5>2, <5>3 DEF CallSet
        <5> QED BY <1>2, <5>1, <5>4, PutMeans DEF At
      <4> QED BY <2>3, <4>1, <4>2
    <3>4. JobOK(j)'
      BY <1>1, <1>2, <2>1, <3>1, <3>2, <3>3
    <3> QED BY <1>2, <2>1, <3>1, <3>2, <3>3, <3>4, OneJobMoves DEF At
  <2> QED BY <1>9, <2>2, <2>3 DEF PostJob
<1> QED BY <1>4, <1>5, <1>6, <1>7, <1>8, <1>9 DEF CallStep

-----------------------------------------------------------------------------
\* A step of the worker's task or of a cancellation keeps the invariant.
LEMMA JobSteps ==
  ASSUME WorkerInv, NEW j \in Jobs,
         JobStep(j) \/ CancelCheck(j) \/ CancelWrite(j) \/ CancelSave(j)
  PROVE  WorkerInv'
<1>1. WorkerTypeOK /\ JobOK(j)
  BY DEF WorkerInv
<1>2. /\ mem \in [Jobs -> Known] /\ disk \in [Jobs -> Known]
      /\ jobTask \in [Jobs -> TaskSet]
      /\ sender \in [Jobs -> {"none", "open", "approved", "denied"}]
      /\ canceller \in [Jobs -> {"idle", "sent", "checked", "wrote"}]
      /\ call \in [Jobs -> CallSet]
      /\ effect \in [Jobs -> BOOLEAN] /\ consent \in [Jobs -> BOOLEAN]
      /\ spoiled \in Spoil
  BY <1>1, Typing
<1>3. {"running", "awaiting", "succeeded", "failed", "cancelled"} \subseteq Known
  BY DEF Known, Statuses, Ends
<1>4. \A pc \in Pcs : Go(j, pc) =>
        /\ jobTask' \in [Jobs -> TaskSet] /\ At(j, jobTask) /\ jobTask'[j].pc = pc
        /\ jobTask'[j].doomed = jobTask[j].doomed /\ jobTask'[j].guarded = jobTask[j].guarded
  BY <1>1, GoMeans
<1>5. EndTask(j) => /\ jobTask' \in [Jobs -> TaskSet] /\ At(j, jobTask)
                    /\ jobTask'[j].pc = "none" /\ ~jobTask'[j].doomed
  BY <1>1, EndTaskMeans
<1>6. jobTask[j] \in TaskSet /\ call[j] \in CallSet
  BY <1>2
<1> USE DEF JobOK, JobInv, Untouched, Consented, Recorded, Placed, Uncancelled, Unasked,
            Done, HasLeft, BeforeActing
<1>7. CASE TakeSlot(j)
  <2>1. Go(j, "starting") /\ jobTask[j].pc = "queued"
        /\ UNCHANGED <<disk, sender, effect, spoiled, call, canceller, consent>>
    BY <1>7 DEF TakeSlot, TaskIs, coordinator
  <2>2. mem' \in [Jobs -> Known] /\ At(j, mem) /\ mem'[j] = "running"
    BY <1>2, <1>3, <1>7 DEF TakeSlot, At
  <2>3. JobOK(j)'
    BY <1>1, <1>4, <2>1, <2>2 DEF Pcs
  <2> QED BY <1>2, <1>4, <2>1, <2>2, <2>3, OneJobMoves DEF At, Pcs
<1>8. CASE MarkRunning(j)
  <2>1. UNCHANGED <<mem, sender, effect, call, canceller, consent>> /\ jobTask[j].pc = "starting"
    BY <1>8 DEF MarkRunning, TaskIs, coordinator
  <2>2. /\ disk' \in [Jobs -> Known] /\ At(j, disk) /\ disk'[j] \in {disk[j], "running"}
        /\ spoiled' \in Spoil
    BY <1>1, <1>2, <1>3, <1>8, SpoilMeans DEF MarkRunning, Saving, At
  <2>3. Go(j, "invoking") \/ EndTask(j)
    BY <1>8 DEF MarkRunning, Saving
  <2>4. JobOK(j)'
    BY <1>1, <1>4, <1>5, <2>1, <2>2, <2>3 DEF Pcs
  <2> QED BY <1>2, <1>4, <1>5, <2>1, <2>2, <2>3, <2>4, OneJobMoves DEF At, Pcs
<1>9. CASE Invoke(j)
  <2>1. UNCHANGED <<disk, effect, spoiled, call, canceller, consent>> /\ jobTask[j].pc = "invoking"
    BY <1>9 DEF Invoke, TaskIs, coordinator
  <2>2. CASE /\ jobTask[j].guarded /\ sender' = [sender EXCEPT ![j] = "open"]
             /\ mem' = [mem EXCEPT ![j] = "awaiting"] /\ Go(j, "prompting")
    <3>1. /\ mem' \in [Jobs -> Known] /\ At(j, mem) /\ mem'[j] = "awaiting"
          /\ sender' \in [Jobs -> {"none", "open", "approved", "denied"}] /\ At(j, sender)
          /\ sender'[j] = "open"
      BY <1>2, <1>3, <2>2 DEF At
    <3>2. JobOK(j)'
      BY <1>1, <1>4, <2>1, <2>2, <3>1 DEF Pcs
    <3> QED BY <1>2, <1>4, <2>1, <2>2, <3>1, <3>2, OneJobMoves DEF At, Pcs
  <2>3. CASE /\ ~jobTask[j].guarded /\ (Go(j, "succeeding") \/ Go(j, "failing"))
             /\ UNCHANGED <<mem, sender>>
    <3>1. JobOK(j)'
      BY <1>1, <1>4, <2>1, <2>3 DEF Pcs
    <3> QED BY <1>2, <1>4, <2>1, <2>3, <3>1, OneJobMoves DEF At, Pcs
  <2> QED BY <1>9, <2>2, <2>3 DEF Invoke
<1>10. CASE MarkAwaiting(j)
  <2>1. UNCHANGED <<mem, sender, effect, call, canceller, consent>> /\ jobTask[j].pc = "prompting"
    BY <1>10 DEF MarkAwaiting, TaskIs, coordinator
  <2>2. /\ disk' \in [Jobs -> Known] /\ At(j, disk) /\ disk'[j] \in {disk[j], "awaiting"}
        /\ spoiled' \in Spoil
    BY <1>1, <1>2, <1>3, <1>10, SpoilMeans DEF MarkAwaiting, Saving, At
  <2>3. Go(j, "waiting") \/ Go(j, "failing")
    BY <1>10 DEF MarkAwaiting, Saving
  <2>4. JobOK(j)'
    BY <1>1, <1>4, <2>1, <2>2, <2>3 DEF Pcs
  <2> QED BY <1>2, <1>4, <2>1, <2>2, <2>3, <2>4, OneJobMoves DEF At, Pcs
<1>11. CASE HearDecision(j)
  <2>1. UNCHANGED <<disk, effect, spoiled, call, canceller, consent>> /\ jobTask[j].pc = "waiting"
    BY <1>11 DEF HearDecision, TaskIs, coordinator
  <2>2. CASE /\ mem' = [mem EXCEPT ![j] = "running"] /\ Go(j, "granting")
             /\ UNCHANGED sender
    <3>1. mem' \in [Jobs -> Known] /\ At(j, mem) /\ mem'[j] = "running"
      BY <1>2, <1>3, <2>2 DEF At
    <3>2. JobOK(j)'
      BY <1>1, <1>4, <2>1, <2>2, <3>1 DEF Pcs
    <3> QED BY <1>2, <1>4, <2>1, <2>2, <3>1, <3>2, OneJobMoves DEF At, Pcs
  <2>3. CASE /\ sender' = [sender EXCEPT ![j] = "none"] /\ Go(j, "failing") /\ UNCHANGED mem
    <3>1. /\ sender' \in [Jobs -> {"none", "open", "approved", "denied"}] /\ At(j, sender)
          /\ sender'[j] = "none"
      BY <1>2, <2>3 DEF At
    <3>2. JobOK(j)'
      BY <1>1, <1>4, <2>1, <2>3, <3>1 DEF Pcs
    <3> QED BY <1>2, <1>4, <2>1, <2>3, <3>1, <3>2, OneJobMoves DEF At, Pcs
  <2> QED BY <1>11, <2>2, <2>3 DEF HearDecision
<1>12. CASE MarkDecided(j)
  <2>1. UNCHANGED <<mem, effect, call, canceller, consent>> /\ jobTask[j].pc = "granting"
    BY <1>12 DEF MarkDecided, TaskIs, coordinator
  <2>2. /\ sender' \in [Jobs -> {"none", "open", "approved", "denied"}] /\ At(j, sender)
        /\ sender'[j] = "none"
    BY <1>2, <1>12 DEF MarkDecided, At
  <2>3. PICK pc \in {"acting", "failing"} :
          /\ Go(j, pc) /\ spoiled' \in Spoil
          /\ disk' \in [Jobs -> Known] /\ At(j, disk) /\ disk'[j] \in {disk[j], "running"}
          /\ pc = "acting" => sender[j] = "approved" /\ disk'[j] = "running"
    <3>1. CASE /\ disk' = [disk EXCEPT ![j] = "running"] /\ UNCHANGED spoiled
               /\ Go(j, IF sender[j] = "approved" THEN "acting" ELSE "failing")
      <4>1. disk' \in [Jobs -> Known] /\ At(j, disk) /\ disk'[j] = "running"
        BY <1>2, <1>3, <3>1 DEF At
      <4>2. CASE sender[j] = "approved"
        BY <1>2, <3>1, <4>1, <4>2
      <4>3. CASE sender[j] # "approved"
        BY <1>2, <3>1, <4>1, <4>3
      <4> QED BY <4>2, <4>3
    <3>2. CASE SpoilLedger /\ Go(j, "failing") /\ UNCHANGED disk
      BY <1>1, <1>2, <3>2, SpoilMeans DEF At
    <3> QED BY <1>12, <3>1, <3>2 DEF MarkDecided, Saving
  <2>4. JobOK(j)'
    BY <1>1, <1>4, <2>1, <2>2, <2>3 DEF Pcs
  <2> QED BY <1>2, <1>4, <2>1, <2>2, <2>3, <2>4, OneJobMoves DEF At, Pcs
<1>13. CASE Act(j)
  <2>1. /\ UNCHANGED <<mem, disk, sender, spoiled, call, canceller, consent>>
        /\ jobTask[j].pc = "acting" /\ (Go(j, "succeeding") \/ Go(j, "failing"))
    BY <1>13 DEF Act, TaskIs, coordinator
  <2>2. effect' \in [Jobs -> BOOLEAN] /\ At(j, effect) /\ effect'[j] = TRUE
    BY <1>2, <1>13 DEF Act, At
  <2>3. JobOK(j)'
    BY <1>1, <1>4, <2>1, <2>2 DEF Pcs
  <2> QED BY <1>2, <1>4, <2>1, <2>2, <2>3, OneJobMoves DEF At, Pcs
<1>14. CASE EndJob(j)
  <2>1. /\ UNCHANGED <<disk, sender, effect, spoiled, call, canceller, consent>>
        /\ jobTask[j].pc \in {"succeeding", "failing"} /\ Go(j, "saving")
    BY <1>14 DEF EndJob, coordinator
  <2>2. /\ mem' \in [Jobs -> Known] /\ At(j, mem)
        /\ mem'[j] = IF jobTask[j].pc = "succeeding" THEN "succeeded" ELSE "failed"
    BY <1>2, <1>3, <1>14 DEF EndJob, TaskIs, At
  <2>3. JobOK(j)'
    BY <1>1, <1>4, <2>1, <2>2 DEF Pcs
  <2> QED BY <1>2, <1>4, <2>1, <2>2, <2>3, OneJobMoves DEF At, Pcs
<1>15. CASE SaveEnd(j)
  <2>1. /\ UNCHANGED <<mem, sender, effect, call, canceller, consent>>
        /\ jobTask[j].pc = "saving" /\ EndTask(j)
    BY <1>15 DEF SaveEnd, Saving, TaskIs, coordinator
  <2>2. mem[j] \in {"succeeded", "failed", "cancelled"}
    BY <1>1, <2>1
  <2>3. PICK end \in {"succeeded", "failed"} :
          /\ mem[j] \in {end, "cancelled"} /\ spoiled' \in Spoil
          /\ disk' = [disk EXCEPT ![j] = end] \/ disk' = disk
    BY <1>1, <1>15, <2>2, SpoilMeans DEF SaveEnd, Saving
  <2>4. disk' \in [Jobs -> Known] /\ At(j, disk) /\ disk'[j] \in {disk[j], end}
    BY <1>2, <1>3, <2>3 DEF At
  <2>5. JobOK(j)'
    BY <1>1, <1>5, <2>1, <2>2, <2>3, <2>4
  <2> QED BY <1>2, <1>5, <2>1, <2>3, <2>4, <2>5, OneJobMoves DEF At
<1>16. CASE DropTask(j)
  <2>1. /\ UNCHANGED <<mem, disk, sender, spoiled, call, canceller, consent>>
        /\ jobTask[j].doomed /\ EndTask(j)
        /\ jobTask[j].pc \in {"queued", "invoking", "waiting", "acting"}
    BY <1>16 DEF DropTask, coordinator
  <2>2. /\ effect' \in [Jobs -> BOOLEAN] /\ At(j, effect)
        /\ effect'[j] = effect[j] \/ (effect'[j] = TRUE /\ jobTask[j].pc = "acting")
    BY <1>2, <1>16 DEF DropTask, TaskIs, At
  <2>3. JobOK(j)'
    BY <1>1, <1>5, <2>1, <2>2
  <2> QED BY <1>2, <1>5, <2>1, <2>2, <2>3, OneJobMoves DEF At
<1>17. CASE CancelCheck(j)
  <2>1. UNCHANGED <<mem, disk, call, effect, consent, spoiled>> /\ canceller[j] = "sent"
    BY <1>17 DEF CancelCheck
  <2>2. HasLeft(call[j])
    BY <1>1, <2>1
  <2>3. canceller' \in [Jobs -> {"idle", "sent", "checked", "wrote"}] /\ At(j, canceller)
    BY <1>2, <1>17 DEF CancelCheck, At
  <2>4. /\ sender' \in [Jobs -> {"none", "open", "approved", "denied"}] /\ At(j, sender)
        /\ sender'[j] = sender[j] \/ sender'[j] = "none"
    BY <1>2, <1>17 DEF CancelCheck, At
  <2>5. /\ jobTask' \in [Jobs -> TaskSet] /\ At(j, jobTask)
        /\ jobTask'[j].pc = jobTask[j].pc /\ jobTask'[j].guarded = jobTask[j].guarded
    <3>1. CASE UNCHANGED jobTask
      BY <1>2, <3>1 DEF At
    <3>2. CASE jobTask' = [jobTask EXCEPT ![j].doomed = @ \/ jobTask[j].pc # "none"]
      <4> DEFINE b == jobTask[j].doomed \/ jobTask[j].pc # "none"
      <4>1. jobTask' = [jobTask EXCEPT ![j] = [jobTask[j] EXCEPT !.doomed = b]]
        BY <1>2, <3>2 DEF TaskSet
      <4>2. b \in BOOLEAN
        BY <1>6 DEF TaskSet
      <4> HIDE DEF b
      <4> QED BY <1>2, <4>1, <4>2 DEF TaskSet, At
    <3> QED BY <1>17, <3>1, <3>2 DEF CancelCheck
  <2>6. JobOK(j)'
    BY <1>1, <2>1, <2>2, <2>4, <2>5
  <2> QED BY <1>2, <2>1, <2>3, <2>4, <2>5, <2>6, OneJobMoves DEF At
<1>18. CASE CancelWrite(j)
  <2>1. /\ UNCHANGED <<disk, jobTask, sender, call, effect, consent, spoiled>>
        /\ canceller[j] = "checked"
    BY <1>18 DEF CancelWrite
  <2>2. HasLeft(call[j])
    BY <1>1, <2>1
  <2>3. /\ canceller' \in [Jobs -> {"idle", "sent", "checked", "wrote"}] /\ At(j, canceller)
        /\ mem' \in [Jobs -> Known] /\ At(j, mem) /\ mem'[j] = "cancelled"
    BY <1>2, <1>3, <1>18 DEF CancelWrite, At
  <2>4. JobOK(j)'
    BY <1>1, <2>1, <2>2, <2>3
  <2> QED BY <1>2, <2>1, <2>3, <2>4, OneJobMoves DEF At
<1>19. CASE CancelSave(j)
  <2>1. /\ UNCHANGED <<mem, jobTask, sender, call, effect, consent>>
        /\ canceller[j] = "wrote"
    BY <1>19 DEF CancelSave
  <2>2. HasLeft(call[j])
    BY <1>1, <2>1
  <2>3. /\ canceller' \in [Jobs -> {"idle", "sent", "checked", "wrote"}] /\ At(j, canceller)
        /\ disk' \in [Jobs -> Known] /\ At(j, disk) /\ disk'[j] \in {disk[j], "cancelled"}
        /\ spoiled' \in Spoil
    BY <1>1, <1>2, <1>3, <1>19, SpoilMeans DEF CancelSave, Saving, At
  <2>4. JobOK(j)'
    BY <1>1, <2>1, <2>2, <2>3
  <2> QED BY <1>2, <2>1, <2>3, <2>4, OneJobMoves DEF At
<1> QED BY <1>7, <1>8, <1>9, <1>10, <1>11, <1>12, <1>13, <1>14, <1>15, <1>16, <1>17, <1>18,
           <1>19 DEF JobStep

-----------------------------------------------------------------------------
\* The task is gone with the process and the ledger is all that is left.
LEMMA RestartStep == WorkerInv /\ RestartWorker => WorkerInv'
<1> SUFFICES ASSUME WorkerInv, RestartWorker PROVE WorkerInv'
  OBVIOUS
<1>1. WorkerTypeOK
  BY DEF WorkerInv
<1>2. /\ disk \in [Jobs -> Known] /\ call \in [Jobs -> CallSet] /\ spoiled \in Spoil
      /\ effect \in [Jobs -> BOOLEAN] /\ consent \in [Jobs -> BOOLEAN]
  BY <1>1, Typing
<1>3. NoTask \in TaskSet /\ NoTask.pc = "none" /\ ~NoTask.doomed
  BY DEF NoTask, TaskSet
<1>4. \A st \in Known : Recovered(st) \in Known /\ Recovered(st) # "awaiting"
        /\ (Recovered(st) = "none" <=> st = "none") /\ Recovered(st) # "queued"
        /\ (Recovered(st) = "succeeded" <=> st = "succeeded")
        /\ (Recovered(st) = "cancelled" <=> st = "cancelled")
  BY DEF Recovered, Known, Statuses, Ends
<1>5. /\ disk' \in [Jobs -> Known] /\ mem' = disk'
      /\ jobTask' = [j \in Jobs |-> NoTask] /\ sender' = [j \in Jobs |-> "none"]
      /\ canceller' = [j \in Jobs |-> "idle"] /\ UNCHANGED <<call, effect, consent>>
      /\ spoiled' \in Spoil
  <2>1. spoiled' \in Spoil
    BY <1>2, WorkerConstants DEF RestartWorker, Spoil
  <2> QED BY <1>2, <1>4, <2>1 DEF RestartWorker
<1>6. WorkerTypeOK'
  BY <1>2, <1>3, <1>5 DEF WorkerTypeOK, Known, TaskSet, CallSet, Spoil
<1>7. ASSUME NEW j \in Jobs PROVE JobOK(j)'
  <2>1. JobOK(j) /\ disk[j] \in Known /\ disk'[j] = Recovered(disk[j]) /\ mem'[j] = disk'[j]
    BY <1>2, <1>5 DEF WorkerInv, RestartWorker
  <2>2. jobTask'[j] = NoTask /\ sender'[j] = "none" /\ canceller'[j] = "idle"
        /\ call'[j] = call[j] /\ effect'[j] = effect[j] /\ consent'[j] = consent[j]
    BY <1>5
  <2> QED BY <1>3, <1>4, <2>1, <2>2
        DEF JobOK, JobInv, Untouched, Consented, Recorded, Placed, Uncancelled, Unasked,
            Done, HasLeft, BeforeActing
<1> QED BY <1>6, <1>7 DEF WorkerInv

\* The worker acts on a job that asks only after the user's yes and only once its
\* ledger shows it as running, and the caller hears "ok" only of what was done:
\* whatever answers, cancellations, ledger writes and restarts race each other.
THEOREM RemoteWorkIsSafe == WorkerSpec => []WorkerSafe
<1>1. WorkerInit => WorkerInv
  <2> SUFFICES ASSUME WorkerInit PROVE WorkerInv
    OBVIOUS
  <2>1. WorkerTypeOK
    BY WorkerConstants DEF WorkerInit, WorkerTypeOK, NoTask, NewCall, Statuses
  <2>2. ASSUME NEW j \in Jobs PROVE JobOK(j)
    BY DEF WorkerInit, NoTask, NewCall, JobOK, JobInv, Untouched, Consented, Recorded, Placed,
           Uncancelled, Unasked, Done, HasLeft, BeforeActing
  <2> QED BY <2>1, <2>2 DEF WorkerInv
<1>2. WorkerInv /\ [WorkerNext]_workerVars => WorkerInv'
  <2> SUFFICES ASSUME WorkerInv, [WorkerNext]_workerVars PROVE WorkerInv'
    OBVIOUS
  <2>1. CASE UNCHANGED workerVars
    BY <2>1 DEF workerVars, WorkerInv, WorkerTypeOK, JobOK
  <2> QED BY <2>1, CallSteps, JobSteps, RestartStep DEF WorkerNext
<1>3. WorkerInv => WorkerSafe
  <2> SUFFICES ASSUME WorkerInv PROVE WorkerSafe
    OBVIOUS
  <2>1. ASSUME NEW j \in Jobs
        PROVE  /\ effect[j] => consent[j]
               /\ effect[j] => disk[j] \notin {"none", "queued", "awaiting"}
               /\ call[j].result = "ok" /\ call[j].answered => effect[j]
    BY DEF WorkerInv, JobOK, JobInv, Consented, Recorded, Done, HasLeft
  <2> QED BY <2>1 DEF WorkerInv, WorkerSafe, EffectWasApproved, EffectWasRecorded, OkMeansDone
<1> QED BY <1>1, <1>2, <1>3, PTL DEF WorkerSpec

-----------------------------------------------------------------------------
(* The MCP client.                                                         *)

\* A tool call that has its receipt and has not closed it.
Begun(r) == r.kind = "tool" /\ r.pc \in {"ready", "posting", "expired", "resuming", "finishing"}

\* The receipt of a call that has begun is taken; its request has not left before it is
\* posted, which happens once; and what it concludes from an answer was read.
RpcHolds(c) ==
  /\ Begun(rpcs[c]) => receipts[rpcs[c].target] # "none"
  /\ Begun(rpcs[c]) /\ rpcs[c].pc \in {"ready", "posting"} => delivered[rpcs[c].target] = 0
  /\ rpcs[c].kind = "tool" /\ rpcs[c].pc = "finishing" /\ rpcs[c].result # "uncertain" =>
       rpcs[c].target \in heard
  /\ rpcs[c].pc = "sealing" => receipts[rpcs[c].target] # "none"
  /\ rpcs[c].pc = "finishing" => rpcs[c].kind = "tool"
  /\ rpcs[c].pc \in {"asking", "granted", "sealing"} => rpcs[c].kind = "tool"

\* One receipt, one call.
OneBegun ==
  \A c, d \in McpCalls :
    Begun(rpcs[c]) /\ Begun(rpcs[d]) /\ rpcs[c].target = rpcs[d].target => c = d

TargetHolds(t) ==
  /\ delivered[t] \in {0, 1}
  /\ receipts[t] = "none" => delivered[t] = 0
  /\ receipts[t] \in {"succeeded", "failed"} => t \in heard

McpInv ==
  /\ McpTypeOK
  /\ \A c \in McpCalls : RpcHolds(c)
  /\ OneBegun
  /\ \A t \in Targets : TargetHolds(t)

RpcRecord == [pc : {"idle", "asking", "granted", "sealing", "ready", "posting", "expired", "resuming",
                    "finishing"},
              kind : {"read", "tool"}, binding : 0..MaxCatalogLoads, target : Targets, tries : Nat,
              result : {"ok", "toolerror", "rpcerror", "uncertain"}]

\* What the calls do not own keeps its type.
SidesTyped ==
  /\ catalog' \in [gen : 0..MaxCatalogLoads, target : Targets]
  /\ client' \in 0..MaxRemote
  /\ remote' \in [last : 0..MaxRemote, live : SUBSET (1..MaxRemote)]
  /\ holder' \in McpCalls \cup {NoCall}
  /\ opened' \in [loads : 0..MaxCatalogLoads, calls : 0..MaxMcpStarts]

EffectTypes ==
  /\ receipts \in [Targets -> {"none", "started", "succeeded", "failed", "uncertain"}]
  /\ delivered \in [Targets -> Nat] /\ heard \subseteq Targets

LEMMA QuietRpc ==
  /\ Quiet \in RpcRecord /\ Quiet.pc = "idle" /\ Quiet.kind = "read" /\ ~Begun(Quiet)
BY McpConstants DEF Quiet, RpcRecord, Begun, Targets

LEMMA McpInitHolds == McpInit => McpInv
<1> SUFFICES ASSUME McpInit PROVE McpInv
  OBVIOUS
<1>1. McpTypeOK
  BY McpConstants, QuietRpc DEF McpInit, McpTypeOK, RpcRecord, Targets
<1>2. \A c \in McpCalls : RpcHolds(c) /\ ~Begun(rpcs[c])
  BY QuietRpc DEF McpInit, RpcHolds
<1>3. \A t \in Targets : TargetHolds(t)
  BY DEF McpInit, TargetHolds
<1> QED BY <1>1, <1>2, <1>3 DEF McpInv, OneBegun

\* One call moves, and with it at most the receipt and the deliveries of its target.
RpcGoes(c, r) ==
  /\ r \in RpcRecord /\ rpcs' = [rpcs EXCEPT ![c] = r]
  /\ SidesTyped /\ EffectTypes' /\ heard \subseteq heard'
  /\ \A t \in Targets : /\ t # rpcs[c].target => receipts'[t] = receipts[t] /\ delivered'[t] = delivered[t]
                        /\ receipts[t] # "none" => receipts'[t] # "none"
  /\ Begun(r) => \/ Begun(rpcs[c]) /\ r.target = rpcs[c].target
                 \/ receipts[r.target] = "none"

LEMMA RpcMoves ==
  ASSUME McpInv, NEW c \in McpCalls, NEW r, RpcGoes(c, r), RpcHolds(c)',
         \A t \in Targets : t = rpcs[c].target => TargetHolds(t)',
         \A t \in Targets : delivered'[t] # delivered[t] => Begun(rpcs[c])
  PROVE  McpInv'
<1>1. McpTypeOK /\ rpcs \in [McpCalls -> RpcRecord] /\ EffectTypes
  BY DEF McpInv, McpTypeOK, RpcRecord, EffectTypes
<1>2. /\ rpcs' \in [McpCalls -> RpcRecord] /\ rpcs'[c] = r
      /\ \A d \in McpCalls : d # c => rpcs'[d] = rpcs[d]
  BY <1>1 DEF RpcGoes
<1>3. McpTypeOK'
  BY <1>2 DEF McpTypeOK, RpcGoes, SidesTyped, EffectTypes, RpcRecord
<1>4. ASSUME NEW d \in McpCalls, d # c, Begun(rpcs[d])
      PROVE  /\ Begun(r) => r.target # rpcs[d].target
             /\ delivered'[rpcs[d].target] = delivered[rpcs[d].target]
  <2>1. rpcs[d].target \in Targets /\ receipts[rpcs[d].target] # "none" /\ rpcs[c].target \in Targets
    BY <1>1, <1>4 DEF McpInv, RpcHolds, RpcRecord
  <2>2. Begun(rpcs[c]) => rpcs[c].target # rpcs[d].target
    BY <1>4 DEF McpInv, OneBegun
  <2> QED BY <2>1, <2>2 DEF RpcGoes
<1>5. ASSUME NEW d \in McpCalls PROVE RpcHolds(d)'
  <2>1. CASE d # c
    <3>1. RpcHolds(d) /\ rpcs'[d] = rpcs[d] /\ rpcs[d].target \in Targets
      BY <1>1, <1>2, <2>1 DEF McpInv, RpcRecord
    <3>2. receipts[rpcs[d].target] # "none" => receipts'[rpcs[d].target] # "none"
      BY <3>1 DEF RpcGoes
    <3>3. heard \subseteq heard'
      BY DEF RpcGoes
    <3>4. Begun(rpcs[d]) => delivered'[rpcs[d].target] = delivered[rpcs[d].target]
      BY <1>4, <2>1
    <3> QED BY <3>1, <3>2, <3>3, <3>4 DEF RpcHolds, Begun
  <2> QED BY <2>1
<1>6. OneBegun'
  <2> SUFFICES ASSUME NEW d \in McpCalls, NEW e \in McpCalls, Begun(rpcs'[d]), Begun(rpcs'[e]),
                      rpcs'[d].target = rpcs'[e].target
               PROVE  d = e
    BY DEF OneBegun, Begun
  <2>1. CASE d # c /\ e # c
    BY <1>2, <2>1 DEF McpInv, OneBegun
  <2>2. CASE d = c /\ e # c
    BY <1>2, <1>4, <2>2
  <2>3. CASE d # c /\ e = c
    BY <1>2, <1>4, <2>3
  <2> QED BY <2>1, <2>2, <2>3
<1>7. ASSUME NEW t \in Targets PROVE TargetHolds(t)'
  <2>1. CASE t # rpcs[c].target
    <3>1. TargetHolds(t) /\ receipts'[t] = receipts[t] /\ delivered'[t] = delivered[t] /\ heard \subseteq heard'
      BY <2>1 DEF McpInv, RpcGoes
    <3> QED BY <3>1 DEF TargetHolds
  <2> QED BY <2>1
<1> QED BY <1>3, <1>5, <1>6, <1>7 DEF McpInv

\* A step that leaves receipts and deliveries alone.
LEMMA RpcTurns ==
  ASSUME McpInv, NEW c \in McpCalls, NEW r \in RpcRecord, rpcs' = [rpcs EXCEPT ![c] = r], SidesTyped,
         UNCHANGED <<receipts, delivered>>, heard' \subseteq Targets, heard \subseteq heard',
         Begun(r) => Begun(rpcs[c]) /\ r.target = rpcs[c].target,
         r.kind = "tool" /\ r.pc \in {"ready", "posting"} => rpcs[c].pc \in {"ready", "posting"},
         r.kind = "tool" /\ r.pc = "finishing" /\ r.result # "uncertain" => r.target \in heard',
         r.pc = "sealing" => receipts[r.target] # "none",
         r.pc \in {"finishing", "asking", "granted", "sealing"} => r.kind = "tool"
  PROVE  McpInv'
<1>1. EffectTypes /\ rpcs'[c] = r /\ RpcHolds(c)
  BY DEF McpInv, McpTypeOK, EffectTypes, RpcRecord
<1>2. RpcGoes(c, r)
  BY <1>1 DEF RpcGoes, EffectTypes
<1>3. RpcHolds(c)'
  BY <1>1 DEF RpcHolds, Begun
<1>4. \A t \in Targets : TargetHolds(t)'
  BY DEF McpInv, TargetHolds
<1> QED BY <1>2, <1>3, <1>4, RpcMoves

LEMMA SidesStay ==
  ASSUME McpTypeOK, UNCHANGED <<remoteVars, opened>>, holder' \in McpCalls \cup {NoCall} PROVE SidesTyped
BY DEF McpTypeOK, SidesTyped, remoteVars

LEMMA RpcTyped ==
  ASSUME McpInv, NEW c \in McpCalls
  PROVE  McpTypeOK /\ EffectTypes /\ rpcs[c] \in RpcRecord /\ rpcs[c].target \in Targets /\ RpcHolds(c)
BY DEF McpInv, McpTypeOK, EffectTypes, RpcRecord

LEMMA RpcMoved ==
  ASSUME NEW q \in RpcRecord, NEW pc \in {"granted", "sealing", "ready", "posting", "expired", "resuming"},
         NEW r, r = [q EXCEPT !.pc = pc]
  PROVE  /\ r \in RpcRecord /\ r.pc = pc /\ r.kind = q.kind /\ r.target = q.target
         /\ r.result = q.result
BY DEF RpcRecord

LEMMA StartToolHolds == ASSUME McpInv, NEW c \in McpCalls, StartTool(c) PROVE McpInv'
<1> DEFINE r == [Quiet EXCEPT !.pc = "asking", !.kind = "tool", !.binding = catalog.gen,
                              !.target = catalog.target]
<1>1. McpTypeOK /\ EffectTypes
  BY RpcTyped
<1>2. r \in RpcRecord /\ r.pc = "asking" /\ r.kind = "tool"
  BY <1>1, McpConstants DEF McpTypeOK, RpcRecord, Quiet
<1>3. rpcs' = [rpcs EXCEPT ![c] = r]
  BY DEF StartTool
<1> HIDE DEF r
<1>4. SidesTyped
  BY <1>1, McpConstants DEF StartTool, McpTypeOK, SidesTyped, remoteVars
<1> QED BY <1>1, <1>2, <1>3, <1>4, RpcTurns DEF StartTool, EffectTypes, Begun

LEMMA StartReadHolds == ASSUME McpInv, NEW c \in McpCalls, StartRead(c) PROVE McpInv'
<1> DEFINE r == [Quiet EXCEPT !.pc = "ready", !.binding = catalog.gen]
<1>1. McpTypeOK /\ EffectTypes
  BY RpcTyped
<1>2. r \in RpcRecord /\ r.pc = "ready" /\ r.kind = "read"
  <2>1. catalog.gen \in 0..MaxCatalogLoads
    BY <1>1 DEF McpTypeOK
  <2> QED BY <2>1, QuietRpc DEF RpcRecord
<1>3. rpcs' = [rpcs EXCEPT ![c] = r]
  BY DEF StartRead
<1> HIDE DEF r
<1>4. SidesTyped
  BY <1>1, McpConstants DEF StartRead, McpTypeOK, SidesTyped, remoteVars
<1> QED BY <1>1, <1>2, <1>3, <1>4, RpcTurns DEF StartRead, EffectTypes, Begun

\* The call stops, or moves to another point of its way.
LEMMA StopHolds ==
  ASSUME McpInv, NEW c \in McpCalls, Stop(c), UNCHANGED <<remoteVars, holder, receipts, delivered, heard, opened>>
  PROVE  McpInv'
<1>1. SidesTyped /\ heard \subseteq Targets
  BY RpcTyped, SidesStay DEF McpTypeOK
<1> QED BY <1>1, QuietRpc, RpcTurns DEF Stop

LEMMA MoveTo ==
  ASSUME McpInv, NEW c \in McpCalls,
         NEW pc \in {"granted", "sealing", "ready", "posting", "expired", "resuming"}, Move(c, pc)
  PROVE  \E r \in RpcRecord : /\ rpcs' = [rpcs EXCEPT ![c] = r] /\ r.pc = pc /\ r.kind = rpcs[c].kind
                              /\ r.target = rpcs[c].target /\ r.result = rpcs[c].result
<1> DEFINE r == [rpcs[c] EXCEPT !.pc = pc]
<1>1. rpcs' = [rpcs EXCEPT ![c] = r]
  BY DEF Move
<1>2. /\ r \in RpcRecord /\ r.pc = pc /\ r.kind = rpcs[c].kind /\ r.target = rpcs[c].target
      /\ r.result = rpcs[c].result
  BY RpcTyped, RpcMoved
<1> QED BY <1>1, <1>2

LEMMA DecideToolHolds == ASSUME McpInv, NEW c \in McpCalls, DecideTool(c) PROVE McpInv'
<1>1. CASE Stop(c)
  BY <1>1, StopHolds DEF DecideTool
<1>2. CASE Move(c, "granted")
  <2>1. PICK r \in RpcRecord : rpcs' = [rpcs EXCEPT ![c] = r] /\ r.pc = "granted" /\ r.kind = "tool"
    <3>1. rpcs[c].kind = "tool"
      BY RpcTyped DEF DecideTool, Is, RpcHolds
    <3> QED BY <1>2, <3>1, MoveTo
  <2>2. SidesTyped /\ heard \subseteq Targets
    BY RpcTyped, SidesStay DEF McpTypeOK, DecideTool
  <2> QED BY <2>1, <2>2, RpcTurns DEF DecideTool, Begun
<1> QED BY <1>1, <1>2 DEF DecideTool

LEMMA BeginEffectHolds == ASSUME McpInv, NEW c \in McpCalls, BeginEffect(c) PROVE McpInv'
<1>1. PICK t \in Targets : t = rpcs[c].target
  BY RpcTyped
<1>2. /\ McpTypeOK /\ EffectTypes /\ SidesTyped /\ rpcs[c].kind = "tool" /\ Is(c, "granted")
  BY RpcTyped, SidesStay DEF BeginEffect, McpTypeOK, RpcHolds, Is
<1>3. CASE /\ Fresh(t) /\ Move(c, "ready") /\ receipts' = [receipts EXCEPT ![t] = "started"]
  <2>1. PICK r \in RpcRecord :
          rpcs' = [rpcs EXCEPT ![c] = r] /\ r.pc = "ready" /\ r.kind = "tool" /\ r.target = t
    BY <1>1, <1>2, <1>3, MoveTo
  <2>2. UNCHANGED <<delivered, heard>> /\ receipts[t] = "none" /\ receipts'[t] = "started"
    BY <1>2, <1>3 DEF BeginEffect, Fresh, EffectTypes
  <2>3. RpcGoes(c, r)
    BY <1>1, <1>2, <1>3, <2>1, <2>2 DEF RpcGoes, EffectTypes, Begun, Is
  <2>4. TargetHolds(t) /\ rpcs'[c] = r
    BY <1>2, <2>1 DEF McpInv, McpTypeOK
  <2>5. RpcHolds(c)'
    BY <2>1, <2>2, <2>4 DEF RpcHolds, Begun, TargetHolds
  <2>6. TargetHolds(t)'
    BY <2>2, <2>4 DEF TargetHolds
  <2> QED BY <1>1, <2>2, <2>3, <2>5, <2>6, RpcMoves
<1>4. CASE receipts[t] = "started" /\ Move(c, "sealing") /\ UNCHANGED receipts
  <2>1. PICK r \in RpcRecord :
          rpcs' = [rpcs EXCEPT ![c] = r] /\ r.pc = "sealing" /\ r.kind = "tool" /\ r.target = t
    BY <1>1, <1>2, <1>4, MoveTo
  <2> QED BY <1>2, <1>4, <2>1, RpcTurns DEF BeginEffect, Begun, EffectTypes
<1>5. CASE Stop(c) /\ UNCHANGED receipts
  BY <1>5, StopHolds DEF BeginEffect
<1> QED BY <1>1, <1>3, <1>4, <1>5 DEF BeginEffect

\* A receipt is closed only from "started", and as answered only if the answer was read.
LEMMA CloseHolds ==
  ASSUME McpInv, NEW c \in McpCalls, NEW final \in {"succeeded", "failed", "uncertain"}, Stop(c),
         receipts' = [receipts EXCEPT ![rpcs[c].target] = ClosedAs(@, final)],
         final # "uncertain" => rpcs[c].target \in heard,
         UNCHANGED <<remoteVars, holder, delivered, heard, opened>>
  PROVE  McpInv'
<1>1. PICK t \in Targets : t = rpcs[c].target
  BY RpcTyped
<1>2. McpTypeOK /\ EffectTypes /\ SidesTyped /\ TargetHolds(t)
  BY RpcTyped, SidesStay DEF McpTypeOK, McpInv
<1>3. receipts'[t] = (IF receipts[t] = "started" THEN final ELSE receipts[t])
  BY <1>1, <1>2 DEF EffectTypes, ClosedAs
<1>4. RpcGoes(c, Quiet) /\ rpcs'[c] = Quiet
  BY <1>1, <1>2, <1>3, QuietRpc DEF RpcGoes, Stop, EffectTypes, McpTypeOK
<1>5. RpcHolds(c)'
  BY <1>4, QuietRpc DEF RpcHolds
<1>6. TargetHolds(t)'
  BY <1>1, <1>2, <1>3 DEF TargetHolds
<1> QED BY <1>1, <1>4, <1>5, <1>6, RpcMoves

LEMMA SealReceiptHolds == ASSUME McpInv, NEW c \in McpCalls, SealReceipt(c) PROVE McpInv'
BY CloseHolds DEF SealReceipt

LEMMA FinishToolHolds == ASSUME McpInv, NEW c \in McpCalls, FinishTool(c) PROVE McpInv'
<1> DEFINE final == ReceiptFor(rpcs[c].result)
<1>1. final \in {"succeeded", "failed", "uncertain"} /\ (final # "uncertain" => rpcs[c].result # "uncertain")
  BY DEF ReceiptFor
<1>2. final # "uncertain" => rpcs[c].target \in heard
  BY <1>1, RpcTyped DEF FinishTool, Is, RpcHolds
<1> QED BY <1>1, <1>2, CloseHolds DEF FinishTool

LEMMA LockSessionHolds == ASSUME McpInv, NEW c \in McpCalls, LockSession(c) PROVE McpInv'
<1>1. PICK r \in RpcRecord : /\ rpcs' = [rpcs EXCEPT ![c] = r] /\ r.pc = "posting"
                            /\ r.kind = rpcs[c].kind /\ r.target = rpcs[c].target
  BY MoveTo DEF LockSession
<1>2. SidesTyped /\ heard \subseteq Targets
  BY RpcTyped, SidesStay DEF McpTypeOK, LockSession
<1> QED BY <1>1, <1>2, RpcTurns DEF LockSession, Begun, Is

-----------------------------------------------------------------------------
(* The exchange under the session lock.                                    *)

\* Where a call is once its exchange has ended.
After(c, result) ==
  IF rpcs[c].kind = "tool" THEN [rpcs[c] EXCEPT !.pc = "finishing", !.result = result] ELSE Quiet

LEMMA Concluded ==
  ASSUME McpInv, NEW c \in McpCalls, NEW result \in {"ok", "toolerror", "rpcerror", "uncertain"},
         Conclude(c, result)
  PROVE  /\ rpcs' = [rpcs EXCEPT ![c] = After(c, result)] /\ holder' = NoCall
         /\ After(c, result) \in RpcRecord
         /\ rpcs[c].kind # "tool" => After(c, result) = Quiet
         /\ rpcs[c].kind = "tool" => /\ After(c, result).pc = "finishing" /\ After(c, result).kind = "tool"
                                     /\ After(c, result).target = rpcs[c].target
                                     /\ After(c, result).result = result
<1>1. rpcs' = [rpcs EXCEPT ![c] = After(c, result)] /\ holder' = NoCall
  BY DEF Conclude, After
<1>2. CASE rpcs[c].kind = "tool"
  <2>1. After(c, result) = [rpcs[c] EXCEPT !.pc = "finishing", !.result = result]
    BY <1>2 DEF After
  <2>2. /\ After(c, result) \in RpcRecord /\ After(c, result).pc = "finishing"
        /\ After(c, result).kind = rpcs[c].kind /\ After(c, result).target = rpcs[c].target
        /\ After(c, result).result = result
    <3>1. rpcs[c] \in RpcRecord
      BY RpcTyped
    <3> QED BY <2>1, <3>1 DEF RpcRecord
  <2> QED BY <1>1, <1>2, <2>2
<1>3. CASE rpcs[c].kind # "tool"
  BY <1>1, <1>3, QuietRpc DEF After
<1> QED BY <1>2, <1>3

\* The exchange ends without another delivery.
LEMMA ConcludeHolds ==
  ASSUME McpInv, NEW c \in McpCalls, NEW result \in {"ok", "toolerror", "rpcerror", "uncertain"},
         Conclude(c, result), rpcs[c].pc \in {"posting", "expired", "resuming"}, SidesTyped,
         UNCHANGED <<receipts, delivered>>, heard' \subseteq Targets, heard \subseteq heard',
         rpcs[c].kind = "tool" /\ result # "uncertain" => rpcs[c].target \in heard'
  PROVE  McpInv'
<1>1. CASE rpcs[c].kind = "tool"
  BY <1>1, Concluded, RpcTurns DEF Begun
<1>2. CASE rpcs[c].kind # "tool"
  BY <1>2, Concluded, QuietRpc, RpcTurns
<1> QED BY <1>1, <1>2

\* The request of a posted call arrives, which for a tool is the first time.
LEMMA DeliverHolds ==
  ASSUME McpInv, NEW c \in McpCalls, Is(c, "posting"), Deliver(c), NEW r \in RpcRecord,
         rpcs' = [rpcs EXCEPT ![c] = r], SidesTyped, UNCHANGED receipts,
         heard' \subseteq Targets, heard \subseteq heard',
         r = Quiet \/ (r.kind = rpcs[c].kind /\ r.target = rpcs[c].target),
         rpcs[c].kind = "tool" => r.pc \in {"expired", "resuming", "finishing"},
         rpcs[c].kind = "read" => r.pc \in {"idle", "expired", "resuming"},
         r.kind = "tool" /\ r.pc = "finishing" /\ r.result # "uncertain" => r.target \in heard'
  PROVE  McpInv'
<1>1. PICK t \in Targets : t = rpcs[c].target
  BY RpcTyped
<1>2. /\ McpTypeOK /\ EffectTypes /\ rpcs'[c] = r /\ RpcHolds(c) /\ TargetHolds(t)
      /\ rpcs[c].kind \in {"tool", "read"}
  BY RpcTyped DEF McpInv, McpTypeOK, RpcRecord
<1>3. /\ delivered' \in [Targets -> Nat] /\ \A u \in Targets : u # t => delivered'[u] = delivered[u]
      /\ rpcs[c].kind = "read" => delivered'[t] = delivered[t]
      /\ rpcs[c].kind = "tool" => delivered'[t] = delivered[t] + 1
  BY <1>1, <1>2 DEF Deliver, EffectTypes
<1>4. rpcs[c].kind = "tool" => Begun(rpcs[c]) /\ delivered[t] = 0 /\ receipts[t] # "none"
  BY <1>1, <1>2 DEF Begun, RpcHolds, Is
<1>5. RpcGoes(c, r)
  BY <1>1, <1>2, <1>3, <1>4, QuietRpc DEF RpcGoes, EffectTypes, Begun, Is
<1>6. RpcHolds(c)'
  BY <1>1, <1>2, <1>4, QuietRpc DEF RpcHolds, Begun, Is
<1>7. TargetHolds(t)'
  BY <1>2, <1>3, <1>4 DEF TargetHolds
<1> QED BY <1>1, <1>2, <1>3, <1>4, <1>5, <1>6, <1>7, RpcMoves

\* A delivery that concludes the exchange, or goes on without a conclusion.
LEMMA DeliverConcludes ==
  ASSUME McpInv, NEW c \in McpCalls, Is(c, "posting"), Deliver(c), SidesTyped, UNCHANGED receipts,
         NEW result \in {"ok", "toolerror", "rpcerror", "uncertain"}, Conclude(c, result),
         heard' \subseteq Targets, heard \subseteq heard',
         rpcs[c].kind = "tool" /\ result # "uncertain" => rpcs[c].target \in heard'
  PROVE  McpInv'
<1>1. rpcs[c].kind \in {"tool", "read"}
  BY RpcTyped DEF RpcRecord
<1>2. CASE rpcs[c].kind = "tool"
  BY <1>2, Concluded, DeliverHolds
<1>3. CASE rpcs[c].kind = "read"
  BY <1>3, Concluded, QuietRpc, DeliverHolds
<1> QED BY <1>1, <1>2, <1>3

LEMMA DeliverMoves ==
  ASSUME McpInv, NEW c \in McpCalls, Is(c, "posting"), Deliver(c), SidesTyped, UNCHANGED <<receipts, heard>>,
         NEW pc \in {"expired", "resuming"}, Move(c, pc)
  PROVE  McpInv'
<1>1. PICK r \in RpcRecord : /\ rpcs' = [rpcs EXCEPT ![c] = r] /\ r.pc = pc
                            /\ r.kind = rpcs[c].kind /\ r.target = rpcs[c].target
  BY MoveTo
<1>2. heard \subseteq Targets
  BY RpcTyped DEF EffectTypes
<1> QED BY <1>1, <1>2, DeliverHolds

LEMMA Hears ==
  ASSUME McpInv, NEW c \in McpCalls, Hear(c)
  PROVE  /\ heard' \subseteq Targets /\ heard \subseteq heard'
         /\ rpcs[c].kind = "tool" => rpcs[c].target \in heard'
BY RpcTyped DEF Hear, EffectTypes

LEMMA AcceptedHolds == ASSUME McpInv, NEW c \in McpCalls, Accepted(c) PROVE McpInv'
<1>1. McpTypeOK /\ heard \subseteq Targets
  BY RpcTyped DEF McpTypeOK
<1>2. ASSUME NEW result \in {"ok", "toolerror", "rpcerror"}, Conclude(c, result), Hear(c) PROVE McpInv'
  <2>1. SidesTyped
    BY <1>1, <1>2, Concluded, SidesStay DEF Accepted
  <2> QED BY <1>2, <2>1, Hears, DeliverConcludes DEF Accepted
<1>3. CASE Move(c, "resuming") /\ UNCHANGED <<holder, heard>>
  <2>1. SidesTyped
    BY <1>1, <1>3, SidesStay DEF Accepted, McpTypeOK
  <2> QED BY <1>3, <2>1, DeliverMoves DEF Accepted
<1>4. CASE Conclude(c, "uncertain") /\ UNCHANGED heard
  <2>1. SidesTyped
    BY <1>1, <1>4, Concluded, SidesStay DEF Accepted
  <2> QED BY <1>1, <1>4, <2>1, DeliverConcludes DEF Accepted
<1> QED BY <1>2, <1>3, <1>4 DEF Accepted

LEMMA UndeliveredHolds == ASSUME McpInv, NEW c \in McpCalls, Undelivered(c) PROVE McpInv'
<1>1. McpTypeOK /\ heard \subseteq Targets
  BY RpcTyped DEF McpTypeOK
<1>2. SidesTyped
  BY <1>1, Concluded, SidesStay DEF Undelivered
<1> QED BY <1>1, <1>2, ConcludeHolds DEF Undelivered, Is

LEMMA ExpiredHolds == ASSUME McpInv, NEW c \in McpCalls, Expired(c) PROVE McpInv'
<1>1. McpTypeOK /\ heard \subseteq Targets /\ 0 \in 0..MaxRemote
  BY RpcTyped, McpConstants DEF McpTypeOK
<1>2. CASE Conclude(c, "uncertain")
  <2>1. SidesTyped
    BY <1>1, <1>2, Concluded DEF Expired, SidesTyped, McpTypeOK
  <2>2. CASE Deliver(c)
    BY <1>1, <1>2, <2>1, <2>2, DeliverConcludes DEF Expired
  <2>3. CASE UNCHANGED delivered
    BY <1>1, <1>2, <2>1, <2>3, ConcludeHolds DEF Expired, Is
  <2> QED BY <2>2, <2>3 DEF Expired
<1>3. CASE Move(c, "expired") /\ UNCHANGED holder
  <2>1. SidesTyped
    BY <1>1, <1>3 DEF Expired, SidesTyped, McpTypeOK
  <2>2. CASE Deliver(c)
    BY <1>3, <2>1, <2>2, DeliverMoves DEF Expired
  <2>3. CASE UNCHANGED delivered
    <3>1. PICK r \in RpcRecord : /\ rpcs' = [rpcs EXCEPT ![c] = r] /\ r.pc = "expired"
                                /\ r.kind = rpcs[c].kind /\ r.target = rpcs[c].target
      BY <1>3, MoveTo
    <3> QED BY <1>1, <2>1, <2>3, <3>1, RpcTurns DEF Expired, Is, Begun
  <2> QED BY <2>2, <2>3 DEF Expired
<1> QED BY <1>2, <1>3 DEF Expired

\* Initialization, done or not, leaves session ids that were given out.
LEMMA SessionTyped ==
  ASSUME McpTypeOK, Initialized \/ NotInitialized
  PROVE  client' \in 0..MaxRemote /\ remote' \in [last : 0..MaxRemote, live : SUBSET (1..MaxRemote)]
<1>1. remote.last < MaxRemote => Opened \in [last : 0..MaxRemote, live : SUBSET (1..MaxRemote)]
  BY McpConstants DEF McpTypeOK, Opened
<1>2. CASE Initialized
  BY <1>1, <1>2, McpConstants DEF Initialized, McpTypeOK
<1>3. CASE NotInitialized
  <2>1. remote' = remote \/ (remote.last < MaxRemote /\ remote' = Opened)
    BY <1>3 DEF NotInitialized
  <2> QED BY <1>1, <1>3, <2>1, McpConstants DEF NotInitialized, McpTypeOK
<1> QED BY <1>2, <1>3

LEMMA ReinitializeHolds == ASSUME McpInv, NEW c \in McpCalls, Reinitialize(c) PROVE McpInv'
<1>1. McpTypeOK /\ heard \subseteq Targets /\ rpcs[c] \in RpcRecord
  BY RpcTyped DEF McpTypeOK
<1>2. client' \in 0..MaxRemote /\ remote' \in [last : 0..MaxRemote, live : SUBSET (1..MaxRemote)]
  BY <1>1, SessionTyped DEF Reinitialize
<1>3. CASE Conclude(c, "uncertain")
  <2>1. SidesTyped
    BY <1>1, <1>2, <1>3, Concluded DEF Reinitialize, SidesTyped, McpTypeOK
  <2> QED BY <1>1, <1>3, <2>1, ConcludeHolds DEF Reinitialize, Is
<1>4. CASE /\ MayRepeat(rpcs[c].kind) /\ UNCHANGED holder
           /\ rpcs' = [rpcs EXCEPT ![c] = [@ EXCEPT !.pc = "posting", !.tries = 1]]
  <2> DEFINE r == [rpcs[c] EXCEPT !.pc = "posting", !.tries = 1]
  <2>1. r \in RpcRecord /\ r.pc = "posting" /\ r.kind = rpcs[c].kind
    BY <1>1 DEF RpcRecord
  <2>2. rpcs' = [rpcs EXCEPT ![c] = r]
    BY <1>4
  <2> HIDE DEF r
  <2>3. SidesTyped
    BY <1>1, <1>2, <1>4 DEF Reinitialize, SidesTyped, McpTypeOK
  <2> QED BY <1>1, <1>4, <2>1, <2>2, <2>3, RpcTurns DEF Reinitialize, MayRepeat, Begun
<1> QED BY <1>3, <1>4 DEF Reinitialize

LEMMA ResumeStreamHolds == ASSUME McpInv, NEW c \in McpCalls, ResumeStream(c) PROVE McpInv'
<1>1. McpTypeOK /\ heard \subseteq Targets /\ rpcs[c] \in RpcRecord /\ 0 \in 0..MaxRemote
  BY RpcTyped, McpConstants DEF McpTypeOK
<1>2. CASE rpcs' = [rpcs EXCEPT ![c].tries = @ + 1] /\ UNCHANGED <<client, holder, heard>>
  <2> DEFINE r == [rpcs[c] EXCEPT !.tries = rpcs[c].tries + 1]
  <2>1. r \in RpcRecord /\ r.pc = "resuming" /\ r.kind = rpcs[c].kind /\ r.target = rpcs[c].target
    BY <1>1 DEF RpcRecord, ResumeStream, Is
  <2>2. rpcs' = [rpcs EXCEPT ![c] = r]
    BY <1>2
  <2> HIDE DEF r
  <2>3. SidesTyped
    BY <1>1, <1>2 DEF ResumeStream, SidesTyped, McpTypeOK
  <2> QED BY <1>1, <1>2, <2>1, <2>2, <2>3, RpcTurns DEF ResumeStream, Begun, Is
<1>3. ASSUME NEW result \in {"ok", "toolerror", "rpcerror"}, Conclude(c, result), Hear(c), UNCHANGED client
      PROVE  McpInv'
  <2>1. SidesTyped
    BY <1>1, <1>3, Concluded DEF ResumeStream, SidesTyped, McpTypeOK
  <2> QED BY <1>3, <2>1, Hears, ConcludeHolds DEF ResumeStream, Is
<1>4. CASE Conclude(c, "uncertain") /\ client' = (IF client \in remote.live THEN client ELSE 0) /\ UNCHANGED heard
  <2>1. SidesTyped
    BY <1>1, <1>4, Concluded DEF ResumeStream, SidesTyped, McpTypeOK
  <2> QED BY <1>1, <1>4, <2>1, ConcludeHolds DEF ResumeStream, Is
<1> QED BY <1>2, <1>3, <1>4 DEF ResumeStream

-----------------------------------------------------------------------------
\* Steps that touch no call.
LEMMA SidesMove ==
  ASSUME McpInv, SidesTyped, UNCHANGED <<rpcs, receipts, delivered, heard>> PROVE McpInv'
<1>1. McpTypeOK'
  BY DEF McpInv, McpTypeOK, SidesTyped
<1> QED BY <1>1 DEF McpInv, RpcHolds, OneBegun, Begun, TargetHolds

LEMMA LoadCatalogHolds == ASSUME McpInv, NEW t \in Targets, LoadCatalog(t) PROVE McpInv'
<1>1. McpTypeOK
  BY DEF McpInv
<1>2. client' \in 0..MaxRemote /\ remote' \in [last : 0..MaxRemote, live : SUBSET (1..MaxRemote)]
  BY <1>1, SessionTyped DEF LoadCatalog
<1>3. SidesTyped
  BY <1>1, <1>2, McpConstants DEF LoadCatalog, SidesTyped, McpTypeOK
<1> QED BY <1>3, SidesMove DEF LoadCatalog

LEMMA ForgetHolds == ASSUME McpInv, NEW s \in 1..MaxRemote, ForgetSession(s) \/ Terminate(s) PROVE McpInv'
<1>1. McpTypeOK
  BY DEF McpInv
<1>2. SidesTyped
  BY <1>1, McpConstants DEF ForgetSession, Terminate, SidesTyped, McpTypeOK
<1> QED BY <1>2, SidesMove DEF ForgetSession, Terminate

LEMMA CrashMcpHolds == ASSUME McpInv, CrashMcp PROVE McpInv'
<1>1. McpTypeOK /\ \A c \in McpCalls : rpcs'[c] = Quiet
  BY DEF McpInv, CrashMcp
<1>2. rpcs' \in [McpCalls -> RpcRecord]
  BY QuietRpc DEF CrashMcp
<1>3. McpTypeOK'
  BY <1>1, <1>2, McpConstants DEF McpTypeOK, CrashMcp, RpcRecord
<1>4. ASSUME NEW c \in McpCalls PROVE RpcHolds(c)' /\ ~Begun(rpcs'[c])
  BY <1>1, QuietRpc DEF RpcHolds
<1>5. OneBegun'
  BY <1>4 DEF OneBegun
<1>6. \A t \in Targets : TargetHolds(t)'
  BY DEF McpInv, TargetHolds, CrashMcp
<1> QED BY <1>3, <1>4, <1>5, <1>6 DEF McpInv

LEMMA McpStepHolds == McpInv /\ [McpNext]_mcpVars => McpInv'
<1> SUFFICES ASSUME McpInv, [McpNext]_mcpVars PROVE McpInv'
  OBVIOUS
<1>1. CASE UNCHANGED mcpVars
  <2>1. SidesTyped
    BY <1>1 DEF mcpVars, McpInv, McpTypeOK, SidesTyped
  <2> QED BY <1>1, <2>1, SidesMove DEF mcpVars
<1>2. ASSUME NEW c \in McpCalls, McpCall(c) PROVE McpInv'
  BY <1>2, StartToolHolds, StartReadHolds, DecideToolHolds, BeginEffectHolds, SealReceiptHolds,
     LockSessionHolds, AcceptedHolds, UndeliveredHolds, ExpiredHolds, ReinitializeHolds,
     ResumeStreamHolds, FinishToolHolds DEF McpCall
<1> QED BY <1>1, <1>2, LoadCatalogHolds, ForgetHolds, CrashMcpHolds DEF McpNext

LEMMA McpInvSafe == McpInv => McpSafe
<1> SUFFICES ASSUME McpInv PROVE McpSafe
  OBVIOUS
<1>1. ToolCalledOnce
  BY DEF McpInv, TargetHolds, ToolCalledOnce
<1>2. LostAnswerIsUncertain
  BY DEF McpInv, McpTypeOK, TargetHolds, LostAnswerIsUncertain
<1> QED BY <1>1, <1>2 DEF McpSafe, McpInv

\* A tool mutation reaches its server at most once for one target, and a delivered one
\* whose answer nobody read is never closed as failed or succeeded: for any number of
\* calls, restarts, remote sessions and stream resumptions.
THEOREM McpIsSafe == McpSpec => []McpSafe
<1>1. McpSpec => []McpInv
  BY McpInitHolds, McpStepHolds, PTL DEF McpSpec
<1> QED BY <1>1, McpInvSafe, PTL

-----------------------------------------------------------------------------
(* proc.run and its processes.                                             *)

Before == {"idle", "asking", "approved"}
Started == {"start", "limit", "spawn", "running", "clean", "stop", "drop"}
Inodes == [Things -> Nat]
RunRecord == [at : Before \cup Started \cup {"ended", "lost"}, shown : Inodes, ran : Inodes \cup {<<>>},
              leaf : {"none", "made", "limited", "gone"},
              out : {"none", "refused", "error", "dropped", "ok", "timeout"}]

IsoTypes ==
  /\ profile \in Profiles /\ inode \in [Things -> 0..MaxSwaps]
  /\ service \in [at : {"up", "down", "recover"}, deaths : Nat, todo : SUBSET Runs, emptied : SUBSET Runs]
  /\ service.emptied \subseteq service.todo
  /\ run \in [Runs -> RunRecord]
  /\ procs \in [Runs -> SUBSET Processes] /\ doomed \in [Runs -> SUBSET Processes]

\* The command of a run is the one the approval named.
AsShown(q) ==
  \A x \in (IF Isolated THEN Things ELSE {"executable", "cwd"}) :
    q.ran[x] = q.shown[x] \/ (x = "subtree" /\ ~Hardened)

\* Nothing of a run goes on for long: the group is told to die, and with the first process
\* of the namespace all the others.
Stopped(ps, ds) ==
  /\ "fork" \notin ps /\ ("main" \in ps => "main" \in ds)
  /\ ~Isolated => ps \ ds \subseteq {"detached"}
  /\ Isolated /\ "main" \notin ps => ps \subseteq ds

\* How the processes of a run stand to each other, whatever the run does.
ProcsHold(ps, ds) ==
  /\ ds \subseteq ps /\ "fork" \notin ds /\ ("fork" \in ps => ps = {"fork"})
  /\ Isolated /\ "main" \notin ps /\ "fork" \notin ps => ps \subseteq ds

\* What is alive and which leaf there is at each point of a run.
RunHolds(q, ps, ds) ==
  /\ ps # {} \/ q.at \in Started => AsShown(q)
  /\ q.at \in Before \cup {"start", "limit"} => ps = {}
  /\ q.at = "spawn" => ps \subseteq {"fork"}
  /\ q.at \in {"running", "clean", "stop", "drop"} => "fork" \notin ps
  /\ q.at \in {"spawn", "running", "clean"} /\ Hardened => q.leaf = "limited"
  /\ q.at = "clean" => q.out \in {"ok", "timeout"} /\ (Hardened => ps \subseteq ds)
  /\ q.at = "stop" => q.out = "timeout" /\ Stopped(ps, ds) /\ (Hardened => ps = {} /\ q.leaf = "gone")
  /\ q.at = "drop" => q.out \in {"error", "dropped"} /\ Stopped(ps, ds)
  /\ q.at = "ended" /\ q.out \in {"timeout", "dropped", "error"} => Stopped(ps, ds)
  /\ q.at = "ended" /\ Hardened /\ q.out \in {"ok", "timeout"} => ps = {} /\ q.leaf = "gone"
  /\ Hardened /\ ps \ {"fork"} # {} => q.leaf = "limited"
  /\ q.at = "limit" => q.leaf = "made"

\* Between a crash and the next start nothing runs; the recovery knows every leaf that is
\* left, and a service that takes work has none of a run that was lost.
ServiceHolds ==
  /\ service.at # "up" => \A r \in Runs : run[r].at \notin Started
  /\ service.at = "down" => service.emptied = {}
  /\ service.at = "recover" /\ Hardened => Leaves \subseteq service.todo
  /\ service.at = "up" /\ Hardened =>
       \A r \in Runs : run[r].at = "lost" => run[r].leaf \in {"none", "gone"}

IsoInv ==
  /\ IsoTypes
  /\ \A r \in Runs : ProcsHold(procs[r], doomed[r]) /\ RunHolds(run[r], procs[r], doomed[r])
  /\ ServiceHolds

LEMMA IsoInitHolds == IsoInit => IsoInv
<1> SUFFICES ASSUME IsoInit PROVE IsoInv
  OBVIOUS
<1>1. NewRun \in RunRecord
  <2>1. Pinned \in Inodes
    BY DEF IsoInit, Pinned, Inodes
  <2> QED BY <2>1 DEF NewRun, RunRecord, Before
<1>2. IsoTypes
  <2>1. run \in [Runs -> RunRecord]
    BY <1>1 DEF IsoInit
  <2>2. inode \in [Things -> 0..MaxSwaps]
    <3>1. 0 \in 0..MaxSwaps
      BY IsoAssumption DEF IsoAssumption
    <3> QED BY <3>1 DEF IsoInit
  <2>3. service = [at |-> "up", deaths |-> 0, todo |-> {}, emptied |-> {}]
    BY DEF IsoInit
  <2>4. service.emptied \subseteq service.todo
        /\ service \in [at : {"up", "down", "recover"}, deaths : Nat, todo : SUBSET Runs, emptied : SUBSET Runs]
    BY <2>3
  <2> QED BY <2>1, <2>2, <2>4 DEF IsoInit, IsoTypes
<1>3. \A r \in Runs : run[r] = NewRun /\ procs[r] = {} /\ doomed[r] = {}
  BY DEF IsoInit
<1>4. NewRun.at = "idle" /\ NewRun.leaf = "none" /\ NewRun.out = "none"
  BY DEF NewRun
<1>5. \A r \in Runs : ProcsHold(procs[r], doomed[r])
  BY <1>3 DEF ProcsHold
<1>6. \A r \in Runs : RunHolds(run[r], procs[r], doomed[r])
  BY <1>3, <1>4 DEF RunHolds, Before, Started
<1>7. ServiceHolds
  BY <1>3, <1>4 DEF ServiceHolds, Started, IsoInit
<1> QED BY <1>2, <1>5, <1>6, <1>7 DEF IsoInv

-----------------------------------------------------------------------------
(* One run moves.                                                          *)

RunIs(r, q) ==
  /\ q \in RunRecord /\ run' \in [Runs -> RunRecord] /\ run'[r] = q
  /\ \A s \in Runs \ {r} : run'[s] = run[s]

ProcsAre(r, ps, ds) ==
  /\ ps \in SUBSET Processes /\ ds \in SUBSET Processes
  /\ procs' \in [Runs -> SUBSET Processes] /\ doomed' \in [Runs -> SUBSET Processes]
  /\ procs'[r] = ps /\ doomed'[r] = ds
  /\ \A s \in Runs \ {r} : procs'[s] = procs[s] /\ doomed'[s] = doomed[s]

\* Whatever the service does, the run that moved is as its new record says, the others
\* are as they were.
LEMMA OneMoves ==
  ASSUME IsoInv, NEW r \in Runs, NEW q, NEW ps, NEW ds, RunIs(r, q), ProcsAre(r, ps, ds),
         UNCHANGED profile, ProcsHold(ps, ds), RunHolds(q, ps, ds)
  PROVE  \A s \in Runs : ProcsHold(procs[s], doomed[s])' /\ RunHolds(run[s], procs[s], doomed[s])'
<1> SUFFICES ASSUME NEW s \in Runs
             PROVE  ProcsHold(procs[s], doomed[s])' /\ RunHolds(run[s], procs[s], doomed[s])'
  OBVIOUS
<1>1. CASE s = r
  <2>1. run'[s] = q /\ procs'[s] = ps /\ doomed'[s] = ds
    BY <1>1 DEF RunIs, ProcsAre
  <2> QED BY <2>1 DEF ProcsHold, RunHolds, AsShown, Stopped, Isolated, Hardened
<1>2. CASE s # r
  <2>1. /\ run'[s] = run[s] /\ procs'[s] = procs[s] /\ doomed'[s] = doomed[s]
        /\ ProcsHold(procs[s], doomed[s]) /\ RunHolds(run[s], procs[s], doomed[s])
    BY <1>2 DEF RunIs, ProcsAre, IsoInv
  <2> QED BY <2>1 DEF ProcsHold, RunHolds, AsShown, Stopped, Isolated, Hardened
<1> QED BY <1>1, <1>2

LEMMA IsoMoves ==
  ASSUME IsoInv, NEW r \in Runs, NEW q, NEW ps, NEW ds, RunIs(r, q), ProcsAre(r, ps, ds),
         UNCHANGED <<profile, inode, service>>, ProcsHold(ps, ds), RunHolds(q, ps, ds),
         service.at # "up" => q.at \notin Started,
         q.leaf = run[r].leaf \/ (service.at = "up" /\ q.at # "lost"),
         q.at = "lost" => run[r].at = "lost"
  PROVE  IsoInv'
<1>1. IsoTypes /\ ServiceHolds
  BY DEF IsoInv
<1>2. IsoTypes'
  BY <1>1 DEF IsoTypes, RunIs, ProcsAre
<1>3. \A s \in Runs : ProcsHold(procs[s], doomed[s])' /\ RunHolds(run[s], procs[s], doomed[s])'
  BY OneMoves
<1>4. ServiceHolds'
  BY <1>1 DEF ServiceHolds, RunIs, Leaves, Hardened
<1> QED BY <1>2, <1>3, <1>4 DEF IsoInv

\* The processes stay.
LEMMA ProcsStay ==
  ASSUME IsoInv, NEW r \in Runs, UNCHANGED <<procs, doomed>> PROVE ProcsAre(r, procs[r], doomed[r])
BY DEF IsoInv, IsoTypes, ProcsAre

LEMMA RunStays == ASSUME IsoInv, NEW r \in Runs, UNCHANGED run PROVE RunIs(r, run[r])
BY DEF IsoInv, IsoTypes, RunIs

LEMMA RunSet ==
  ASSUME IsoInv, NEW r \in Runs, NEW q \in RunRecord, SetRun(r, q) PROVE RunIs(r, q)
BY DEF IsoInv, IsoTypes, RunIs, SetRun

LEMMA IsoTyped ==
  ASSUME IsoInv, NEW r \in Runs
  PROVE  /\ run[r] \in RunRecord /\ procs[r] \in SUBSET Processes /\ doomed[r] \in SUBSET Processes
         /\ ProcsHold(procs[r], doomed[r]) /\ RunHolds(run[r], procs[r], doomed[r])
BY DEF IsoInv, IsoTypes

\* A kill tells more processes to die.
LEMMA Killed ==
  ASSUME IsoInv, NEW r \in Runs, NEW ps, Kill(r, ps), UNCHANGED procs
  PROVE  /\ ProcsAre(r, procs[r], doomed[r] \cup (procs[r] \cap ps))
         /\ "fork" \notin procs[r] \cap ps => ProcsHold(procs[r], doomed[r] \cup (procs[r] \cap ps))
<1>1. doomed \in [Runs -> SUBSET Processes] /\ procs \in [Runs -> SUBSET Processes]
  BY DEF IsoInv, IsoTypes
<1> QED BY <1>1, IsoTyped DEF Kill, ProcsAre, ProcsHold

-----------------------------------------------------------------------------
(* Before the child.                                                       *)

\* A step that changes the record of the run only.
LEMMA RunGoes ==
  ASSUME IsoInv, NEW r \in Runs, NEW q \in RunRecord, SetRun(r, q), service.at = "up", q.at # "lost",
         UNCHANGED <<profile, inode, service, procs, doomed>>, RunHolds(q, procs[r], doomed[r])
  PROVE  IsoInv'
<1>1. RunIs(r, q) /\ ProcsAre(r, procs[r], doomed[r]) /\ ProcsHold(procs[r], doomed[r])
  BY RunSet, ProcsStay, IsoTyped
<1> QED BY <1>1, IsoMoves

LEMMA EndsBefore ==
  ASSUME IsoInv, NEW r \in Runs, NEW out \in {"refused", "dropped"}, EndRunAs(r, out), service.at = "up",
         run[r].at \in Before \cup {"start"}, UNCHANGED <<profile, inode, service, procs, doomed>>
  PROVE  IsoInv'
<1> DEFINE q == [run[r] EXCEPT !.at = "ended", !.out = out]
<1>1. procs[r] = {} /\ run[r] \in RunRecord
  BY IsoTyped DEF RunHolds
<1>2. q \in RunRecord /\ q.at = "ended" /\ q.out = out
  BY <1>1 DEF RunRecord
<1>3. SetRun(r, q)
  BY DEF EndRunAs
<1> HIDE DEF q
<1>4. RunHolds(q, procs[r], doomed[r])
  BY <1>1, <1>2 DEF RunHolds, Before, Started, Stopped
<1> QED BY <1>2, <1>3, <1>4, RunGoes

LEMMA PrepareHolds == ASSUME IsoInv, NEW r \in Runs, Prepare(r) PROVE IsoInv'
<1> DEFINE q == [run[r] EXCEPT !.at = "asking", !.shown = Pinned]
<1>1. procs[r] = {} /\ run[r] \in RunRecord /\ Pinned \in Inodes
  BY IsoTyped, IsoAssumption DEF RunHolds, Prepare, RunAt, Before, Pinned, Inodes, IsoInv, IsoTypes
<1>2. q \in RunRecord /\ q.at = "asking"
  BY <1>1 DEF RunRecord, Before
<1>3. SetRun(r, q)
  BY DEF Prepare
<1> HIDE DEF q
<1>4. RunHolds(q, procs[r], doomed[r])
  BY <1>1, <1>2 DEF RunHolds, Before, Started
<1> QED BY <1>2, <1>3, <1>4, RunGoes DEF Prepare, RunAt

LEMMA PrepareRefusedHolds == ASSUME IsoInv, NEW r \in Runs, PrepareRefused(r) PROVE IsoInv'
BY EndsBefore DEF PrepareRefused, RunAt, Before

LEMMA DropsUnstartedHolds == ASSUME IsoInv, NEW r \in Runs, DropsUnstarted(r) PROVE IsoInv'
BY EndsBefore DEF DropsUnstarted, Before

LEMMA AnswerRunHolds == ASSUME IsoInv, NEW r \in Runs, AnswerRun(r) PROVE IsoInv'
<1>1. CASE EndRunAs(r, "refused")
  BY <1>1, EndsBefore DEF AnswerRun, RunAt, Before
<1>2. CASE SetRun(r, [run[r] EXCEPT !.at = "approved"])
  <2> DEFINE q == [run[r] EXCEPT !.at = "approved"]
  <2>1. procs[r] = {} /\ run[r] \in RunRecord
    BY IsoTyped DEF RunHolds, AnswerRun, RunAt, Before
  <2>2. q \in RunRecord /\ q.at = "approved"
    BY <2>1 DEF RunRecord, Before
  <2>3. SetRun(r, q)
    BY <1>2
  <2> HIDE DEF q
  <2>4. RunHolds(q, procs[r], doomed[r])
    BY <2>1, <2>2 DEF RunHolds, Before, Started
  <2> QED BY <2>2, <2>3, <2>4, RunGoes DEF AnswerRun, RunAt
<1> QED BY <1>1, <1>2 DEF AnswerRun

LEMMA RecheckHolds == ASSUME IsoInv, NEW r \in Runs, Recheck(r) PROVE IsoInv'
<1>1. CASE EndRunAs(r, "refused")
  BY <1>1, EndsBefore DEF Recheck, RunAt, Before
<1>2. CASE /\ SameProfile(r)
           /\ SetRun(r, [run[r] EXCEPT !.at = "start",
                           !.ran = [Pinned EXCEPT !["executable"] = run[r].shown["executable"]]])
  <2> DEFINE now == [Pinned EXCEPT !["executable"] = run[r].shown["executable"]]
             q == [run[r] EXCEPT !.at = "start", !.ran = now]
  <2>1. procs[r] = {} /\ run[r] \in RunRecord /\ run[r].shown \in Inodes /\ Pinned \in Inodes
    BY IsoTyped, IsoAssumption
    DEF RunHolds, Recheck, RunAt, Before, Pinned, Inodes, IsoInv, IsoTypes, RunRecord
  <2>2. /\ now \in Inodes /\ now["executable"] = run[r].shown["executable"]
        /\ \A x \in Things \ {"executable"} : now[x] = inode[x]
    BY <2>1 DEF Inodes, Pinned, Things
  <2> HIDE DEF now
  <2>3. q \in RunRecord /\ q.at = "start" /\ q.ran = now /\ q.shown = run[r].shown
    BY <2>1, <2>2 DEF RunRecord, Started
  <2>4. SetRun(r, q)
    BY <1>2 DEF now
  <2> HIDE DEF q
  <2>5. AsShown(q)
    BY <1>2, <2>2, <2>3 DEF AsShown, SameProfile, Things
  <2>6. RunHolds(q, procs[r], doomed[r])
    BY <2>1, <2>3, <2>5 DEF RunHolds, Before, Started
  <2> QED BY <2>3, <2>4, <2>6, RunGoes DEF Recheck, RunAt
<1> QED BY <1>1, <1>2 DEF Recheck

\* A run that keeps what it is running and what it showed keeps their agreement.
LEMMA StillAsShown ==
  ASSUME NEW r \in Runs, NEW q, q.ran = run[r].ran, q.shown = run[r].shown, AsShown(run[r])
  PROVE  AsShown(q)
BY DEF AsShown

LEMMA StartLeafHolds == ASSUME IsoInv, NEW r \in Runs, StartLeaf(r) PROVE IsoInv'
<1>1. /\ procs[r] = {} /\ run[r] \in RunRecord /\ service.at = "up" /\ AsShown(run[r])
      /\ UNCHANGED <<profile, inode, service, procs, doomed>> /\ run[r].at = "start"
  BY IsoTyped DEF RunHolds, StartLeaf, RunAt, Started
<1>2. CASE EndRunAs(r, "refused")
  BY <1>1, <1>2, EndsBefore
<1>3. CASE ~Hardened /\ SetRun(r, [run[r] EXCEPT !.at = "spawn"])
  <2> DEFINE q == [run[r] EXCEPT !.at = "spawn"]
  <2>1. q \in RunRecord /\ q.at = "spawn" /\ q.ran = run[r].ran /\ q.shown = run[r].shown
    BY <1>1 DEF RunRecord, Started
  <2>2. SetRun(r, q)
    BY <1>3
  <2> HIDE DEF q
  <2>3. RunHolds(q, procs[r], doomed[r])
    BY <1>1, <1>3, <2>1, StillAsShown DEF RunHolds, Before, Started
  <2> QED BY <1>1, <2>1, <2>2, <2>3, RunGoes
<1>4. CASE SetRun(r, [run[r] EXCEPT !.at = "limit", !.leaf = "made"])
  <2> DEFINE q == [run[r] EXCEPT !.at = "limit", !.leaf = "made"]
  <2>1. q \in RunRecord /\ q.at = "limit" /\ q.leaf = "made" /\ q.ran = run[r].ran /\ q.shown = run[r].shown
    BY <1>1 DEF RunRecord, Started
  <2>2. SetRun(r, q)
    BY <1>4
  <2> HIDE DEF q
  <2>3. RunHolds(q, procs[r], doomed[r])
    BY <1>1, <2>1, StillAsShown DEF RunHolds, Before, Started
  <2> QED BY <1>1, <2>1, <2>2, <2>3, RunGoes
<1> QED BY <1>2, <1>3, <1>4 DEF StartLeaf

LEMMA ConfigureLeafHolds == ASSUME IsoInv, NEW r \in Runs, ConfigureLeaf(r) PROVE IsoInv'
<1>1. /\ procs[r] = {} /\ run[r] \in RunRecord /\ service.at = "up" /\ AsShown(run[r])
      /\ UNCHANGED <<profile, inode, service, procs, doomed>>
  BY IsoTyped DEF RunHolds, ConfigureLeaf, RunAt, Started
<1>2. CASE SetRun(r, [run[r] EXCEPT !.at = "spawn", !.leaf = "limited"])
  <2> DEFINE q == [run[r] EXCEPT !.at = "spawn", !.leaf = "limited"]
  <2>1. q \in RunRecord /\ q.at = "spawn" /\ q.leaf = "limited" /\ q.ran = run[r].ran /\ q.shown = run[r].shown
    BY <1>1 DEF RunRecord, Started
  <2>2. SetRun(r, q)
    BY <1>2
  <2> HIDE DEF q
  <2>3. RunHolds(q, procs[r], doomed[r])
    BY <1>1, <2>1, StillAsShown DEF RunHolds, Before, Started
  <2> QED BY <1>1, <2>1, <2>2, <2>3, RunGoes
<1>3. CASE SetRun(r, [run[r] EXCEPT !.at = "ended", !.leaf = "gone", !.out = "refused"])
  <2> DEFINE q == [run[r] EXCEPT !.at = "ended", !.leaf = "gone", !.out = "refused"]
  <2>1. q \in RunRecord /\ q.at = "ended" /\ q.leaf = "gone" /\ q.out = "refused"
    BY <1>1 DEF RunRecord
  <2>2. SetRun(r, q)
    BY <1>3
  <2> HIDE DEF q
  <2>3. RunHolds(q, procs[r], doomed[r])
    BY <1>1, <2>1 DEF RunHolds, Before, Started
  <2> QED BY <1>1, <2>1, <2>2, <2>3, RunGoes
<1> QED BY <1>2, <1>3 DEF ConfigureLeaf

-----------------------------------------------------------------------------
(* The child and its descendants.                                          *)

LEMMA ForkHolds == ASSUME IsoInv, NEW r \in Runs, Fork(r) PROVE IsoInv'
<1>1. /\ run[r].at = "spawn" /\ procs[r] = {} /\ service.at = "up"
      /\ procs' = [procs EXCEPT ![r] = {"fork"}] /\ UNCHANGED <<profile, inode, service, run, doomed>>
  BY DEF Fork, RunAt
<1>2. /\ run[r] \in RunRecord /\ doomed[r] = {} /\ RunHolds(run[r], procs[r], doomed[r])
      /\ procs \in [Runs -> SUBSET Processes] /\ doomed \in [Runs -> SUBSET Processes]
  BY <1>1, IsoTyped DEF ProcsHold, IsoInv, IsoTypes
<1>3. ProcsAre(r, {"fork"}, {})
  BY <1>1, <1>2 DEF ProcsAre, Processes
<1>4. ProcsHold({"fork"}, {})
  BY DEF ProcsHold
<1>5. RunHolds(run[r], {"fork"}, {})
  BY <1>1, <1>2 DEF RunHolds, Before, Started
<1>6. RunIs(r, run[r])
  BY <1>1, RunStays
<1> QED BY <1>1, <1>3, <1>4, <1>5, <1>6, IsoMoves

LEMMA SpawnFailsHolds == ASSUME IsoInv, NEW r \in Runs, SpawnFails(r) PROVE IsoInv'
<1> DEFINE q == [run[r] EXCEPT !.at = "ended", !.out = "error", !.leaf = Removed(run[r].leaf)]
<1>1. /\ run[r].at = "spawn" /\ service.at = "up" /\ SetRun(r, q)
      /\ procs' = [procs EXCEPT ![r] = {}] /\ UNCHANGED <<profile, inode, service, doomed>>
  BY DEF SpawnFails, RunAt
<1>2. /\ run[r] \in RunRecord /\ RunHolds(run[r], procs[r], doomed[r]) /\ ProcsHold(procs[r], doomed[r])
      /\ procs \in [Runs -> SUBSET Processes] /\ doomed \in [Runs -> SUBSET Processes]
  BY IsoTyped DEF IsoInv, IsoTypes
<1>3. doomed[r] = {}
  BY <1>1, <1>2 DEF ProcsHold, RunHolds
<1>4. ProcsAre(r, {}, {}) /\ ProcsHold({}, {})
  BY <1>1, <1>2, <1>3 DEF ProcsAre, ProcsHold
<1>5. q \in RunRecord /\ q.at = "ended" /\ q.out = "error"
  BY <1>2 DEF RunRecord, Removed
<1>6. RunIs(r, q)
  BY <1>1, <1>5, RunSet
<1> HIDE DEF q
<1>7. RunHolds(q, {}, {})
  BY <1>5 DEF RunHolds, Before, Started, Stopped
<1> QED BY <1>1, <1>4, <1>5, <1>6, <1>7, IsoMoves

LEMMA ChildReadyHolds == ASSUME IsoInv, NEW r \in Runs, ChildReady(r) PROVE IsoInv'
<1>1. procs[r] = {"fork"} /\ UNCHANGED <<profile, inode, service, doomed>>
  BY DEF ChildReady
<1>2. /\ run[r] \in RunRecord /\ RunHolds(run[r], procs[r], doomed[r]) /\ doomed[r] = {}
      /\ procs \in [Runs -> SUBSET Processes] /\ doomed \in [Runs -> SUBSET Processes]
      /\ run \in [Runs -> RunRecord]
  BY <1>1, IsoTyped DEF IsoInv, IsoTypes, ProcsHold
<1>3. service.at # "up" => run[r].at \notin Started
  BY DEF IsoInv, ServiceHolds
<1>4. /\ run[r].at \notin Before \cup {"start", "limit", "running", "clean", "stop", "drop"}
      /\ run[r].at = "ended" => run[r].out \notin {"timeout", "dropped", "error"}
      /\ AsShown(run[r]) /\ ProcsHold({}, {}) /\ ProcsHold({"main"}, {})
  BY <1>1, <1>2 DEF RunHolds, Stopped, ProcsHold
<1>5. CASE procs' = [procs EXCEPT ![r] = {}] /\ UNCHANGED run
  <2>1. ProcsAre(r, {}, {})
    BY <1>1, <1>2, <1>5 DEF ProcsAre
  <2>2. RunHolds(run[r], {}, {})
    BY <1>1, <1>2, <1>4 DEF RunHolds, Before, Started
  <2> QED BY <1>1, <1>3, <1>4, <1>5, <2>1, <2>2, RunStays, IsoMoves
<1>6. CASE /\ JoinsLeaf(r) /\ procs' = [procs EXCEPT ![r] = {"main"}]
           /\ run' = IF run[r].at = "spawn" THEN [run EXCEPT ![r].at = "running"] ELSE run
  <2>1. ProcsAre(r, {"main"}, {})
    BY <1>1, <1>2, <1>6 DEF ProcsAre, Processes
  <2>2. Hardened => run[r].leaf = "limited"
    BY <1>6 DEF JoinsLeaf
  <2>3. CASE run[r].at # "spawn"
    <3>1. RunHolds(run[r], {"main"}, {})
      BY <1>2, <1>4, <2>2, <2>3 DEF RunHolds, Before, Started
    <3> QED BY <1>1, <1>3, <1>4, <1>6, <2>1, <2>3, <3>1, RunStays, IsoMoves
  <2>4. CASE run[r].at = "spawn"
    <3> DEFINE q == [run[r] EXCEPT !.at = "running"]
    <3>1. /\ q \in RunRecord /\ q.at = "running" /\ q.leaf = run[r].leaf
          /\ q.ran = run[r].ran /\ q.shown = run[r].shown
      BY <1>2 DEF RunRecord, Started
    <3>2. run' = [run EXCEPT ![r] = q]
      BY <1>6, <2>4
    <3> HIDE DEF q
    <3>3. RunIs(r, q)
      BY <1>2, <3>1, <3>2 DEF RunIs
    <3>4. RunHolds(q, {"main"}, {})
      BY <1>4, <2>2, <3>1, StillAsShown DEF RunHolds, Before, Started
    <3>5. service.at = "up"
      BY <1>3, <2>4 DEF Started
    <3> QED BY <1>1, <1>4, <2>1, <3>1, <3>3, <3>4, <3>5, IsoMoves
  <2> QED BY <2>3, <2>4
<1> QED BY <1>5, <1>6 DEF ChildReady

LEMMA DescendHolds == ASSUME IsoInv, NEW r \in Runs, Descend(r) PROVE IsoInv'
<1>1. PICK d \in Descendants \ procs[r] : procs' = [procs EXCEPT ![r] = @ \cup {d}]
  BY DEF Descend
<1>2. "main" \in procs[r] \ doomed[r] /\ UNCHANGED <<profile, inode, service, run, doomed>>
  BY DEF Descend
<1>3. /\ run[r] \in RunRecord /\ RunHolds(run[r], procs[r], doomed[r]) /\ ProcsHold(procs[r], doomed[r])
      /\ procs \in [Runs -> SUBSET Processes] /\ doomed \in [Runs -> SUBSET Processes]
  BY IsoTyped DEF IsoInv, IsoTypes
<1>4. service.at # "up" => run[r].at \notin Started
  BY DEF IsoInv, ServiceHolds
<1> DEFINE ps == procs[r] \cup {d}
<1>5. d \in Processes /\ d # "fork" /\ d # "main"
  BY DEF Descendants, Processes
<1>6. ProcsAre(r, ps, doomed[r])
  BY <1>1, <1>2, <1>3, <1>5 DEF ProcsAre
<1>7. ProcsHold(ps, doomed[r])
  BY <1>2, <1>3, <1>5 DEF ProcsHold
<1>8. ~Stopped(procs[r], doomed[r]) /\ ~(procs[r] \subseteq doomed[r]) /\ procs[r] # {} /\ "fork" \notin procs[r]
      /\ procs[r] \ {"fork"} # {} /\ ~(procs[r] \subseteq {"fork"})
  BY <1>2, <1>3 DEF Stopped, ProcsHold
<1>9. RunHolds(run[r], ps, doomed[r])
  BY <1>3, <1>5, <1>8 DEF RunHolds
<1> HIDE DEF ps
<1> QED BY <1>2, <1>4, <1>6, <1>7, <1>9, RunStays, IsoMoves

\* What a process that is gone leaves behind.
LEMMA OneLess ==
  ASSUME NEW q, NEW ps, NEW ds, NEW p \in ps \ {"fork"}, ProcsHold(ps, ds), RunHolds(q, ps, ds),
         NEW es, es = IF Isolated /\ p = "main" THEN ps \ {p} ELSE ds \ {p}
  PROVE  ProcsHold(ps \ {p}, es) /\ RunHolds(q, ps \ {p}, es)
<1>1. "fork" \notin ps
  BY DEF ProcsHold
<1>2. ProcsHold(ps \ {p}, es)
  BY <1>1 DEF ProcsHold
<1>3. Stopped(ps, ds) => Stopped(ps \ {p}, es)
  BY <1>1 DEF Stopped, ProcsHold
<1>4. ps \subseteq ds => ps \ {p} \subseteq es
  OBVIOUS
<1>5. ps # {} /\ ~(ps \subseteq {"fork"}) /\ ps \ {"fork"} # {}
  OBVIOUS
<1>6. RunHolds(q, ps \ {p}, es)
  BY <1>1, <1>3, <1>4, <1>5 DEF RunHolds
<1> QED BY <1>2, <1>6

LEMMA DiesHolds == ASSUME IsoInv, NEW r \in Runs, Dies(r) PROVE IsoInv'
<1>1. PICK p \in procs[r] \ {"fork"} :
        /\ procs' = [procs EXCEPT ![r] = @ \ {p}]
        /\ doomed' = [doomed EXCEPT ![r] = IF Isolated /\ p = "main" THEN procs[r] \ {p} ELSE @ \ {p}]
        /\ UNCHANGED <<profile, inode, service, run>>
  BY DEF Dies
<1>2. /\ run[r] \in RunRecord /\ RunHolds(run[r], procs[r], doomed[r]) /\ ProcsHold(procs[r], doomed[r])
      /\ procs \in [Runs -> SUBSET Processes] /\ doomed \in [Runs -> SUBSET Processes]
  BY IsoTyped DEF IsoInv, IsoTypes
<1>3. PICK es \in SUBSET Processes : es = IF Isolated /\ p = "main" THEN procs[r] \ {p} ELSE doomed[r] \ {p}
  BY <1>2
<1>4. ProcsAre(r, procs[r] \ {p}, es)
  BY <1>1, <1>2, <1>3 DEF ProcsAre
<1>5. ProcsHold(procs[r] \ {p}, es) /\ RunHolds(run[r], procs[r] \ {p}, es)
  BY <1>2, <1>3, OneLess
<1>6. service.at # "up" => run[r].at \notin Started
  BY DEF IsoInv, ServiceHolds
<1> QED BY <1>1, <1>4, <1>5, <1>6, RunStays, IsoMoves

-----------------------------------------------------------------------------
(* The ways a run is over.                                                 *)

\* A step that changes the record of the run and kills.
LEMMA RunKills ==
  ASSUME IsoInv, NEW r \in Runs, NEW q \in RunRecord, SetRun(r, q), service.at = "up", q.at # "lost",
         NEW ps, Kill(r, ps), UNCHANGED <<profile, inode, service, procs>>, "fork" \notin procs[r],
         RunHolds(q, procs[r], doomed[r] \cup (procs[r] \cap ps))
  PROVE  IsoInv'
<1>1. RunIs(r, q)
  BY RunSet
<1>2. /\ ProcsAre(r, procs[r], doomed[r] \cup (procs[r] \cap ps))
      /\ ProcsHold(procs[r], doomed[r] \cup (procs[r] \cap ps))
  BY Killed
<1> QED BY <1>1, <1>2, IsoMoves

LEMMA CompletesHolds == ASSUME IsoInv, NEW r \in Runs, Completes(r) \/ TimesOut(r) PROVE IsoInv'
<1>1. PICK out \in {"ok", "timeout"} : SetRun(r, [run[r] EXCEPT !.at = "clean", !.out = out])
  BY DEF Completes, TimesOut
<1>2. /\ run[r].at = "running" /\ service.at = "up" /\ Kill(r, IF Hardened THEN Processes ELSE {})
      /\ UNCHANGED <<profile, inode, service, procs>>
  BY DEF Completes, TimesOut, RunAt
<1> DEFINE q == [run[r] EXCEPT !.at = "clean", !.out = out]
           ps == IF Hardened THEN Processes ELSE {}
           ds == doomed[r] \cup (procs[r] \cap ps)
<1>3. /\ run[r] \in RunRecord /\ RunHolds(run[r], procs[r], doomed[r]) /\ procs[r] \in SUBSET Processes
  BY IsoTyped
<1>4. /\ "fork" \notin procs[r] /\ AsShown(run[r]) /\ (Hardened => run[r].leaf = "limited")
  BY <1>2, <1>3 DEF RunHolds, Started
<1>5. /\ q \in RunRecord /\ q.at = "clean" /\ q.out = out /\ q.leaf = run[r].leaf
      /\ q.ran = run[r].ran /\ q.shown = run[r].shown
  BY <1>3 DEF RunRecord, Started
<1>6. SetRun(r, q) /\ Kill(r, ps)
  BY <1>1, <1>2
<1>7. Hardened => procs[r] \subseteq ds
  BY <1>3
<1> HIDE DEF q, ps, ds
<1>8. RunHolds(q, procs[r], ds)
  BY <1>4, <1>5, <1>7, StillAsShown DEF RunHolds, Before, Started
<1>9. RunHolds(q, procs[r], doomed[r] \cup (procs[r] \cap ps))
  BY <1>8 DEF ds
<1> QED BY <1>2, <1>4, <1>5, <1>6, <1>9, RunKills

\* The group of a run that is stopped, and what a hardened run's leaf holds.
LEMMA GroupStopped ==
  ASSUME NEW ps, NEW ds, NEW k, ProcsHold(ps, ds), ps \subseteq Processes, "fork" \notin ps,
         Group \subseteq k
  PROVE  Stopped(ps, ds \cup (ps \cap k))
BY DEF Stopped, Group, ProcsHold, Processes, Descendants

LEMMA DropsHolds == ASSUME IsoInv, NEW r \in Runs, Drops(r) PROVE IsoInv'
<1>1. PICK out \in {"error", "dropped"} : SetRun(r, [run[r] EXCEPT !.at = "drop", !.out = out])
  BY DEF Drops
<1>2. /\ run[r].at \in {"running", "stop"} /\ service.at = "up" /\ UNCHANGED <<profile, inode, service, procs>>
      /\ Kill(r, IF Hardened THEN Processes ELSE Group)
  BY DEF Drops, RunAt
<1> DEFINE q == [run[r] EXCEPT !.at = "drop", !.out = out]
           ps == IF Hardened THEN Processes ELSE Group
           ds == doomed[r] \cup (procs[r] \cap ps)
<1>3. /\ run[r] \in RunRecord /\ RunHolds(run[r], procs[r], doomed[r]) /\ procs[r] \in SUBSET Processes
      /\ ProcsHold(procs[r], doomed[r])
  BY IsoTyped
<1>4. /\ "fork" \notin procs[r] /\ AsShown(run[r])
      /\ (Hardened /\ procs[r] \ {"fork"} # {} => run[r].leaf = "limited")
  BY <1>2, <1>3 DEF RunHolds, Started
<1>5. /\ q \in RunRecord /\ q.at = "drop" /\ q.out = out /\ q.leaf = run[r].leaf
      /\ q.ran = run[r].ran /\ q.shown = run[r].shown
  BY <1>3 DEF RunRecord, Started
<1>6. SetRun(r, q) /\ Kill(r, ps)
  BY <1>1, <1>2
<1>7. Stopped(procs[r], ds)
  <2>1. Group \subseteq ps
    BY DEF Group, Processes, Descendants
  <2> QED BY <1>3, <1>4, <2>1, GroupStopped
<1> HIDE DEF q, ps, ds
<1>8. RunHolds(q, procs[r], ds)
  BY <1>4, <1>5, <1>7, StillAsShown DEF RunHolds, Before, Started
<1>9. RunHolds(q, procs[r], doomed[r] \cup (procs[r] \cap ps))
  BY <1>8 DEF ds
<1> QED BY <1>2, <1>4, <1>5, <1>6, <1>9, RunKills

LEMMA CleansUpHolds == ASSUME IsoInv, NEW r \in Runs, CleansUp(r) PROVE IsoInv'
<1> DEFINE q == [run[r] EXCEPT !.at = IF run[r].out = "ok" THEN "ended" ELSE "stop", !.leaf = Removed(run[r].leaf)]
           ps == IF run[r].out = "ok" THEN {} ELSE Group
           ds == doomed[r] \cup (procs[r] \cap ps)
<1>1. /\ run[r].at = "clean" /\ service.at = "up" /\ SetRun(r, q) /\ Kill(r, ps)
      /\ (Hardened => procs[r] = {}) /\ UNCHANGED <<profile, inode, service, procs>>
  BY DEF CleansUp, RunAt, Drained
<1>2. /\ run[r] \in RunRecord /\ RunHolds(run[r], procs[r], doomed[r]) /\ procs[r] \in SUBSET Processes
      /\ ProcsHold(procs[r], doomed[r])
  BY IsoTyped
<1>3. /\ "fork" \notin procs[r] /\ AsShown(run[r]) /\ run[r].out \in {"ok", "timeout"}
      /\ (Hardened => run[r].leaf = "limited")
  BY <1>1, <1>2 DEF RunHolds, Started
<1>4. /\ q \in RunRecord /\ q.at = (IF run[r].out = "ok" THEN "ended" ELSE "stop") /\ q.out = run[r].out
      /\ q.ran = run[r].ran /\ q.shown = run[r].shown /\ q.leaf = Removed(run[r].leaf)
  BY <1>2 DEF RunRecord, Started, Removed
<1>5. run[r].out = "timeout" => Stopped(procs[r], ds)
  BY <1>2, <1>3, GroupStopped
<1>6. Hardened => q.leaf = "gone"
  BY <1>3, <1>4 DEF Removed
<1> HIDE DEF q, ps, ds
<1>7. RunHolds(q, procs[r], ds)
  BY <1>1, <1>3, <1>4, <1>5, <1>6, StillAsShown DEF RunHolds, Before, Started
<1>8. RunHolds(q, procs[r], doomed[r] \cup (procs[r] \cap ps)) /\ q.at # "lost"
  BY <1>4, <1>7 DEF ds
<1> QED BY <1>1, <1>3, <1>4, <1>8, RunKills

LEMMA TreeStoppedHolds == ASSUME IsoInv, NEW r \in Runs, TreeStopped(r) PROVE IsoInv'
<1> DEFINE q == [run[r] EXCEPT !.at = "ended"]
<1>1. /\ run[r].at = "stop" /\ service.at = "up" /\ SetRun(r, q)
      /\ UNCHANGED <<profile, inode, service, procs, doomed>>
  BY DEF TreeStopped, RunAt
<1>2. run[r] \in RunRecord /\ RunHolds(run[r], procs[r], doomed[r])
  BY IsoTyped
<1>3. /\ q \in RunRecord /\ q.at = "ended" /\ q.out = run[r].out /\ q.leaf = run[r].leaf
      /\ q.ran = run[r].ran /\ q.shown = run[r].shown
  BY <1>2 DEF RunRecord
<1> HIDE DEF q
<1>4. RunHolds(q, procs[r], doomed[r])
  BY <1>1, <1>2, <1>3, StillAsShown DEF RunHolds, Before, Started
<1> QED BY <1>1, <1>3, <1>4, RunGoes

LEMMA CleanupFailsHolds == ASSUME IsoInv, NEW r \in Runs, CleanupFails(r) PROVE IsoInv'
<1> DEFINE q == [run[r] EXCEPT !.at = "drop", !.out = "error"]
<1>1. /\ run[r].at = "clean" /\ service.at = "up" /\ Hardened /\ SetRun(r, q)
      /\ UNCHANGED <<profile, inode, service, procs, doomed>>
  BY DEF CleanupFails, RunAt
<1>2. run[r] \in RunRecord /\ RunHolds(run[r], procs[r], doomed[r])
  BY IsoTyped
<1>3. /\ q \in RunRecord /\ q.at = "drop" /\ q.out = "error" /\ q.leaf = run[r].leaf
      /\ q.ran = run[r].ran /\ q.shown = run[r].shown
  BY <1>2 DEF RunRecord, Started
<1>4. Stopped(procs[r], doomed[r])
  BY <1>1, <1>2 DEF RunHolds, Stopped, Hardened, Isolated
<1> HIDE DEF q
<1>5. RunHolds(q, procs[r], doomed[r])
  BY <1>1, <1>2, <1>3, <1>4, StillAsShown DEF RunHolds, Before, Started
<1> QED BY <1>1, <1>3, <1>5, RunGoes

LEMMA DropEndsHolds == ASSUME IsoInv, NEW r \in Runs, DropEnds(r) PROVE IsoInv'
<1> DEFINE q == [run[r] EXCEPT !.at = "ended",
                   !.leaf = IF procs[r] = {} THEN Removed(run[r].leaf) ELSE run[r].leaf]
<1>1. /\ run[r].at = "drop" /\ service.at = "up" /\ SetRun(r, q)
      /\ UNCHANGED <<profile, inode, service, procs, doomed>>
  BY DEF DropEnds, RunAt
<1>2. run[r] \in RunRecord /\ RunHolds(run[r], procs[r], doomed[r])
  BY IsoTyped
<1>3. /\ q \in RunRecord /\ q.at = "ended" /\ q.out = run[r].out
      /\ q.ran = run[r].ran /\ q.shown = run[r].shown /\ (procs[r] # {} => q.leaf = run[r].leaf)
  BY <1>2 DEF RunRecord, Removed
<1> HIDE DEF q
<1>4. RunHolds(q, procs[r], doomed[r])
  BY <1>1, <1>2, <1>3, StillAsShown DEF RunHolds, Before, Started
<1> QED BY <1>1, <1>3, <1>4, RunGoes

-----------------------------------------------------------------------------
(* The host and the service.                                               *)

\* A run that is not under way may be told to die at any time.
LEMMA MoreDoomed ==
  ASSUME NEW q, NEW ps, NEW ds, NEW es, ProcsHold(ps, ds), RunHolds(q, ps, ds),
         ds \subseteq es, es \subseteq ps \ {"fork"}
  PROVE  ProcsHold(ps, es) /\ RunHolds(q, ps, es)
<1>1. ProcsHold(ps, es)
  BY DEF ProcsHold
<1>2. Stopped(ps, ds) => Stopped(ps, es)
  BY DEF Stopped
<1> QED BY <1>1, <1>2 DEF RunHolds

LEMMA TerminateLeafHolds == ASSUME IsoInv, NEW r \in Runs, TerminateLeaf(r) PROVE IsoInv'
<1> DEFINE ds == doomed[r] \cup (procs[r] \cap InLeaf(r))
<1>1. /\ service.at = "recover" /\ r \in service.todo \ service.emptied /\ Kill(r, InLeaf(r))
      /\ service' = IF InLeaf(r) = {} THEN [service EXCEPT !.emptied = @ \cup {r}] ELSE service
      /\ UNCHANGED <<profile, inode, run, procs>>
  BY DEF TerminateLeaf
<1>2. IsoTypes /\ ServiceHolds
  BY DEF IsoInv
<1>3. ProcsHold(procs[r], doomed[r]) /\ RunHolds(run[r], procs[r], doomed[r])
  BY IsoTyped
<1>4. ProcsHold(procs[r], ds) /\ RunHolds(run[r], procs[r], ds)
  <2>1. doomed[r] \subseteq ds /\ ds \subseteq procs[r] \ {"fork"}
    BY <1>3 DEF ProcsHold, InLeaf
  <2> HIDE DEF ds
  <2> QED BY <1>3, <2>1, MoreDoomed
<1>5. ProcsAre(r, procs[r], ds)
  BY <1>1, Killed
<1>6. RunIs(r, run[r])
  BY <1>1, RunStays
<1>7. \A s \in Runs : ProcsHold(procs[s], doomed[s])' /\ RunHolds(run[s], procs[s], doomed[s])'
  BY <1>1, <1>4, <1>5, <1>6, OneMoves
<1> HIDE DEF ds
<1>8. /\ service' \in [at : {"up", "down", "recover"}, deaths : Nat, todo : SUBSET Runs, emptied : SUBSET Runs]
      /\ service'.emptied \subseteq service'.todo /\ service'.at = "recover" /\ service'.todo = service.todo
  BY <1>1, <1>2 DEF IsoTypes
<1>9. IsoTypes'
  BY <1>1, <1>2, <1>5, <1>8 DEF IsoTypes, ProcsAre
<1>10. ServiceHolds'
  BY <1>1, <1>2, <1>8 DEF ServiceHolds, Leaves, Hardened
<1> QED BY <1>7, <1>9, <1>10 DEF IsoInv

LEMMA RemoveOrphanHolds == ASSUME IsoInv, NEW r \in Runs, RemoveOrphan(r) PROVE IsoInv'
<1> DEFINE q == [run[r] EXCEPT !.leaf = "gone"]
<1>1. /\ service.at = "recover" /\ procs[r] \ {"fork"} = {} /\ SetRun(r, q)
      /\ service' = [service EXCEPT !.todo = @ \ {r}, !.emptied = @ \ {r}]
      /\ UNCHANGED <<profile, inode, procs, doomed>>
  BY DEF RemoveOrphan, InLeaf
<1>2. IsoTypes /\ ServiceHolds
  BY DEF IsoInv
<1>3. /\ run[r] \in RunRecord /\ ProcsHold(procs[r], doomed[r]) /\ RunHolds(run[r], procs[r], doomed[r])
      /\ run[r].at \notin Started
  BY <1>1, <1>2, IsoTyped DEF ServiceHolds
<1>4. /\ q \in RunRecord /\ q.at = run[r].at /\ q.out = run[r].out /\ q.leaf = "gone"
      /\ q.ran = run[r].ran /\ q.shown = run[r].shown
  BY <1>3 DEF RunRecord
<1> HIDE DEF q
<1>5. RunHolds(q, procs[r], doomed[r])
  BY <1>1, <1>3, <1>4, StillAsShown DEF RunHolds, Started
<1>6. RunIs(r, q) /\ ProcsAre(r, procs[r], doomed[r])
  BY <1>1, <1>4, RunSet, ProcsStay
<1>7. \A s \in Runs : ProcsHold(procs[s], doomed[s])' /\ RunHolds(run[s], procs[s], doomed[s])'
  BY <1>1, <1>3, <1>5, <1>6, OneMoves
<1>8. /\ service' \in [at : {"up", "down", "recover"}, deaths : Nat, todo : SUBSET Runs, emptied : SUBSET Runs]
      /\ service'.emptied \subseteq service'.todo /\ service'.at = "recover"
      /\ service'.todo = service.todo \ {r}
  BY <1>1, <1>2 DEF IsoTypes
<1>9. IsoTypes'
  BY <1>1, <1>2, <1>6, <1>8 DEF IsoTypes, ProcsAre, RunIs
<1>10. ServiceHolds'
  BY <1>1, <1>2, <1>3, <1>4, <1>6, <1>8 DEF ServiceHolds, Leaves, Hardened, RunIs
<1> QED BY <1>7, <1>9, <1>10 DEF IsoInv

\* A step of the host or of the service that leaves every run alone.
LEMMA RunsAlone ==
  ASSUME IsoInv, UNCHANGED <<profile, run, procs, doomed>>, inode' \in [Things -> 0..MaxSwaps], ServiceHolds',
         service' \in [at : {"up", "down", "recover"}, deaths : Nat, todo : SUBSET Runs, emptied : SUBSET Runs],
         service'.emptied \subseteq service'.todo
  PROVE  IsoInv'
<1>1. IsoTypes'
  BY DEF IsoInv, IsoTypes
<1>2. \A s \in Runs : ProcsHold(procs[s], doomed[s])' /\ RunHolds(run[s], procs[s], doomed[s])'
  BY DEF IsoInv, ProcsHold, RunHolds, AsShown, Stopped, Isolated, Hardened
<1> QED BY <1>1, <1>2 DEF IsoInv

LEMMA ServiceMovesHolds == ASSUME IsoInv, Replace \/ ListLeaves \/ StartAborts \/ ServiceUp PROVE IsoInv'
<1>1. IsoTypes /\ ServiceHolds
  BY DEF IsoInv
<1>2. CASE Replace
  <2>1. PICK x \in Things : inode' = [inode EXCEPT ![x] = @ + 1]
    BY <1>2 DEF Replace
  <2>2. inode \in [Things -> 0..MaxSwaps] /\ inode[x] < MaxSwaps /\ MaxSwaps \in Nat
    BY <1>1, <1>2, IsoAssumption DEF Replace, IsoTypes, IsoAssumption
  <2>3. inode' \in [Things -> 0..MaxSwaps]
    BY <2>1, <2>2
  <2>4. ServiceHolds'
    BY <1>1, <1>2 DEF ServiceHolds, Leaves, Hardened, Replace
  <2> QED BY <1>1, <1>2, <2>3, <2>4, RunsAlone DEF Replace, IsoTypes
<1>3. CASE ListLeaves
  <2>1. /\ service' \in [at : {"up", "down", "recover"}, deaths : Nat, todo : SUBSET Runs, emptied : SUBSET Runs]
        /\ service'.at = "recover" /\ service.at = "down" /\ service'.emptied = service.emptied
        /\ service'.todo = IF Hardened THEN Leaves ELSE {}
    BY <1>1, <1>3 DEF ListLeaves, IsoTypes, Leaves
  <2>2. ServiceHolds'
    BY <1>1, <1>3, <2>1 DEF ListLeaves, ServiceHolds, Leaves, Hardened
  <2>3. service'.emptied \subseteq service'.todo
    BY <1>1, <2>1 DEF ServiceHolds
  <2> QED BY <1>1, <1>3, <2>1, <2>2, <2>3, RunsAlone DEF ListLeaves, IsoTypes
<1>4. CASE StartAborts
  <2>1. /\ service' \in [at : {"up", "down", "recover"}, deaths : Nat, todo : SUBSET Runs, emptied : SUBSET Runs]
        /\ service'.at = "down" /\ service.at = "recover" /\ service'.emptied = {}
    BY <1>1, <1>4 DEF StartAborts, IsoTypes
  <2>2. ServiceHolds'
    BY <1>1, <1>4, <2>1 DEF StartAborts, ServiceHolds, Leaves, Hardened
  <2> QED BY <1>1, <1>4, <2>1, <2>2, RunsAlone DEF StartAborts, IsoTypes
<1>5. CASE ServiceUp
  <2>1. /\ service' \in [at : {"up", "down", "recover"}, deaths : Nat, todo : SUBSET Runs, emptied : SUBSET Runs]
        /\ service'.at = "up" /\ service.at = "recover" /\ service.todo = {} /\ service'.emptied \subseteq service'.todo
    BY <1>1, <1>5 DEF ServiceUp, IsoTypes
  <2>2. ASSUME Hardened, NEW r \in Runs PROVE run[r].leaf \in {"none", "gone"}
    <3>1. run[r].leaf \in {"none", "made", "limited", "gone"}
      BY <1>1 DEF IsoTypes, RunRecord
    <3> QED BY <1>1, <2>1, <2>2, <3>1 DEF ServiceHolds, Leaves
  <2>3. ServiceHolds'
    BY <1>1, <1>5, <2>1, <2>2 DEF ServiceUp, ServiceHolds, Leaves, Hardened
  <2> QED BY <1>1, <1>5, <2>1, <2>3, RunsAlone DEF ServiceUp, IsoTypes
<1> QED BY <1>2, <1>3, <1>4, <1>5

LEMMA CrashHolds == ASSUME IsoInv, Crash PROVE IsoInv'
<1>1. /\ service' = [at |-> "down", deaths |-> service.deaths + 1, todo |-> {}, emptied |-> {}]
      /\ run' = [r \in Runs |-> IF run[r].at \in {"idle", "ended"} THEN run[r] ELSE [run[r] EXCEPT !.at = "lost"]]
      /\ doomed' = [r \in Runs |-> IF Isolated THEN procs[r] \ {"fork"} ELSE doomed[r]]
      /\ UNCHANGED <<profile, inode, procs>>
  BY DEF Crash
<1>2. IsoTypes
  BY DEF IsoInv
<1>3. /\ service' \in [at : {"up", "down", "recover"}, deaths : Nat, todo : SUBSET Runs, emptied : SUBSET Runs]
      /\ service'.emptied \subseteq service'.todo /\ service'.at = "down"
  BY <1>1, <1>2 DEF IsoTypes
<1>4. ASSUME NEW r \in Runs
      PROVE  /\ run'[r] \in RunRecord /\ run'[r].at \in {"idle", "ended", "lost"} /\ doomed'[r] \in SUBSET Processes
             /\ ProcsHold(procs[r], doomed'[r]) /\ RunHolds(run'[r], procs[r], doomed'[r])
  <2>1. /\ run[r] \in RunRecord /\ procs[r] \in SUBSET Processes /\ doomed[r] \in SUBSET Processes
        /\ ProcsHold(procs[r], doomed[r]) /\ RunHolds(run[r], procs[r], doomed[r])
    BY IsoTyped
  <2>2. doomed'[r] = IF Isolated THEN procs[r] \ {"fork"} ELSE doomed[r]
    BY <1>1
  <2>3. PICK es : es = doomed'[r]
    OBVIOUS
  <2>4. doomed[r] \subseteq es /\ es \subseteq procs[r] \ {"fork"} /\ es \in SUBSET Processes
    BY <2>1, <2>2, <2>3 DEF ProcsHold
  <2>5. ProcsHold(procs[r], es) /\ RunHolds(run[r], procs[r], es)
    BY <2>1, <2>4, MoreDoomed
  <2>6. CASE run[r].at \in {"idle", "ended"}
    <3>1. run'[r] = run[r]
      BY <1>1, <2>6
    <3> QED BY <2>1, <2>3, <2>4, <2>5, <2>6, <3>1
  <2>7. CASE run[r].at \notin {"idle", "ended"}
    <3> DEFINE q == [run[r] EXCEPT !.at = "lost"]
    <3>1. run'[r] = q
      BY <1>1, <2>7
    <3>2. /\ q \in RunRecord /\ q.at = "lost" /\ q.leaf = run[r].leaf
          /\ q.ran = run[r].ran /\ q.shown = run[r].shown
      BY <2>1 DEF RunRecord
    <3> HIDE DEF q
    <3>3. RunHolds(q, procs[r], es)
      BY <2>5, <3>2, StillAsShown DEF RunHolds, Before, Started
    <3> QED BY <2>3, <2>4, <2>5, <3>1, <3>2, <3>3
  <2> QED BY <2>6, <2>7
<1>5. IsoTypes'
  <2>1. run' \in [Runs -> RunRecord]
    <3>1. run' = [r \in Runs |-> run'[r]]
      BY <1>1
    <3> QED BY <1>4, <3>1
  <2>2. doomed' \in [Runs -> SUBSET Processes]
    <3>1. doomed' = [r \in Runs |-> doomed'[r]]
      BY <1>1
    <3> QED BY <1>4, <3>1
  <2> QED BY <1>1, <1>2, <1>3, <2>1, <2>2 DEF IsoTypes
<1>6. \A r \in Runs : ProcsHold(procs[r], doomed[r])' /\ RunHolds(run[r], procs[r], doomed[r])'
  <2> SUFFICES ASSUME NEW r \in Runs
               PROVE  ProcsHold(procs[r], doomed[r])' /\ RunHolds(run[r], procs[r], doomed[r])'
    OBVIOUS
  <2>1. procs'[r] = procs[r] /\ ProcsHold(procs[r], doomed'[r]) /\ RunHolds(run'[r], procs[r], doomed'[r])
    BY <1>1, <1>4
  <2> QED BY <1>1, <2>1 DEF ProcsHold, RunHolds, AsShown, Stopped, Isolated, Hardened
<1>7. ServiceHolds'
  BY <1>1, <1>3, <1>4 DEF ServiceHolds, Started
<1> QED BY <1>5, <1>6, <1>7 DEF IsoInv

LEMMA IsoStep == ASSUME IsoInv, [IsoNext]_isoVars PROVE IsoInv'
<1>1. CASE UNCHANGED isoVars
  <2>1. UNCHANGED <<profile, inode, service, run, procs, doomed>>
    BY <1>1 DEF isoVars
  <2>2. IsoTypes /\ ServiceHolds
    BY DEF IsoInv
  <2>3. ServiceHolds'
    BY <2>1, <2>2 DEF ServiceHolds, Leaves, Hardened
  <2> QED BY <2>1, <2>2, <2>3, RunsAlone DEF IsoTypes
<1>2. ASSUME NEW r \in Runs, RunStep(r) PROVE IsoInv'
  BY <1>2, PrepareHolds, PrepareRefusedHolds, AnswerRunHolds, RecheckHolds, StartLeafHolds, ConfigureLeafHolds,
     ForkHolds, SpawnFailsHolds, CompletesHolds, DropsHolds, DropsUnstartedHolds, CleansUpHolds,
     TreeStoppedHolds, CleanupFailsHolds, DropEndsHolds DEF RunStep
<1>3. ASSUME NEW r \in Runs, ChildReady(r) \/ Descend(r) \/ Dies(r) \/ TerminateLeaf(r) \/ RemoveOrphan(r)
      PROVE  IsoInv'
  BY <1>3, ChildReadyHolds, DescendHolds, DiesHolds, TerminateLeafHolds, RemoveOrphanHolds
<1> QED BY <1>1, <1>2, <1>3, ServiceMovesHolds, CrashHolds DEF IsoNext

\* What IsolationSafe says follows: a process that is left is dying, or detached.
LEMMA IsoInvSafe == IsoInv => IsolationSafe
<1> SUFFICES ASSUME IsoInv PROVE IsolationSafe
  OBVIOUS
<1>1. IsoTypes /\ ServiceHolds
  BY DEF IsoInv
<1>2. ASSUME NEW r \in Runs
      PROVE  /\ run[r] \in RunRecord /\ procs[r] \in SUBSET Processes /\ doomed[r] \in SUBSET Processes
             /\ ProcsHold(procs[r], doomed[r]) /\ RunHolds(run[r], procs[r], doomed[r])
  BY IsoTyped
<1>3. IsoTypeOK
  BY <1>1, <1>2 DEF IsoTypeOK, IsoTypes, ProcsHold
<1>4. RunsAsShown
  BY <1>2 DEF RunsAsShown, RunHolds, AsShown
<1>5. Contained
  BY <1>2 DEF Contained, RunHolds, InLeaf
<1>6. NothingLeftBehind
  <2> SUFFICES ASSUME NEW r \in Runs, run[r].at = "ended"
               PROVE  /\ Hardened /\ run[r].out \in {"ok", "timeout"} => procs[r] = {} /\ run[r].leaf = "gone"
                      /\ run[r].out \in {"timeout", "dropped", "error"} => procs[r] \ Dying(r) \subseteq {"detached"}
    BY DEF NothingLeftBehind
  <2>1. Stopped(procs[r], doomed[r]) => procs[r] \ Dying(r) \subseteq {"detached"}
    BY DEF Stopped, Dying
  <2> QED BY <1>2, <2>1 DEF RunHolds
<1>7. NothingFromBefore
  <2> SUFFICES ASSUME service.at = "up", Hardened, NEW r \in Runs, run[r].at = "lost"
               PROVE  run[r].leaf \in {"none", "gone"} /\ InLeaf(r) = {}
    BY DEF NothingFromBefore
  <2>1. run[r].leaf \in {"none", "gone"}
    BY <1>1 DEF ServiceHolds
  <2> QED BY <1>2, <2>1 DEF RunHolds, InLeaf
<1> QED BY <1>3, <1>4, <1>5, <1>6, <1>7 DEF IsolationSafe

\* proc.run, for every number of runs, replacements and crashes: a command runs as the
\* files the approval named, a hardened one inside its limited leaf, a run that is over
\* leaves nothing but what is dying or detached, and a service that takes work has
\* recovered what a crash left.
THEOREM IsolationIsSafe == IsoSpec => []IsolationSafe
<1>1. IsoInv /\ [IsoNext]_isoVars => IsoInv'
  BY IsoStep
<1> QED BY <1>1, IsoInitHolds, IsoInvSafe, PTL DEF IsoSpec

-----------------------------------------------------------------------------
(* The delegated turns of a session: the inductive invariant.              *)

AcpPlaces == {"stopped", "boot", "free", "setup", "connect", "prompt", "asking", "artifact", "final", "over"}
AcpOutside == {"stopped", "boot", "free"}
\* The turn has not been answered to OMP's prompt yet; it has not said its last word.
AcpTelling == {"setup", "connect", "prompt", "asking", "artifact"}
AcpOpen == AcpTelling \cup {"final"}

AcpChunks == AcpTurns \X Nat
BuffersOf(S) == [held : Seq(S), truncated : BOOLEAN]
AcpTexts == BuffersOf(AcpChunks)
AcpTranscripts == BuffersOf(AcpTurns)
AcpKinds == {"text", "ask", "answer", "error", "artifact", "final"}
AcpSaid == [turn : AcpTurns, kind : AcpKinds,
            of : {"none"} \cup AcpChunks \cup AcpTexts \cup AcpTranscripts]

AcpTypes ==
  /\ caller \in [AcpTurns -> {"idle", "sending", "waiting", "dropped", "ok", "error"}]
  /\ worker \in [at : AcpPlaces, entry : BOOLEAN, turn : AcpTurns \cup {Nobody},
                 result : {"none", "ok", "error"}, sent : Nat]
  /\ channel \in Seq(AcpTurns) /\ Len(channel) <= ChannelCap
  /\ text \in AcpTexts /\ transcript \in AcpTranscripts
  /\ private \subseteq AcpTurns
  /\ events \in Seq(AcpSaid)

\* The events of a log that are turn t's, and those of them that are chunks.
EventsOf(log, t) == {i \in 1..Len(log) : log[i].turn = t}
ChunksIn(log, t, n) == {i \in 1..n : log[i].turn = t /\ log[i].kind = "text"}
HasFinal(log, t) == \E i \in EventsOf(log, t) : log[i].kind = "final"

\* TellsInOrder over any log.
Tells(log, held, P) ==
  \E at \in [1..Len(held) -> P] :
    /\ \A k \in 1..Len(held) : held[k] = log[at[k]].of
    /\ \A k, m \in 1..Len(held) : k < m => at[k] < at[m]
    /\ \A j \in P : \/ \E k \in 1..Len(held) : at[k] = j
                    \/ Len(held) = TextCap /\ \A k \in 1..Len(held) : at[k] < j

\* A turn is in one place: with its caller, in the channel, with the worker, or over.
ChannelHolds ==
  \A i \in 1..Len(channel) :
    /\ caller[channel[i]] \in {"waiting", "dropped"}
    /\ channel[i] # worker.turn
    /\ EventsOf(events, channel[i]) = {}
    /\ \A j \in 1..Len(channel) : channel[i] = channel[j] => i = j

RequestsHold ==
  /\ ChannelHolds
  /\ worker.turn = Nobody <=> worker.at \in AcpOutside
  /\ worker.at = "stopped" => channel = <<>>
  /\ ~worker.entry => worker.at = "stopped"
  /\ worker.turn \in AcpTurns => caller[worker.turn] \in {"waiting", "dropped"}
  /\ private \subseteq {worker.turn}

\* What the callers know.
CallersHold ==
  \A t \in AcpTurns :
    /\ caller[t] \in {"idle", "sending"} => EventsOf(events, t) = {}
    /\ caller[t] = "ok" => HasFinal(events, t)
    /\ caller[t] = "error" => ~HasFinal(events, t)

\* What the log says of the turn that runs.
RunningHolds ==
  /\ \A i \in EventsOf(events, worker.turn) :
       /\ \A k \in i..Len(events) : events[k].turn = worker.turn
       /\ worker.at \in AcpOpen => events[i].kind \notin {"final", "error"}
       /\ worker.at \in AcpTelling => events[i].kind # "artifact"
       /\ worker.at = "final" /\ events[i].kind = "artifact" => i = Len(events)
  /\ worker.at = "over" =>
       /\ worker.result \in {"ok", "error"}
       /\ worker.result = "ok" <=> HasFinal(events, worker.turn)

\* What the buffers hold of it.
BuffersHold ==
  /\ worker.at \in AcpOpen =>
       /\ Tells(events, text.held, ChunksIn(events, worker.turn, Len(events)))
       /\ Len(text.held) <= TextCap
       /\ text.truncated => Len(text.held) = TextCap
  /\ worker.at \in AcpTelling => \A k \in 1..Len(transcript.held) : transcript.held[k] = worker.turn

LogHolds ==
  /\ \A i \in 1..Len(events) :
       /\ events[i].kind = "final" =>
            events[i].of \in AcpTexts /\ Tells(events, events[i].of.held, ChunksIn(events, events[i].turn, i - 1))
       /\ events[i].kind = "artifact" =>
            events[i].of \in AcpTranscripts /\ \A k \in 1..Len(events[i].of.held) : events[i].of.held[k] = events[i].turn
  /\ \A i, j \in 1..Len(events) : i < j /\ events[i].turn = events[j].turn =>
       /\ \A k \in i..j : events[k].turn = events[i].turn
       /\ events[i].kind \notin {"final", "error"}
       /\ events[i].kind = "artifact" => j = i + 1 /\ events[j].kind \in {"final", "error"}

AcpInv == AcpTypes /\ RequestsHold /\ CallersHold /\ RunningHolds /\ BuffersHold /\ LogHolds
-----------------------------------------------------------------------------
(* A log that grows.                                                       *)

LEMMA LogGrows ==
  ASSUME NEW log \in Seq(AcpSaid), NEW e \in AcpSaid, NEW grown, grown = Append(log, e)
  PROVE  /\ grown \in Seq(AcpSaid) /\ Len(grown) = Len(log) + 1 /\ Len(log) \in Nat
         /\ \A i \in 1..Len(log) : grown[i] = log[i]
         /\ grown[Len(log) + 1] = e
  OBVIOUS

LEMMA EventsGrow ==
  ASSUME NEW log \in Seq(AcpSaid), NEW e \in AcpSaid
  PROVE  LET grown == Append(log, e) IN
         /\ \A t : t # e.turn => EventsOf(grown, t) = EventsOf(log, t)
         /\ EventsOf(grown, e.turn) = EventsOf(log, e.turn) \cup {Len(log) + 1}
         /\ \A t : t # e.turn => (HasFinal(grown, t) <=> HasFinal(log, t))
         /\ HasFinal(grown, e.turn) <=> HasFinal(log, e.turn) \/ e.kind = "final"
  <1> DEFINE grown == Append(log, e)
  <1>1. /\ grown \in Seq(AcpSaid) /\ Len(grown) = Len(log) + 1 /\ Len(log) \in Nat
        /\ \A i \in 1..Len(log) : grown[i] = log[i]
        /\ grown[Len(log) + 1] = e
    BY LogGrows
  <1> HIDE DEF grown
  <1>2. \A t : t # e.turn => EventsOf(grown, t) = EventsOf(log, t)
    BY <1>1 DEF EventsOf
  <1>3. EventsOf(grown, e.turn) = EventsOf(log, e.turn) \cup {Len(log) + 1}
    BY <1>1 DEF EventsOf
  <1>4. \A t : \A i \in EventsOf(log, t) : grown[i] = log[i]
    BY <1>1 DEF EventsOf
  <1> QED  BY <1>1, <1>2, <1>3, <1>4 DEF HasFinal, grown

LEMMA TellsStill ==
  ASSUME NEW log, NEW grown, NEW held, NEW P, \A i \in P : grown[i] = log[i], Tells(log, held, P)
  PROVE  Tells(grown, held, P)
  <1>1. PICK at \in [1..Len(held) -> P] :
          /\ \A k \in 1..Len(held) : held[k] = log[at[k]].of
          /\ \A k, m \in 1..Len(held) : k < m => at[k] < at[m]
          /\ \A j \in P : \/ \E k \in 1..Len(held) : at[k] = j
                          \/ Len(held) = TextCap /\ \A k \in 1..Len(held) : at[k] < j
    BY DEF Tells
  <1>2. \A k \in 1..Len(held) : held[k] = grown[at[k]].of
    BY <1>1
  <1> QED  BY <1>1, <1>2 DEF Tells

\* A chunk that a buffer takes.
LEMMA TellsOneMore ==
  ASSUME NEW log, NEW n \in Nat, NEW P \in SUBSET (1..n), NEW held \in Seq(AcpChunks), NEW x \in AcpChunks,
         Tells(log, held, P), Len(held) < TextCap, log[n + 1].of = x
  PROVE  Tells(log, Append(held, x), P \cup {n + 1})
  <1> DEFINE L == Len(held)
             more == Append(held, x)
  <1>1. /\ L \in Nat /\ Len(more) = L + 1 /\ more[L + 1] = x
        /\ \A k \in 1..L : more[k] = held[k]
    OBVIOUS
  <1>2. PICK at \in [1..L -> P] :
          /\ \A k \in 1..L : held[k] = log[at[k]].of
          /\ \A k, m \in 1..L : k < m => at[k] < at[m]
          /\ \A j \in P : \/ \E k \in 1..L : at[k] = j
                          \/ L = TextCap /\ \A k \in 1..L : at[k] < j
    BY DEF Tells
  <1>3. TextCap \in Nat
    BY AcpAssumption DEF AcpAssumption
  <1> HIDE DEF L, more
  <1>4. L < TextCap
    BY DEF L
  <1> DEFINE now == [k \in 1..(L + 1) |-> IF k = L + 1 THEN n + 1 ELSE at[k]]
  <1>5. now \in [1..(L + 1) -> P \cup {n + 1}]
    BY <1>1, <1>2
  <1>6. \A k \in 1..(L + 1) : more[k] = log[now[k]].of
    BY <1>1, <1>2
  <1>7. \A k, m \in 1..(L + 1) : k < m => now[k] < now[m]
    <2>1. \A k \in 1..L : at[k] \in P
      BY <1>2
    <2>2. \A k \in 1..L : at[k] \in 1..n
      BY <2>1
    <2>3. SUFFICES ASSUME NEW k \in 1..(L + 1), NEW m \in 1..(L + 1), k < m PROVE now[k] < now[m]
      OBVIOUS
    <2>4. k \in 1..L /\ now[k] = at[k]
      BY <1>1, <2>3
    <2>5. CASE m = L + 1
      BY <2>2, <2>4, <2>5
    <2>6. CASE m # L + 1
      <3>1. m \in 1..L /\ now[m] = at[m]
        BY <1>1, <2>3, <2>6
      <3> QED  BY <1>2, <2>3, <2>4, <3>1
    <2> QED  BY <2>5, <2>6
  <1>8. \A j \in P \cup {n + 1} : \E k \in 1..(L + 1) : now[k] = j
    <2> SUFFICES ASSUME NEW j \in P \cup {n + 1} PROVE \E k \in 1..(L + 1) : now[k] = j
      OBVIOUS
    <2>1. CASE j = n + 1
      <3>1. L + 1 \in 1..(L + 1) /\ now[L + 1] = n + 1
        BY <1>1
      <3> QED  BY <2>1, <3>1
    <2>2. CASE j \in P
      <3>1. PICK k \in 1..L : at[k] = j
        BY <1>1, <1>2, <1>3, <1>4, <2>2
      <3>2. k \in 1..(L + 1) /\ now[k] = j
        BY <1>1, <3>1
      <3> QED  BY <3>2
    <2> QED  BY <2>1, <2>2
  <1> HIDE DEF now
  <1> QED  BY <1>1, <1>5, <1>6, <1>7, <1>8 DEF Tells, more

\* A chunk that a full buffer does not take.
LEMMA TellsNoMore ==
  ASSUME NEW log, NEW n \in Nat, NEW P \in SUBSET (1..n), NEW held \in Seq(AcpChunks),
         Tells(log, held, P), Len(held) = TextCap
  PROVE  Tells(log, held, P \cup {n + 1})
  <1>1. PICK at \in [1..Len(held) -> P] :
          /\ \A k \in 1..Len(held) : held[k] = log[at[k]].of
          /\ \A k, m \in 1..Len(held) : k < m => at[k] < at[m]
          /\ \A j \in P : \/ \E k \in 1..Len(held) : at[k] = j
                          \/ Len(held) = TextCap /\ \A k \in 1..Len(held) : at[k] < j
    BY DEF Tells
  <1>2. at \in [1..Len(held) -> P \cup {n + 1}] /\ \A k \in 1..Len(held) : at[k] < n + 1
    <2>1. \A k \in 1..Len(held) : at[k] \in P
      BY <1>1
    <2>2. \A k \in 1..Len(held) : at[k] \in 1..n
      BY <2>1
    <2> QED  BY <2>1, <2>2
  <1>3. \A j \in P \cup {n + 1} :
          \/ \E k \in 1..Len(held) : at[k] = j
          \/ Len(held) = TextCap /\ \A k \in 1..Len(held) : at[k] < j
    BY <1>1, <1>2
  <1> QED  BY <1>1, <1>2, <1>3 DEF Tells
LEMMA PushedMeans ==
  ASSUME NEW S, NEW b \in BuffersOf(S), NEW cap \in Nat, NEW x \in S
  PROVE  /\ Pushed(b, cap, x) \in BuffersOf(S)
         /\ \/ Len(b.held) < cap /\ ~b.truncated /\ Pushed(b, cap, x).held = Append(b.held, x) /\ ~Pushed(b, cap, x).truncated
            \/ (b.truncated \/ Len(b.held) >= cap) /\ Pushed(b, cap, x).held = b.held
  <1> USE DEF BuffersOf
  <1>1. PICK h \in Seq(S), c \in BOOLEAN : b = [held |-> h, truncated |-> c]
    OBVIOUS
  <1>2. b.held = h /\ b.truncated = c /\ Append(h, x) \in Seq(S) /\ Len(h) \in Nat
    BY <1>1
  <1>3. [b EXCEPT !.held = Append(@, x)] = [held |-> Append(h, x), truncated |-> c]
    BY <1>1
  <1>4. PICK yes \in BOOLEAN : yes = TRUE
    OBVIOUS
  <1>8. [b EXCEPT !.truncated = yes] = [held |-> h, truncated |-> yes]
    BY <1>1
  <1>5. CASE c
    BY <1>1, <1>2, <1>5 DEF Pushed
  <1>6. CASE ~c /\ Len(h) < cap
    BY <1>2, <1>3, <1>6 DEF Pushed
  <1>7. CASE ~c /\ ~(Len(h) < cap)
    <2>1. Pushed(b, cap, x) = [b EXCEPT !.truncated = TRUE]
      BY <1>2, <1>7 DEF Pushed
    <2>2. [b EXCEPT !.truncated = TRUE] = [b EXCEPT !.truncated = yes]
      BY <1>4, Zenon
    <2>3. Pushed(b, cap, x) = [held |-> h, truncated |-> yes]
      BY <1>8, <2>1, <2>2, Zenon
    <2> QED  BY <1>2, <1>7, <2>3
  <1> QED  BY <1>5, <1>6, <1>7

-----------------------------------------------------------------------------
(* What a step of the turn that runs does to the log.                      *)

\* The next event is one the turn may say where it stands.
SaysNext(e) ==
  /\ e \in AcpSaid /\ e.turn = worker.turn /\ events' = Append(events, e)
  /\ e.kind = "final" => worker.at = "final" /\ e.of = text
  /\ e.kind = "artifact" => worker.at = "artifact" /\ e.of = transcript
  /\ worker.at = "final" => e.kind = "final"

LEMMA LogStays ==
  ASSUME AcpInv, worker.at \in AcpOpen, NEW e, SaysNext(e)
  PROVE  LogHolds'
  <1> DEFINE n == Len(events)
  <1>1. e \in AcpSaid /\ events \in Seq(AcpSaid) /\ e.turn = worker.turn
    BY DEF AcpInv, AcpTypes, SaysNext
  <1>2. /\ events' \in Seq(AcpSaid) /\ Len(events') = n + 1 /\ n \in Nat
        /\ \A i \in 1..n : events'[i] = events[i]
        /\ events'[n + 1] = e
    BY <1>1, LogGrows DEF SaysNext
  <1>3. \A t : \A k \in Nat : k <= n => ChunksIn(events', t, k) = ChunksIn(events, t, k)
                                       /\ ChunksIn(events, t, k) \subseteq 1..n
    BY <1>2 DEF ChunksIn
  <1> HIDE DEF n
  <1>4. ASSUME NEW i \in 1..(n + 1)
        PROVE  /\ events'[i].kind = "final" =>
                    /\ events'[i].of \in AcpTexts
                    /\ Tells(events', events'[i].of.held, ChunksIn(events', events'[i].turn, i - 1))
               /\ events'[i].kind = "artifact" =>
                    /\ events'[i].of \in AcpTranscripts
                    /\ \A k \in 1..Len(events'[i].of.held) : events'[i].of.held[k] = events'[i].turn
    <2>1. CASE i \in 1..n
      <3>1. /\ events[i].kind = "final" =>
                 /\ events[i].of \in AcpTexts
                 /\ Tells(events, events[i].of.held, ChunksIn(events, events[i].turn, i - 1))
            /\ events[i].kind = "artifact" =>
                 /\ events[i].of \in AcpTranscripts
                 /\ \A k \in 1..Len(events[i].of.held) : events[i].of.held[k] = events[i].turn
        BY <2>1 DEF AcpInv, LogHolds, n
      <3>2. events'[i] = events[i] /\ i - 1 \in Nat /\ i - 1 <= n
        BY <1>2, <2>1
      <3>3. /\ ChunksIn(events', events[i].turn, i - 1) = ChunksIn(events, events[i].turn, i - 1)
            /\ ChunksIn(events, events[i].turn, i - 1) \subseteq 1..n
        BY <1>3, <3>2
      <3>4. ASSUME events[i].kind = "final"
            PROVE  Tells(events', events[i].of.held, ChunksIn(events, events[i].turn, i - 1))
        BY <1>2, <3>1, <3>3, <3>4, TellsStill
      <3> QED  BY <3>1, <3>2, <3>3, <3>4
    <2>2. CASE i = n + 1
      <3>1. events'[i] = e /\ i - 1 = n
        BY <1>2, <2>2
      <3>2. ASSUME e.kind = "final"
            PROVE  e.of \in AcpTexts /\ Tells(events', e.of.held, ChunksIn(events', e.turn, n))
        <4>1. worker.at = "final" /\ e.of = text /\ text \in AcpTexts
          BY <3>2 DEF SaysNext, AcpInv, AcpTypes
        <4>2. Tells(events, text.held, ChunksIn(events, e.turn, n))
          BY <1>1, <4>1 DEF AcpInv, BuffersHold, AcpOpen, n
        <4>3. ChunksIn(events', e.turn, n) = ChunksIn(events, e.turn, n) /\ ChunksIn(events, e.turn, n) \subseteq 1..n
          BY <1>2, <1>3
        <4> QED  BY <1>2, <4>1, <4>2, <4>3, TellsStill
      <3>3. ASSUME e.kind = "artifact"
            PROVE  e.of \in AcpTranscripts /\ \A k \in 1..Len(e.of.held) : e.of.held[k] = e.turn
        BY <1>1, <3>3 DEF SaysNext, AcpInv, AcpTypes, BuffersHold, AcpTelling
      <3> QED  BY <3>1, <3>2, <3>3
    <2> QED  BY <1>2, <2>1, <2>2
  <1>5. ASSUME NEW i \in 1..(n + 1), NEW j \in 1..(n + 1), i < j, events'[i].turn = events'[j].turn
        PROVE  /\ \A k \in i..j : events'[k].turn = events'[i].turn
               /\ events'[i].kind \notin {"final", "error"}
               /\ events'[i].kind = "artifact" => j = i + 1 /\ events'[j].kind \in {"final", "error"}
    <2>1. i \in 1..n /\ events'[i] = events[i]
      BY <1>2, <1>5
    <2>2. CASE j \in 1..n
      <3>1. events'[j] = events[j] /\ \A k \in i..j : events'[k] = events[k]
        BY <1>2, <2>1, <2>2
      <3> QED  BY <1>5, <2>1, <2>2, <3>1 DEF AcpInv, LogHolds, n
    <2>3. CASE j = n + 1
      <3>1. events'[j] = e /\ i \in EventsOf(events, worker.turn)
        BY <1>1, <1>2, <1>5, <2>1, <2>3 DEF EventsOf, n
      <3>2. /\ \A k \in i..n : events[k].turn = worker.turn
            /\ events[i].kind \notin {"final", "error"}
            /\ worker.at \in AcpTelling => events[i].kind # "artifact"
            /\ worker.at = "final" /\ events[i].kind = "artifact" => i = n
        BY <3>1 DEF AcpInv, RunningHolds, n
      <3>3. \A k \in i..j : events'[k].turn = events'[i].turn
        <4> SUFFICES ASSUME NEW k \in i..j PROVE events'[k].turn = worker.turn
          BY <2>1, <3>1 DEF EventsOf
        <4>1. CASE k = n + 1
          BY <1>1, <2>3, <3>1, <4>1
        <4>2. CASE k # n + 1
          <5>1. k \in 1..n /\ k \in i..n
            BY <1>2, <2>1, <2>3, <4>2
          <5> QED  BY <1>2, <3>2, <5>1
        <4> QED  BY <4>1, <4>2
      <3>4. ASSUME events[i].kind = "artifact"
            PROVE  j = i + 1 /\ events'[j].kind \in {"final", "error"}
        <4>1. worker.at = "final"
          BY <3>2, <3>4 DEF AcpOpen
        <4> QED  BY <2>3, <3>1, <3>2, <3>4, <4>1 DEF SaysNext
      <3> QED  BY <2>1, <3>2, <3>3, <3>4
    <2> QED  BY <1>2, <2>2, <2>3
  <1>6. Len(events)' = n + 1
    BY <1>2
  <1> QED  BY <1>4, <1>5, <1>6 DEF LogHolds
\* A step of the turn that runs: who it is and who waits for it stay, and it says at
\* most one event.
TurnSteps ==
  /\ worker.at \in AcpOpen /\ worker'.at \in AcpOpen \cup {"over"}
  /\ worker' \in [at : AcpPlaces, entry : BOOLEAN, turn : AcpTurns \cup {Nobody},
                  result : {"none", "ok", "error"}, sent : Nat]
  /\ worker'.turn = worker.turn /\ worker'.entry = worker.entry
  /\ UNCHANGED <<caller, channel>>
  /\ text' \in AcpTexts /\ transcript' \in AcpTranscripts
  /\ private' \subseteq private \cup {worker.turn}
  /\ events' = events \/ \E e : SaysNext(e)

LEMMA TurnIsOne ==
  ASSUME AcpInv
  PROVE  /\ worker.at \in AcpOpen \cup {"over"} => worker.turn \in AcpTurns
         /\ Nobody \notin AcpTurns /\ TextCap \in Nat /\ LineCap \in Nat
  BY AcpAssumption DEF AcpAssumption, AcpInv, AcpTypes, RequestsHold, ChannelHolds, AcpOpen, AcpTelling, AcpOutside

LEMMA TurnStepHolds ==
  ASSUME AcpInv, TurnSteps
  PROVE  AcpTypes' /\ RequestsHold' /\ CallersHold' /\ LogHolds'
  <1>1. worker.turn \in AcpTurns /\ worker.at \notin AcpOutside /\ worker'.at \notin AcpOutside /\ Nobody \notin AcpTurns
    BY TurnIsOne DEF TurnSteps, AcpOpen, AcpTelling, AcpOutside
  <1>2. events \in Seq(AcpSaid)
    BY DEF AcpInv, AcpTypes
  <1>3. /\ events' \in Seq(AcpSaid) /\ LogHolds'
        /\ \A t : t # worker.turn => EventsOf(events', t) = EventsOf(events, t)
        /\ \A t : t # worker.turn => (HasFinal(events', t) <=> HasFinal(events, t))
    <2>1. CASE events' = events
      BY <1>2, <2>1 DEF AcpInv, LogHolds
    <2>2. ASSUME NEW e, SaysNext(e) PROVE <1>3
      <3>1. e \in AcpSaid /\ e.turn = worker.turn /\ events' = Append(events, e)
        BY <2>2 DEF SaysNext
      <3>2. LogHolds'
        BY <2>2, LogStays DEF TurnSteps
      <3> QED  BY <1>2, <3>1, <3>2, EventsGrow, LogGrows
    <2> QED  BY <2>1, <2>2 DEF TurnSteps
  <1>4. AcpTypes'
    BY <1>1, <1>3 DEF TurnSteps, AcpInv, AcpTypes
  <1>5. RequestsHold'
    <2>1. \A i \in 1..Len(channel) : channel[i] \in AcpTurns
      BY DEF AcpInv, AcpTypes
    <2>2. worker.at # "stopped" /\ worker'.at # "stopped"
      BY <1>1 DEF AcpOutside
    <2>3. \A i \in 1..Len(channel) :
            /\ caller[channel[i]] \in {"waiting", "dropped"}
            /\ channel[i] # worker.turn
            /\ EventsOf(events, channel[i]) = {}
            /\ \A j \in 1..Len(channel) : channel[i] = channel[j] => i = j
      BY DEF AcpInv, RequestsHold, ChannelHolds
    <2>4. \A i \in 1..Len(channel) : EventsOf(events', channel[i]) = {}
      BY <1>3, <2>3
    <2>5. UNCHANGED <<caller, channel>> /\ worker'.turn = worker.turn
      BY DEF TurnSteps
    <2>6. private' \subseteq {worker.turn}
      BY DEF TurnSteps, AcpInv, RequestsHold, ChannelHolds
    <2>7. worker'.entry
      BY <2>2 DEF TurnSteps, AcpInv, RequestsHold, ChannelHolds
    <2>8. caller[worker.turn] \in {"waiting", "dropped"}
      BY <1>1 DEF AcpInv, RequestsHold, ChannelHolds
    <2> QED  BY <1>1, <2>1, <2>2, <2>3, <2>4, <2>5, <2>6, <2>7, <2>8 DEF RequestsHold, ChannelHolds
  <1>6. CallersHold'
    BY <1>1, <1>3 DEF TurnSteps, AcpInv, RequestsHold, ChannelHolds, CallersHold
  <1> QED  BY <1>3, <1>4, <1>5, <1>6

\* What the log says of the turn after it.
LEMMA RunningStays ==
  ASSUME AcpInv, TurnSteps, events' = events,
         worker'.at = "over" \/ (worker'.at \in AcpTelling /\ worker.at \in AcpTelling),
         worker'.at = "over" => worker'.result = "error"
  PROVE  RunningHolds'
  <1>1. worker'.turn = worker.turn /\ worker.at \in AcpOpen
    BY DEF TurnSteps
  <1>2. \A i \in EventsOf(events, worker.turn) :
          /\ \A k \in i..Len(events) : events[k].turn = worker.turn
          /\ events[i].kind \notin {"final", "error"}
          /\ worker.at \in AcpTelling => events[i].kind # "artifact"
    BY <1>1 DEF AcpInv, RunningHolds
  <1>3. ~HasFinal(events, worker.turn)
    BY <1>2 DEF HasFinal
  <1> QED  BY <1>1, <1>2, <1>3 DEF RunningHolds, AcpOpen, AcpTelling

LEMMA RunningGrows ==
  ASSUME AcpInv, TurnSteps, NEW e, SaysNext(e),
         \/ e.kind \in {"text", "ask", "answer"} /\ worker.at \in AcpTelling /\ worker'.at \in AcpTelling
         \/ e.kind = "artifact" /\ worker'.at = "final"
         \/ e.kind = "error" /\ worker'.at = "over" /\ worker'.result = "error"
         \/ e.kind = "final" /\ worker'.at = "over" /\ worker'.result = "ok"
  PROVE  RunningHolds'
  <1> DEFINE n == Len(events)
  <1>1. worker'.turn = worker.turn /\ worker.at \in AcpOpen
    BY DEF TurnSteps
  <1>2. e \in AcpSaid /\ e.turn = worker.turn /\ events' = Append(events, e) /\ events \in Seq(AcpSaid)
    BY DEF SaysNext, AcpInv, AcpTypes
  <1>3. /\ Len(events') = n + 1 /\ n \in Nat /\ events'[n + 1] = e
        /\ \A i \in 1..n : events'[i] = events[i]
    BY <1>2, LogGrows
  <1>4. /\ EventsOf(events', worker.turn) = EventsOf(events, worker.turn) \cup {n + 1}
        /\ HasFinal(events', worker.turn) <=> HasFinal(events, worker.turn) \/ e.kind = "final"
    BY <1>2, EventsGrow
  <1>5. \A i \in EventsOf(events, worker.turn) :
          /\ i \in 1..n
          /\ \A k \in i..n : events[k].turn = worker.turn
          /\ events[i].kind \notin {"final", "error"}
          /\ worker.at \in AcpTelling => events[i].kind # "artifact"
    BY <1>1 DEF AcpInv, RunningHolds, EventsOf
  <1>6. ~HasFinal(events, worker.turn)
    BY <1>5 DEF HasFinal
  <1> HIDE DEF n
  <1>7. e.kind = "artifact" => worker.at \in AcpTelling
    BY DEF SaysNext, AcpTelling
  <1>8. worker'.at \in AcpTelling \cup {"final"} => worker.at \in AcpTelling
    BY <1>7 DEF AcpTelling
  <1>9. ASSUME NEW i \in EventsOf(events', worker.turn)
        PROVE  /\ \A k \in i..(n + 1) : events'[k].turn = worker.turn
               /\ worker'.at \in AcpOpen => events'[i].kind \notin {"final", "error"}
               /\ worker'.at \in AcpTelling => events'[i].kind # "artifact"
               /\ worker'.at = "final" /\ events'[i].kind = "artifact" => i = n + 1
    <2>1. CASE i = n + 1
      BY <1>2, <1>3, <2>1 DEF AcpOpen, AcpTelling
    <2>2. CASE i \in EventsOf(events, worker.turn)
      <3>1. i \in 1..n /\ events'[i] = events[i]
        BY <1>3, <1>5, <2>2
      <3>2. \A k \in i..(n + 1) : events'[k].turn = worker.turn
        <4> SUFFICES ASSUME NEW k \in i..(n + 1) PROVE events'[k].turn = worker.turn
          OBVIOUS
        <4>1. CASE k = n + 1
          BY <1>2, <1>3, <4>1
        <4>2. CASE k # n + 1
          <5>1. k \in i..n /\ k \in 1..n
            BY <1>3, <3>1, <4>2
          <5> QED  BY <1>3, <1>5, <2>2, <5>1
        <4> QED  BY <4>1, <4>2
      <3> QED  BY <1>5, <1>8, <2>2, <3>1, <3>2 DEF AcpOpen
    <2> QED  BY <1>4, <2>1, <2>2
  <1>10. worker'.at = "over" =>
           /\ worker'.result \in {"ok", "error"}
           /\ worker'.result = "ok" <=> HasFinal(events', worker.turn)
    BY <1>4, <1>6 DEF AcpTelling
  <1> QED  BY <1>1, <1>3, <1>9, <1>10 DEF RunningHolds

\* What the buffers hold after it, whether or not the text buffer takes a chunk.
LEMMA TextStays ==
  ASSUME AcpInv, TurnSteps, text' = text, worker'.at \in AcpOpen,
         events' = events \/ \E e : SaysNext(e) /\ e.kind # "text"
  PROVE  /\ Tells(events', text'.held, ChunksIn(events', worker'.turn, Len(events')))
         /\ Len(text'.held) <= TextCap
         /\ text'.truncated => Len(text'.held) = TextCap
  <1>1. /\ worker'.turn = worker.turn
        /\ Tells(events, text.held, ChunksIn(events, worker.turn, Len(events)))
        /\ Len(text.held) <= TextCap
        /\ text.truncated => Len(text.held) = TextCap
    BY DEF TurnSteps, AcpInv, BuffersHold
  <1>2. CASE events' = events
    BY <1>1, <1>2
  <1>3. ASSUME NEW e, SaysNext(e), e.kind # "text"
        PROVE  Tells(events', text.held, ChunksIn(events', worker.turn, Len(events')))
    <2>1. e \in AcpSaid /\ events' = Append(events, e) /\ events \in Seq(AcpSaid)
      BY <1>3 DEF SaysNext, AcpInv, AcpTypes
    <2>2. /\ Len(events') = Len(events) + 1 /\ Len(events) \in Nat
          /\ events'[Len(events) + 1] = e
          /\ \A i \in 1..Len(events) : events'[i] = events[i]
      BY <2>1, LogGrows
    <2>3. ChunksIn(events', worker.turn, Len(events')) = ChunksIn(events, worker.turn, Len(events))
      BY <1>3, <2>2 DEF ChunksIn
    <2>4. \A i \in ChunksIn(events, worker.turn, Len(events)) : events'[i] = events[i]
      BY <2>2 DEF ChunksIn
    <2> QED  BY <1>1, <2>3, <2>4, TellsStill
  <1> QED  BY <1>1, <1>2, <1>3

LEMMA TextTakes ==
  ASSUME AcpInv, TurnSteps, worker'.at \in AcpOpen, NEW x \in AcpChunks, text' = Pushed(text, TextCap, x),
         NEW e, SaysNext(e), e.kind = "text", e.of = x
  PROVE  /\ Tells(events', text'.held, ChunksIn(events', worker'.turn, Len(events')))
         /\ Len(text'.held) <= TextCap
         /\ text'.truncated => Len(text'.held) = TextCap
  <1> DEFINE n == Len(events)
             P == ChunksIn(events, worker.turn, n)
  <1>1. /\ worker'.turn = worker.turn
        /\ Tells(events, text.held, P)
        /\ Len(text.held) <= TextCap
        /\ text.truncated => Len(text.held) = TextCap
    BY DEF TurnSteps, AcpInv, BuffersHold
  <1>2. e \in AcpSaid /\ e.turn = worker.turn /\ events' = Append(events, e) /\ events \in Seq(AcpSaid)
    BY DEF SaysNext, AcpInv, AcpTypes
  <1>3. /\ Len(events') = n + 1 /\ n \in Nat /\ events'[n + 1] = e
        /\ \A i \in 1..n : events'[i] = events[i]
    BY <1>2, LogGrows
  <1>4. ChunksIn(events', worker.turn, Len(events')) = P \cup {n + 1} /\ P \in SUBSET (1..n)
    BY <1>2, <1>3 DEF ChunksIn
  <1>5. \A i \in P : events'[i] = events[i]
    BY <1>3, <1>4
  <1> HIDE DEF P, n
  <1>6. Tells(events', text.held, P)
    BY <1>1, <1>5, TellsStill
  <1>7. text \in BuffersOf(AcpChunks) /\ text.held \in Seq(AcpChunks) /\ TextCap \in Nat
    BY TurnIsOne DEF AcpInv, AcpTypes, AcpTexts, BuffersOf
  <1>8. /\ \/ Len(text.held) < TextCap /\ ~text.truncated /\ text'.held = Append(text.held, x) /\ ~text'.truncated
           \/ (text.truncated \/ Len(text.held) >= TextCap) /\ text'.held = text.held
    BY <1>7, PushedMeans
  <1>9. CASE Len(text.held) < TextCap /\ text'.held = Append(text.held, x) /\ ~text'.truncated
    <2>1. Tells(events', Append(text.held, x), P \cup {n + 1})
      BY <1>3, <1>4, <1>6, <1>7, <1>9, TellsOneMore
    <2>2. Len(Append(text.held, x)) <= TextCap
      BY <1>7, <1>9
    <2> QED  BY <1>1, <1>4, <1>9, <2>1, <2>2
  <1>10. CASE (text.truncated \/ Len(text.held) >= TextCap) /\ text'.held = text.held
    <2>1. Len(text.held) = TextCap
      BY <1>1, <1>7, <1>10
    <2>2. Tells(events', text.held, P \cup {n + 1})
      BY <1>3, <1>4, <1>6, <1>7, <2>1, TellsNoMore
    <2> QED  BY <1>1, <1>4, <1>10, <2>1, <2>2
  <1> QED  BY <1>8, <1>9, <1>10

LEMMA LinesStay ==
  ASSUME AcpInv, LineKept, worker.turn \in AcpTurns
  PROVE  /\ transcript' \in AcpTranscripts
         /\ worker.at \in AcpTelling => \A k \in 1..Len(transcript'.held) : transcript'.held[k] = worker.turn
  <1>1. transcript \in BuffersOf(AcpTurns) /\ LineCap \in Nat /\ transcript.held \in Seq(AcpTurns)
    BY TurnIsOne DEF AcpInv, AcpTypes, AcpTranscripts, BuffersOf
  <1>2. transcript' \in AcpTranscripts /\ (transcript'.held = Append(transcript.held, worker.turn) \/ transcript'.held = transcript.held)
    BY <1>1, PushedMeans DEF LineKept, AcpTranscripts
  <1>3. worker.at \in AcpTelling => \A k \in 1..Len(transcript.held) : transcript.held[k] = worker.turn
    BY DEF AcpInv, BuffersHold
  <1>4. CASE transcript'.held = Append(transcript.held, worker.turn)
    <2>1. /\ Len(transcript'.held) = Len(transcript.held) + 1 /\ Len(transcript.held) \in Nat
          /\ transcript'.held[Len(transcript.held) + 1] = worker.turn
          /\ \A k \in 1..Len(transcript.held) : transcript'.held[k] = transcript.held[k]
      BY <1>1, <1>4
    <2> QED  BY <1>2, <1>3, <2>1
  <1>5. CASE transcript'.held = transcript.held
    BY <1>2, <1>3, <1>5
  <1> QED  BY <1>2, <1>4, <1>5

LEMMA EmptyMeans ==
  /\ Empty \in AcpTexts /\ Empty \in AcpTranscripts
  /\ Empty.held = <<>> /\ ~Empty.truncated /\ Len(Empty.held) = 0
  BY DEF Empty, AcpTexts, AcpTranscripts, BuffersOf

-----------------------------------------------------------------------------
(* The steps of the turn that runs.                                        *)

WorkerSet == [at : AcpPlaces, entry : BOOLEAN, turn : AcpTurns \cup {Nobody},
              result : {"none", "ok", "error"}, sent : Nat]

LEMMA WentMeans ==
  ASSUME AcpInv, NEW s \in AcpPlaces, Goes(s)
  PROVE  worker' \in WorkerSet /\ worker'.at = s /\ worker'.turn = worker.turn /\ worker'.entry = worker.entry
  BY DEF Goes, AcpInv, AcpTypes, WorkerSet

LEMMA FailedMeans ==
  ASSUME AcpInv, TurnFails
  PROVE  worker' \in WorkerSet /\ worker'.at = "over" /\ worker'.result = "error"
         /\ worker'.turn = worker.turn /\ worker'.entry = worker.entry
  BY DEF TurnFails, AcpInv, AcpTypes, WorkerSet, AcpPlaces

LEMMA EmittedMeans ==
  ASSUME AcpInv, worker.at \in AcpOpen, NEW k \in {"text", "ask", "answer", "error"},
         NEW of \in {"none"} \cup AcpChunks, Emitted(k, of), worker.at # "final"
  PROVE  \E e : SaysNext(e) /\ e.kind = k /\ e.of = of
  <1>1. worker.turn \in AcpTurns
    BY TurnIsOne
  <1>2. [turn |-> worker.turn, kind |-> k, of |-> of] \in AcpSaid
    BY <1>1 DEF AcpSaid, AcpKinds
  <1> QED  BY <1>2 DEF Emitted, SaysNext

\* A turn that fails, with or without an event that says so.
LEMMA FailureHolds ==
  ASSUME AcpInv, worker.at \in AcpOpen, TurnFails, UNCHANGED <<caller, channel, private>>,
         text' \in AcpTexts, transcript' \in AcpTranscripts,
         UNCHANGED events \/ (Emitted("error", "none") /\ worker.at # "final")
  PROVE  AcpInv'
  <1>1. /\ worker' \in WorkerSet /\ worker'.at = "over" /\ worker'.result = "error"
        /\ worker'.turn = worker.turn /\ worker'.entry = worker.entry
    BY FailedMeans
  <1>2. UNCHANGED events \/ \E e : SaysNext(e) /\ e.kind = "error"
    BY EmittedMeans
  <1>3. TurnSteps
    BY <1>1, <1>2 DEF TurnSteps, WorkerSet
  <1>4. RunningHolds'
    <2>1. CASE UNCHANGED events
      BY <1>1, <1>3, <2>1, RunningStays
    <2>2. ASSUME NEW e, SaysNext(e), e.kind = "error" PROVE RunningHolds'
      BY <1>1, <1>3, <2>2, RunningGrows
    <2> QED  BY <1>2, <2>1, <2>2
  <1>5. BuffersHold'
    BY <1>1 DEF BuffersHold, AcpOpen, AcpTelling
  <1> QED  BY <1>3, <1>4, <1>5, TurnStepHolds DEF AcpInv

\* A turn that goes on, and says at most what it may say before its last word.
LEMMA ProgressHolds ==
  ASSUME AcpInv, TurnSteps, worker.at \in AcpTelling, worker'.at \in AcpTelling,
         events' = events \/ \E e : SaysNext(e) /\ e.kind \in {"ask", "answer"},
         text' = text,
         transcript' = transcript \/ LineKept
  PROVE  AcpInv'
  <1>1. RunningHolds'
    <2>1. CASE events' = events
      <3>1. worker'.at # "over"
        BY DEF AcpTelling
      <3> QED  BY <2>1, <3>1, RunningStays
    <2>2. ASSUME NEW e, SaysNext(e), e.kind \in {"ask", "answer"} PROVE RunningHolds'
      BY <2>2, RunningGrows
    <2> QED  BY <2>1, <2>2
  <1>2. worker'.at \in AcpOpen /\ worker.turn \in AcpTurns /\ worker'.turn = worker.turn
    BY TurnIsOne DEF TurnSteps, AcpOpen
  <1>3. BuffersHold'
    <2>1. /\ Tells(events', text'.held, ChunksIn(events', worker'.turn, Len(events')))
          /\ Len(text'.held) <= TextCap
          /\ text'.truncated => Len(text'.held) = TextCap
      BY <1>2, TextStays
    <2>2. \A k \in 1..Len(transcript'.held) : transcript'.held[k] = worker.turn
      BY <1>2, LinesStay DEF AcpInv, BuffersHold
    <2> QED  BY <1>2, <2>1, <2>2 DEF BuffersHold
  <1> QED  BY <1>1, <1>3, TurnStepHolds DEF AcpInv

LEMMA SetUpHolds == AcpInv /\ SetUp => AcpInv'
  <1> SUFFICES ASSUME AcpInv, SetUp PROVE AcpInv'
    OBVIOUS
  <1>1. worker.at = "setup" /\ UNCHANGED <<caller, channel, text, events, transcript>>
    BY DEF SetUp, WorkerIs
  <1>2. worker.at \in AcpOpen /\ worker.at \in AcpTelling /\ text \in AcpTexts /\ transcript \in AcpTranscripts
    BY <1>1 DEF AcpOpen, AcpTelling, AcpInv, AcpTypes
  <1>3. CASE Goes("connect") /\ private' = private \cup {worker.turn} /\ UNCHANGED stray
    <2>1. worker' \in WorkerSet /\ worker'.at = "connect" /\ worker'.turn = worker.turn /\ worker'.entry = worker.entry
      BY <1>3, WentMeans DEF AcpPlaces
    <2>2. worker'.at \in AcpOpen /\ worker'.at \in AcpTelling
      BY <2>1 DEF AcpOpen, AcpTelling
    <2>3. TurnSteps
      BY <1>1, <1>2, <1>3, <2>1, <2>2 DEF TurnSteps, WorkerSet
    <2> QED  BY <1>1, <1>2, <2>2, <2>3, ProgressHolds
  <1>4. CASE PromptsRefused \/ PromptLeftBehind
    BY <1>1, <1>2, <1>4, FailureHolds DEF PromptsRefused, PromptLeftBehind
  <1> QED  BY <1>3, <1>4 DEF SetUp

LEMMA StartOmpHolds == AcpInv /\ StartOmp => AcpInv'
  <1> SUFFICES ASSUME AcpInv, StartOmp PROVE AcpInv'
    OBVIOUS
  <1>1. worker.at = "connect" /\ LineKept /\ UNCHANGED <<caller, channel, text, private, events>>
    BY DEF StartOmp, WorkerIs
  <1>2. worker.at \in AcpOpen /\ worker.at \in AcpTelling /\ text \in AcpTexts /\ worker.turn \in AcpTurns
    BY <1>1, TurnIsOne DEF AcpOpen, AcpTelling, AcpInv, AcpTypes
  <1>3. transcript' \in AcpTranscripts
    BY <1>1, <1>2, LinesStay
  <1>4. CASE Goes("prompt")
    <2>1. worker' \in WorkerSet /\ worker'.at = "prompt" /\ worker'.turn = worker.turn /\ worker'.entry = worker.entry
      BY <1>4, WentMeans DEF AcpPlaces
    <2>2. worker'.at \in AcpOpen /\ worker'.at \in AcpTelling
      BY <2>1 DEF AcpOpen, AcpTelling
    <2>3. TurnSteps
      BY <1>1, <1>2, <1>3, <2>1, <2>2 DEF TurnSteps, WorkerSet
    <2> QED  BY <1>1, <1>2, <2>2, <2>3, ProgressHolds
  <1>5. CASE TurnFails
    BY <1>1, <1>2, <1>3, <1>5, FailureHolds
  <1> QED  BY <1>4, <1>5 DEF StartOmp

LEMMA UpdateHolds == AcpInv /\ Update => AcpInv'
  <1> SUFFICES ASSUME AcpInv, Update PROVE AcpInv'
    OBVIOUS
  <1>1. PICK x : /\ x = <<worker.turn, worker.sent + 1>> /\ text' = Pushed(text, TextCap, x) /\ LineKept
                 /\ IF worker.turn \in refuses THEN TurnFails /\ UNCHANGED events
                    ELSE Emitted("text", x) /\ worker' = [worker EXCEPT !.sent = worker.sent + 1]
    BY DEF Update
  <1>2. worker.at = "prompt" /\ UNCHANGED <<caller, channel, private>>
    BY DEF Update, WorkerIs
  <1>3. worker.at \in AcpOpen /\ worker.at \in AcpTelling /\ worker.turn \in AcpTurns /\ worker.at # "final"
    BY <1>2, TurnIsOne DEF AcpOpen, AcpTelling
  <1>4. x \in AcpChunks
    <2>1. worker.sent \in Nat
      BY DEF AcpInv, AcpTypes
    <2> QED  BY <1>1, <1>3, <2>1 DEF AcpChunks
  <1>5. text' \in AcpTexts
    <2>1. text \in BuffersOf(AcpChunks) /\ TextCap \in Nat
      BY TurnIsOne DEF AcpInv, AcpTypes, AcpTexts
    <2> QED  BY <1>1, <1>4, <2>1, PushedMeans DEF AcpTexts
  <1>6. /\ transcript' \in AcpTranscripts
        /\ \A k \in 1..Len(transcript'.held) : transcript'.held[k] = worker.turn
    BY <1>1, <1>3, LinesStay
  <1>7. CASE TurnFails /\ UNCHANGED events
    BY <1>2, <1>3, <1>5, <1>6, <1>7, FailureHolds
  <1>8. CASE Emitted("text", x) /\ worker' = [worker EXCEPT !.sent = worker.sent + 1]
    <2>1. worker' \in WorkerSet /\ worker'.at = "prompt" /\ worker'.turn = worker.turn /\ worker'.entry = worker.entry
      BY <1>2, <1>8, SMTT(30) DEF AcpInv, AcpTypes, WorkerSet
    <2>2. worker'.at \in AcpOpen /\ worker'.at \in AcpTelling
      BY <2>1 DEF AcpOpen, AcpTelling
    <2>3. PICK e : SaysNext(e) /\ e.kind = "text" /\ e.of = x
      BY <1>3, <1>4, <1>8, EmittedMeans
    <2>4. TurnSteps
      BY <1>2, <1>3, <1>5, <1>6, <2>1, <2>2, <2>3 DEF TurnSteps, WorkerSet
    <2>5. RunningHolds'
      BY <1>3, <2>2, <2>3, <2>4, RunningGrows
    <2>6. /\ Tells(events', text'.held, ChunksIn(events', worker'.turn, Len(events')))
          /\ Len(text'.held) <= TextCap
          /\ text'.truncated => Len(text'.held) = TextCap
      BY <1>1, <1>4, <2>2, <2>3, <2>4, TextTakes
    <2>7. BuffersHold'
      BY <1>6, <2>1, <2>6 DEF BuffersHold
    <2> QED  BY <2>4, <2>5, <2>7, TurnStepHolds DEF AcpInv
  <1> QED  BY <1>1, <1>7, <1>8

LEMMA AskHolds == AcpInv /\ (AskPermission \/ Permitted) => AcpInv'
  <1> SUFFICES ASSUME AcpInv, AskPermission \/ Permitted PROVE AcpInv'
    OBVIOUS
  <1>1. worker.at \in {"prompt", "asking"} /\ LineKept /\ UNCHANGED <<caller, channel, text, private>>
    BY DEF AskPermission, Permitted, WorkerIs
  <1>2. worker.at \in AcpOpen /\ worker.at \in AcpTelling /\ worker.turn \in AcpTurns /\ worker.at # "final"
    BY <1>1, TurnIsOne DEF AcpOpen, AcpTelling
  <1>3. text \in AcpTexts /\ transcript' \in AcpTranscripts
    BY <1>1, <1>2, LinesStay DEF AcpInv, AcpTypes
  <1>4. CASE TurnFails /\ UNCHANGED events
    BY <1>1, <1>2, <1>3, <1>4, FailureHolds
  <1>5. ASSUME NEW k \in {"ask", "answer"}, Emitted(k, "none"),
               worker' \in WorkerSet, worker'.at \in {"prompt", "asking"}, worker'.turn = worker.turn, worker'.entry = worker.entry
        PROVE  AcpInv'
    <2>1. worker'.at \in AcpOpen /\ worker'.at \in AcpTelling
      BY <1>5 DEF AcpOpen, AcpTelling
    <2>2. PICK e : SaysNext(e) /\ e.kind = k
      BY <1>2, <1>5, EmittedMeans
    <2>3. TurnSteps
      BY <1>1, <1>2, <1>3, <1>5, <2>1, <2>2 DEF TurnSteps, WorkerSet
    <2> QED  BY <1>1, <1>2, <1>5, <2>1, <2>2, <2>3, ProgressHolds
  <1>6. CASE worker' = [worker EXCEPT !.at = "asking", !.sent = worker.sent + 1] /\ Emitted("ask", "none")
    <2>1. /\ worker' \in WorkerSet /\ worker'.at = "asking" /\ worker'.turn = worker.turn
          /\ worker'.entry = worker.entry
      <3>1. worker.sent + 1 \in Nat
        BY DEF AcpInv, AcpTypes
      <3> QED  BY <1>6, <3>1 DEF AcpInv, AcpTypes, WorkerSet, AcpPlaces
    <2> QED  BY <1>5, <1>6, <2>1
  <1>7. CASE Goes("prompt") /\ Emitted("answer", "none")
    <2>1. worker' \in WorkerSet /\ worker'.at = "prompt" /\ worker'.turn = worker.turn /\ worker'.entry = worker.entry
      BY <1>7, WentMeans DEF AcpPlaces
    <2> QED  BY <1>5, <1>7, <2>1
  <1> QED  BY <1>4, <1>6, <1>7 DEF AskPermission, Permitted

LEMMA PromptReturnsHolds == AcpInv /\ PromptReturns => AcpInv'
  <1> SUFFICES ASSUME AcpInv, PromptReturns PROVE AcpInv'
    OBVIOUS
  <1>1. worker.at = "prompt" /\ UNCHANGED <<caller, channel, text, private, transcript>>
    BY DEF PromptReturns, WorkerIs
  <1>2. /\ worker.at \in AcpOpen /\ worker.at \in AcpTelling /\ worker.at # "final"
        /\ text \in AcpTexts /\ transcript \in AcpTranscripts
    BY <1>1 DEF AcpOpen, AcpTelling, AcpInv, AcpTypes
  <1>3. CASE Goes("artifact") /\ UNCHANGED events
    <2>1. worker' \in WorkerSet /\ worker'.at = "artifact" /\ worker'.turn = worker.turn /\ worker'.entry = worker.entry
      BY <1>3, WentMeans DEF AcpPlaces
    <2>2. worker'.at \in AcpOpen /\ worker'.at \in AcpTelling
      BY <2>1 DEF AcpOpen, AcpTelling
    <2>3. TurnSteps
      BY <1>1, <1>2, <1>3, <2>1, <2>2 DEF TurnSteps, WorkerSet
    <2> QED  BY <1>1, <1>2, <1>3, <2>2, <2>3, ProgressHolds
  <1>4. CASE TurnFails /\ (UNCHANGED events \/ Emitted("error", "none"))
    BY <1>1, <1>2, <1>4, FailureHolds
  <1> QED  BY <1>3, <1>4 DEF PromptReturns

LEMMA WriteTranscriptHolds == AcpInv /\ WriteTranscript => AcpInv'
  <1> SUFFICES ASSUME AcpInv, WriteTranscript PROVE AcpInv'
    OBVIOUS
  <1>1. worker.at = "artifact" /\ transcript' = Empty /\ UNCHANGED <<caller, channel, text, private>>
    BY DEF WriteTranscript, WorkerIs
  <1>2. /\ worker.at \in AcpOpen /\ worker.at \in AcpTelling /\ worker.at # "final" /\ worker.turn \in AcpTurns
        /\ text \in AcpTexts /\ transcript \in AcpTranscripts /\ transcript' \in AcpTranscripts
    BY <1>1, TurnIsOne, EmptyMeans DEF AcpOpen, AcpTelling, AcpInv, AcpTypes
  <1>3. CASE TurnFails /\ (UNCHANGED events \/ Emitted("error", "none"))
    BY <1>1, <1>2, <1>3, FailureHolds
  <1>4. CASE Goes("final") /\ Emitted("artifact", transcript)
    <2>1. worker' \in WorkerSet /\ worker'.at = "final" /\ worker'.turn = worker.turn /\ worker'.entry = worker.entry
      BY <1>4, WentMeans DEF AcpPlaces
    <2>2. PICK e : e = [turn |-> worker.turn, kind |-> "artifact", of |-> transcript]
      OBVIOUS
    <2>3. e \in AcpSaid
      BY <1>2, <2>2 DEF AcpSaid, AcpKinds
    <2>4. SaysNext(e) /\ e.kind = "artifact"
      BY <1>1, <1>4, <2>2, <2>3 DEF SaysNext, Emitted
    <2>5. worker'.at \in AcpOpen /\ worker'.at \notin AcpTelling
      BY <2>1 DEF AcpOpen, AcpTelling
    <2>6. TurnSteps
      BY <1>1, <1>2, <2>1, <2>4, <2>5 DEF TurnSteps, WorkerSet
    <2>7. RunningHolds'
      BY <2>1, <2>4, <2>6, RunningGrows
    <2>8. BuffersHold'
      <3>1. /\ Tells(events', text'.held, ChunksIn(events', worker'.turn, Len(events')))
            /\ Len(text'.held) <= TextCap
            /\ text'.truncated => Len(text'.held) = TextCap
        BY <1>1, <2>4, <2>5, <2>6, TextStays
      <3> QED  BY <2>5, <3>1 DEF BuffersHold
    <2> QED  BY <2>6, <2>7, <2>8, TurnStepHolds DEF AcpInv
  <1> QED  BY <1>3, <1>4 DEF WriteTranscript

LEMMA EmitFinalHolds == AcpInv /\ EmitFinal => AcpInv'
  <1> SUFFICES ASSUME AcpInv, EmitFinal PROVE AcpInv'
    OBVIOUS
  <1>1. worker.at = "final" /\ text' = Empty /\ UNCHANGED <<caller, channel, private, transcript>>
    BY DEF EmitFinal, WorkerIs
  <1>2. /\ worker.at \in AcpOpen /\ worker.turn \in AcpTurns
        /\ text \in AcpTexts /\ text' \in AcpTexts /\ transcript \in AcpTranscripts
    BY <1>1, TurnIsOne, EmptyMeans DEF AcpOpen, AcpTelling, AcpInv, AcpTypes
  <1>3. CASE TurnFails /\ UNCHANGED events
    BY <1>1, <1>2, <1>3, FailureHolds
  <1>4. CASE worker' = [worker EXCEPT !.at = "over", !.result = "ok"] /\ Emitted("final", text)
    <2>1. /\ worker' \in WorkerSet /\ worker'.at = "over" /\ worker'.result = "ok"
          /\ worker'.turn = worker.turn /\ worker'.entry = worker.entry
      BY <1>4 DEF AcpInv, AcpTypes, WorkerSet, AcpPlaces
    <2>2. PICK e : e = [turn |-> worker.turn, kind |-> "final", of |-> text]
      OBVIOUS
    <2>3. e \in AcpSaid
      BY <1>2, <2>2 DEF AcpSaid, AcpKinds
    <2>4. SaysNext(e) /\ e.kind = "final"
      BY <1>1, <1>4, <2>2, <2>3 DEF SaysNext, Emitted
    <2>5. TurnSteps
      BY <1>1, <1>2, <2>1, <2>4 DEF TurnSteps, WorkerSet
    <2>6. RunningHolds'
      BY <2>1, <2>4, <2>5, RunningGrows
    <2>7. BuffersHold'
      BY <2>1 DEF BuffersHold, AcpOpen, AcpTelling
    <2> QED  BY <2>5, <2>6, <2>7, TurnStepHolds DEF AcpInv
  <1> QED  BY <1>3, <1>4 DEF EmitFinal

-----------------------------------------------------------------------------
(* The channel and the callers.                                            *)

LEMMA TakeRequestHolds == AcpInv /\ TakeRequest => AcpInv'
  <1> SUFFICES ASSUME AcpInv, TakeRequest PROVE AcpInv'
    OBVIOUS
  <1>1. /\ worker.at = "free" /\ channel # <<>> /\ channel' = Tail(channel)
        /\ text' = Empty /\ transcript' = Empty
        /\ worker' = [worker EXCEPT !.at = "setup", !.turn = Head(channel), !.result = "none", !.sent = 0]
        /\ UNCHANGED <<caller, private, events>>
    BY DEF TakeRequest, WorkerIs
  <1>2. channel \in Seq(AcpTurns) /\ Len(channel) <= ChannelCap /\ ChannelCap \in Nat
    BY AcpAssumption DEF AcpAssumption, AcpInv, AcpTypes
  <1>3. /\ Head(channel) = channel[1] /\ Head(channel) \in AcpTurns /\ 1 \in 1..Len(channel)
        /\ channel' \in Seq(AcpTurns) /\ Len(channel') = Len(channel) - 1 /\ Len(channel) \in Nat
        /\ \A i \in 1..Len(channel') : i + 1 \in 1..Len(channel) /\ channel'[i] = channel[i + 1]
    BY <1>1, <1>2
  <1>4. PICK t \in AcpTurns : t = Head(channel)
    BY <1>3
  <1>5. worker' \in WorkerSet /\ worker'.at = "setup" /\ worker'.turn = t /\ worker'.entry = worker.entry
    BY <1>1, <1>4 DEF AcpInv, AcpTypes, WorkerSet, AcpPlaces
  <1>6. /\ caller[t] \in {"waiting", "dropped"} /\ EventsOf(events, t) = {}
        /\ \A j \in 1..Len(channel) : channel[j] = t => j = 1
    BY <1>3, <1>4 DEF AcpInv, RequestsHold, ChannelHolds
  <1>7. AcpTypes'
    <2>1. Len(channel') <= ChannelCap
      BY <1>2, <1>3
    <2> QED  BY <1>1, <1>3, <1>5, <2>1, EmptyMeans DEF AcpInv, AcpTypes, WorkerSet
  <1>8. RequestsHold'
    <2>1. worker.turn = Nobody /\ Nobody \notin AcpTurns /\ worker.entry
      BY <1>1, AcpAssumption DEF AcpAssumption, AcpInv, RequestsHold, ChannelHolds, AcpOutside
    <2>2. private = {}
      BY <2>1 DEF AcpInv, AcpTypes, RequestsHold, ChannelHolds
    <2>3. ASSUME NEW i \in 1..Len(channel')
          PROVE  /\ caller[channel'[i]] \in {"waiting", "dropped"}
                 /\ channel'[i] # t
                 /\ EventsOf(events, channel'[i]) = {}
                 /\ \A j \in 1..Len(channel') : channel'[i] = channel'[j] => i = j
      <3>1. i + 1 \in 1..Len(channel) /\ channel'[i] = channel[i + 1] /\ i + 1 # 1
        BY <1>3
      <3>2. \A j \in 1..Len(channel') : channel'[i] = channel'[j] => i + 1 = j + 1
        BY <1>3, <3>1 DEF AcpInv, RequestsHold, ChannelHolds
      <3>3. \A j \in 1..Len(channel') : channel'[i] = channel'[j] => i = j
        BY <3>2
      <3> QED  BY <1>6, <3>1, <3>3 DEF AcpInv, RequestsHold, ChannelHolds
    <2>4. worker'.at \notin AcpOutside /\ worker'.at # "stopped"
      BY <1>5 DEF AcpOutside
    <2>5. caller' = caller /\ events' = events /\ private' = private
      BY <1>1
    <2>6. ChannelHolds'
      BY <1>5, <2>3, <2>5 DEF ChannelHolds
    <2>7. private' \subseteq {worker'.turn}
      BY <2>2, <2>5
    <2>8. worker'.turn = Nobody <=> worker'.at \in AcpOutside
      BY <1>5, <2>1, <2>4
    <2>9. /\ worker'.entry /\ worker'.at # "stopped"
          /\ caller'[worker'.turn] \in {"waiting", "dropped"}
      BY <1>5, <1>6, <2>1, <2>4, <2>5
    <2> QED  BY <2>6, <2>7, <2>8, <2>9 DEF RequestsHold
  <1>9. CallersHold' /\ LogHolds'
    BY <1>1 DEF AcpInv, CallersHold, LogHolds
  <1>10. RunningHolds'
    BY <1>1, <1>5, <1>6 DEF RunningHolds
  <1>11. BuffersHold'
    <2>1. ChunksIn(events, t, Len(events)) = {}
      BY <1>6 DEF ChunksIn, EventsOf
    <2>2. Tells(events, <<>>, {})
      <3>1. Len(<<>>) = 0 /\ 1..0 = {}
        OBVIOUS
      <3>2. [k \in 1..0 |-> 0] \in [1..Len(<<>>) -> {}]
        BY <3>1
      <3> QED  BY <3>1, <3>2 DEF Tells
    <2>3. TextCap \in Nat
      BY TurnIsOne
    <2>4. /\ events' = events /\ text'.held = <<>> /\ ~text'.truncated /\ Len(text'.held) = 0
          /\ Len(transcript'.held) = 0
      BY <1>1, EmptyMeans
    <2>5. Tells(events', text'.held, ChunksIn(events', worker'.turn, Len(events')))
      BY <1>5, <2>1, <2>2, <2>4
    <2> QED  BY <2>3, <2>4, <2>5 DEF BuffersHold
  <1> QED  BY <1>7, <1>8, <1>9, <1>10, <1>11 DEF AcpInv

LEMMA TurnOverHolds == AcpInv /\ TurnOver => AcpInv'
  <1> SUFFICES ASSUME AcpInv, TurnOver PROVE AcpInv'
    OBVIOUS
  <1>1. /\ worker.at = "over" /\ private' = private \ {worker.turn}
        /\ worker' = [worker EXCEPT !.at = "free", !.turn = Nobody]
        /\ caller' = [caller EXCEPT ![worker.turn] = IF caller[worker.turn] = "waiting" THEN worker.result ELSE caller[worker.turn]]
        /\ UNCHANGED <<channel, text, events, transcript>>
    BY DEF TurnOver, WorkerIs
  <1>2. PICK t \in AcpTurns : t = worker.turn
    BY <1>1, TurnIsOne
  <1>3. /\ worker' \in WorkerSet /\ worker'.at = "free" /\ worker'.turn = Nobody /\ worker'.entry = worker.entry
        /\ Nobody \notin AcpTurns
    BY <1>1, TurnIsOne DEF AcpInv, AcpTypes, WorkerSet, AcpPlaces
  <1>4. /\ caller[t] \in {"waiting", "dropped"} /\ worker.result \in {"ok", "error"}
        /\ worker.result = "ok" <=> HasFinal(events, t)
    BY <1>1, <1>2 DEF AcpInv, RequestsHold, ChannelHolds, RunningHolds
  <1>5. /\ caller' \in [AcpTurns -> {"idle", "sending", "waiting", "dropped", "ok", "error"}]
        /\ caller'[t] \in {worker.result, "dropped"}
        /\ \A u \in AcpTurns : u # t => caller'[u] = caller[u]
    BY <1>1, <1>2, <1>4 DEF AcpInv, AcpTypes
  <1>6. AcpTypes'
    BY <1>1, <1>3, <1>5 DEF AcpInv, AcpTypes, WorkerSet
  <1>7. RequestsHold'
    <2>1. \A i \in 1..Len(channel) : channel[i] \in AcpTurns /\ channel[i] # t
      BY <1>2 DEF AcpInv, AcpTypes, RequestsHold, ChannelHolds
    <2>2. private' = {} /\ worker.entry
      BY <1>1 DEF AcpInv, RequestsHold, ChannelHolds
    <2> QED  BY <1>1, <1>3, <1>5, <2>1, <2>2 DEF AcpInv, RequestsHold, ChannelHolds, AcpOutside
  <1>8. CallersHold'
    <2> SUFFICES ASSUME NEW u \in AcpTurns
                 PROVE  /\ caller'[u] \in {"idle", "sending"} => EventsOf(events, u) = {}
                        /\ caller'[u] = "ok" => HasFinal(events, u)
                        /\ caller'[u] = "error" => ~HasFinal(events, u)
      BY <1>1 DEF CallersHold
    <2>1. CASE u = t
      BY <1>4, <1>5, <2>1
    <2>2. CASE u # t
      BY <1>5, <2>2 DEF AcpInv, CallersHold
    <2> QED  BY <2>1, <2>2
  <1>9. RunningHolds'
    <2>1. \A i \in EventsOf(events, Nobody) : FALSE
      <3>1. \A i \in 1..Len(events) : events[i] \in AcpSaid
        BY DEF AcpInv, AcpTypes
      <3> QED  BY <1>3, <3>1 DEF EventsOf, AcpSaid
    <2> QED  BY <1>1, <1>3, <2>1 DEF RunningHolds
  <1>10. BuffersHold' /\ LogHolds'
    BY <1>1, <1>3 DEF AcpInv, BuffersHold, LogHolds, AcpOpen, AcpTelling
  <1> QED  BY <1>6, <1>7, <1>8, <1>9, <1>10 DEF AcpInv

\* Outside a turn the log and the buffers hold whatever the worker does next.
LEMMA OutsideStays ==
  ASSUME AcpInv, worker.at \in AcpOutside, worker'.at \in AcpOutside, worker'.turn = worker.turn,
         UNCHANGED <<text, events, transcript>>
  PROVE  RunningHolds' /\ BuffersHold' /\ LogHolds'
  BY DEF AcpInv, RunningHolds, BuffersHold, LogHolds, AcpOpen, AcpTelling, AcpOutside

LEMMA ChannelStays ==
  ASSUME AcpInv, UNCHANGED <<caller, channel, events>>, worker'.turn = worker.turn
  PROVE  ChannelHolds'
  <1>1. ChannelHolds
    BY DEF AcpInv, RequestsHold
  <1> QED  BY <1>1 DEF ChannelHolds

LEMMA BootHolds == AcpInv /\ Boot => AcpInv'
  <1> SUFFICES ASSUME AcpInv, Boot PROVE AcpInv'
    OBVIOUS
  <1>1. worker.at = "boot" /\ UNCHANGED <<text, private, events, transcript>> /\ worker.entry
    BY DEF Boot, WorkerIs, AcpInv, RequestsHold, ChannelHolds
  <1>2. ASSUME NEW s \in {"free", "stopped"}, Goes(s)
        PROVE  /\ worker' \in WorkerSet /\ worker'.at = s /\ worker'.turn = worker.turn /\ worker'.entry
               /\ RunningHolds' /\ BuffersHold' /\ LogHolds'
    <2>1. worker' \in WorkerSet /\ worker'.at = s /\ worker'.turn = worker.turn /\ worker'.entry = worker.entry
      BY <1>2, WentMeans DEF AcpPlaces
    <2>2. RunningHolds' /\ BuffersHold' /\ LogHolds'
      BY <1>1, <2>1, OutsideStays DEF AcpOutside
    <2> QED  BY <1>1, <2>1, <2>2
  <1>3. worker.turn = Nobody /\ Nobody \notin AcpTurns
    BY <1>1, TurnIsOne DEF AcpInv, RequestsHold, AcpOutside
  <1>4. CASE Goes("free") /\ UNCHANGED <<caller, channel>>
    <2>1. /\ worker' \in WorkerSet /\ worker'.at = "free" /\ worker'.turn = worker.turn /\ worker'.entry
          /\ RunningHolds' /\ BuffersHold' /\ LogHolds'
      BY <1>2, <1>4
    <2>2. AcpTypes' /\ CallersHold'
      BY <1>1, <1>4, <2>1 DEF AcpInv, AcpTypes, CallersHold, WorkerSet
    <2>3. ChannelHolds'
      BY <1>1, <1>4, <2>1, ChannelStays
    <2>4. RequestsHold'
      BY <1>1, <1>3, <1>4, <2>1, <2>3 DEF AcpInv, RequestsHold, AcpOutside
    <2> QED  BY <2>1, <2>2, <2>4 DEF AcpInv
  <1>5. CASE /\ Goes("stopped") /\ channel' = <<>>
             /\ caller' = [t \in AcpTurns |->
                            IF t \in ToSet(channel) /\ caller[t] = "waiting" THEN "error" ELSE caller[t]]
    <2>1. /\ channel' = <<>>
          /\ caller' = [t \in AcpTurns |->
                         IF t \in ToSet(channel) /\ caller[t] = "waiting" THEN "error" ELSE caller[t]]
          /\ worker' \in WorkerSet /\ worker'.at = "stopped" /\ worker'.turn = worker.turn /\ worker'.entry
          /\ RunningHolds' /\ BuffersHold' /\ LogHolds'
      BY <1>2, <1>5
    <2>2. AcpTypes'
      <3>1. Len(channel') = 0 /\ channel' \in Seq(AcpTurns) /\ ChannelCap \in Nat
        BY <2>1, AcpAssumption DEF AcpAssumption
      <3> QED  BY <1>1, <2>1, <3>1 DEF AcpInv, AcpTypes, WorkerSet
    <2>3. RequestsHold'
      <3>1. Len(channel') = 0
        BY <2>1
      <3>2. ChannelHolds'
        BY <3>1 DEF ChannelHolds
      <3> QED  BY <1>1, <1>3, <2>1, <3>2 DEF AcpInv, RequestsHold, AcpOutside
    <2>4. CallersHold'
      <3> SUFFICES ASSUME NEW t \in AcpTurns
                   PROVE  /\ caller'[t] \in {"idle", "sending"} => EventsOf(events, t) = {}
                          /\ caller'[t] = "ok" => HasFinal(events, t)
                          /\ caller'[t] = "error" => ~HasFinal(events, t)
        BY <1>1 DEF CallersHold
      <3>1. CASE t \in ToSet(channel) /\ caller[t] = "waiting"
        <4>1. PICK i \in 1..Len(channel) : channel[i] = t
          BY <3>1 DEF ToSet, AcpInv, AcpTypes
        <4>2. EventsOf(events, t) = {}
          BY <4>1 DEF AcpInv, RequestsHold, ChannelHolds
        <4> QED  BY <2>1, <3>1, <4>2 DEF HasFinal
      <3>2. CASE ~(t \in ToSet(channel) /\ caller[t] = "waiting")
        BY <2>1, <3>2 DEF AcpInv, CallersHold
      <3> QED  BY <3>1, <3>2
    <2> QED  BY <2>1, <2>2, <2>3, <2>4 DEF AcpInv
  <1> QED  BY <1>4, <1>5 DEF Boot

\* A caller that moves while the log and the buffers stay.
LEMMA CallerMoves ==
  ASSUME AcpInv, NEW t \in AcpTurns, NEW c \in {"sending", "waiting", "dropped", "error"},
         caller' = [caller EXCEPT ![t] = c], UNCHANGED events,
         c = "sending" => caller[t] = "idle",
         c = "error" => caller[t] = "sending"
  PROVE  /\ caller' \in [AcpTurns -> {"idle", "sending", "waiting", "dropped", "ok", "error"}]
         /\ CallersHold'
         /\ caller'[t] = c /\ \A u \in AcpTurns : u # t => caller'[u] = caller[u]
  <1>1. caller' \in [AcpTurns -> {"idle", "sending", "waiting", "dropped", "ok", "error"}]
    BY DEF AcpInv, AcpTypes
  <1>2. caller'[t] = c /\ \A u \in AcpTurns : u # t => caller'[u] = caller[u]
    BY DEF AcpInv, AcpTypes
  <1>3. c \in {"sending", "error"} => EventsOf(events, t) = {} /\ ~HasFinal(events, t)
    BY DEF AcpInv, CallersHold, HasFinal
  <1> QED  BY <1>1, <1>2, <1>3 DEF AcpInv, CallersHold

LEMMA SenderHolds == ASSUME AcpInv, NEW t \in AcpTurns, SenderForSession(t) PROVE AcpInv'
  <1>1. /\ caller[t] = "idle" /\ caller' = [caller EXCEPT ![t] = "sending"]
        /\ worker' = IF worker.entry THEN worker ELSE [worker EXCEPT !.entry = TRUE, !.at = "boot"]
        /\ UNCHANGED <<channel, text, private, events, transcript>>
    BY DEF SenderForSession
  <1>2. /\ caller' \in [AcpTurns -> {"idle", "sending", "waiting", "dropped", "ok", "error"}]
        /\ CallersHold' /\ \A u \in AcpTurns : u # t => caller'[u] = caller[u]
    BY <1>1, CallerMoves
  <1>3. /\ worker' \in WorkerSet /\ worker'.turn = worker.turn /\ worker'.entry /\ worker'.result = worker.result
        /\ worker'.at = IF worker.entry THEN worker.at ELSE "boot"
    <2>1. CASE worker.entry
      BY <1>1, <2>1 DEF AcpInv, AcpTypes, WorkerSet
    <2>2. CASE ~worker.entry
      <3>1. PICK yes \in BOOLEAN : yes = TRUE
        OBVIOUS
      <3>2. worker' = [worker EXCEPT !.entry = yes, !.at = "boot"]
        BY <1>1, <2>2, <3>1, Zenon
      <3>3. worker' \in WorkerSet /\ worker'.turn = worker.turn /\ worker'.entry = yes /\ worker'.result = worker.result
            /\ worker'.at = "boot"
        BY <3>2 DEF AcpInv, AcpTypes, WorkerSet, AcpPlaces
      <3> QED  BY <2>2, <3>1, <3>3
    <2> QED  BY <2>1, <2>2
  <1>4. AcpTypes'
    BY <1>1, <1>2, <1>3 DEF AcpInv, AcpTypes, WorkerSet
  <1>5. worker.entry \/ worker.at = "stopped"
    BY DEF AcpInv, RequestsHold, ChannelHolds
  <1>6. RequestsHold'
    <2>1. \A i \in 1..Len(channel) : channel[i] \in AcpTurns /\ channel[i] # t
      BY <1>1 DEF AcpInv, AcpTypes, RequestsHold, ChannelHolds
    <2>2. worker.turn # t
      BY <1>1 DEF AcpInv, AcpTypes, RequestsHold, ChannelHolds
    <2>3. ChannelHolds'
      BY <1>1, <1>2, <1>3, <2>1 DEF AcpInv, RequestsHold, ChannelHolds
    <2>4. worker'.turn \in AcpTurns => caller'[worker'.turn] \in {"waiting", "dropped"}
      BY <1>2, <1>3, <2>2 DEF AcpInv, RequestsHold
    <2>5. /\ worker'.turn = Nobody <=> worker'.at \in AcpOutside
          /\ worker'.at = "stopped" => channel' = <<>>
      BY <1>1, <1>3, <1>5 DEF AcpInv, RequestsHold, AcpOutside
    <2> QED  BY <1>1, <1>3, <2>3, <2>4, <2>5 DEF AcpInv, RequestsHold
  <1>7. RunningHolds' /\ BuffersHold' /\ LogHolds'
    BY <1>1, <1>3, <1>5 DEF AcpInv, RunningHolds, BuffersHold, LogHolds, AcpOpen, AcpTelling
  <1> QED  BY <1>2, <1>4, <1>6, <1>7 DEF AcpInv

LEMMA SendHolds == ASSUME AcpInv, NEW t \in AcpTurns, SendRequest(t) PROVE AcpInv'
  <1>1. caller[t] = "sending" /\ UNCHANGED <<text, private, events, transcript>>
    BY DEF SendRequest
  <1>2. EventsOf(events, t) = {} /\ worker.turn # t /\ \A i \in 1..Len(channel) : channel[i] \in AcpTurns /\ channel[i] # t
    BY <1>1 DEF AcpInv, AcpTypes, CallersHold, RequestsHold, ChannelHolds
  <1>3. CASE /\ worker.at # "stopped" /\ Len(channel) < ChannelCap
             /\ channel' = Append(channel, t) /\ caller' = [caller EXCEPT ![t] = "waiting"] /\ UNCHANGED worker
    <2>1. /\ caller' \in [AcpTurns -> {"idle", "sending", "waiting", "dropped", "ok", "error"}]
          /\ CallersHold' /\ caller'[t] = "waiting" /\ \A u \in AcpTurns : u # t => caller'[u] = caller[u]
      BY <1>1, <1>3, CallerMoves
    <2>2. /\ channel' \in Seq(AcpTurns) /\ Len(channel') = Len(channel) + 1 /\ Len(channel) \in Nat
          /\ channel'[Len(channel) + 1] = t /\ \A i \in 1..Len(channel) : channel'[i] = channel[i]
      BY <1>3 DEF AcpInv, AcpTypes
    <2>3. AcpTypes'
      <3>1. Len(channel') <= ChannelCap
        BY <1>3, <2>2, AcpAssumption DEF AcpAssumption
      <3> QED  BY <1>1, <1>3, <2>1, <2>2, <3>1 DEF AcpInv, AcpTypes
    <2>4. RequestsHold'
      <3>1. ASSUME NEW i \in 1..Len(channel')
            PROVE  /\ caller'[channel'[i]] \in {"waiting", "dropped"}
                   /\ channel'[i] # worker.turn
                   /\ EventsOf(events, channel'[i]) = {}
                   /\ \A j \in 1..Len(channel') : channel'[i] = channel'[j] => i = j
        <4>1. CASE i = Len(channel) + 1
          <5>1. \A j \in 1..Len(channel') : channel'[j] = t => j = Len(channel) + 1
            BY <1>2, <2>2
          <5> QED  BY <1>2, <2>1, <2>2, <4>1, <5>1
        <4>2. CASE i \in 1..Len(channel)
          <5>1. channel'[i] = channel[i] /\ channel[i] # t /\ channel[i] \in AcpTurns
            BY <1>2, <2>2, <4>2
          <5>2. \A j \in 1..Len(channel') : channel'[i] = channel'[j] => i = j
            <6> SUFFICES ASSUME NEW j \in 1..Len(channel'), channel'[i] = channel'[j] PROVE i = j
              OBVIOUS
            <6>1. j \in 1..Len(channel) /\ channel'[j] = channel[j]
              <7>1. j # Len(channel) + 1
                BY <2>2, <5>1
              <7> QED  BY <2>2, <7>1
            <6> QED  BY <4>2, <5>1, <6>1 DEF AcpInv, RequestsHold, ChannelHolds
          <5> QED  BY <2>1, <4>2, <5>1, <5>2 DEF AcpInv, RequestsHold, ChannelHolds
        <4> QED  BY <2>2, <4>1, <4>2
      <3>2. ChannelHolds'
        BY <1>1, <1>3, <3>1 DEF ChannelHolds
      <3> QED  BY <1>1, <1>2, <1>3, <2>1, <3>2 DEF AcpInv, RequestsHold
    <2>5. RunningHolds' /\ BuffersHold' /\ LogHolds'
      BY <1>1, <1>3 DEF AcpInv, RunningHolds, BuffersHold, LogHolds
    <2> QED  BY <2>1, <2>3, <2>4, <2>5 DEF AcpInv
  <1>4. CASE /\ worker.at = "stopped" /\ worker' = [worker EXCEPT !.entry = FALSE]
             /\ caller' = [caller EXCEPT ![t] = "error"] /\ UNCHANGED channel
    <2>1. /\ caller' \in [AcpTurns -> {"idle", "sending", "waiting", "dropped", "ok", "error"}]
          /\ CallersHold' /\ caller'[t] = "error" /\ \A u \in AcpTurns : u # t => caller'[u] = caller[u]
      BY <1>1, <1>4, CallerMoves
    <2>2. worker' \in WorkerSet /\ worker'.at = "stopped" /\ worker'.turn = worker.turn
      <3>1. PICK no \in BOOLEAN : no = FALSE
        OBVIOUS
      <3>2. worker' = [worker EXCEPT !.entry = no]
        BY <1>4, <3>1, Zenon
      <3> QED  BY <1>4, <3>2 DEF AcpInv, AcpTypes, WorkerSet
    <2>3. AcpTypes'
      BY <1>1, <1>4, <2>1, <2>2 DEF AcpInv, AcpTypes, WorkerSet
    <2>4. RequestsHold'
      <3>1. channel = <<>> /\ Len(channel) = 0 /\ worker.turn = Nobody /\ Nobody \notin AcpTurns
        BY <1>4, TurnIsOne DEF AcpInv, RequestsHold, ChannelHolds, AcpOutside
      <3> QED  BY <1>1, <1>4, <2>1, <2>2, <3>1 DEF AcpInv, RequestsHold, ChannelHolds, AcpOutside
    <2>5. RunningHolds' /\ BuffersHold' /\ LogHolds'
      BY <1>1, <1>4, <2>2, OutsideStays DEF AcpOutside
    <2> QED  BY <2>1, <2>3, <2>4, <2>5 DEF AcpInv
  <1> QED  BY <1>3, <1>4 DEF SendRequest, WorkerIs

LEMMA DropHolds == ASSUME AcpInv, NEW t \in AcpTurns, CallerDrops(t) \/ ClaimLost(t) PROVE AcpInv'
  <1>1. UNCHANGED <<worker, channel, text, private, events, transcript>>
    BY DEF CallerDrops, ClaimLost
  <1>2. CASE CallerDrops(t)
    <2>1. caller[t] \in {"sending", "waiting"} /\ caller' = [caller EXCEPT ![t] = "dropped"]
      BY <1>2 DEF CallerDrops
    <2>2. /\ caller' \in [AcpTurns -> {"idle", "sending", "waiting", "dropped", "ok", "error"}]
          /\ CallersHold' /\ caller'[t] = "dropped" /\ \A u \in AcpTurns : u # t => caller'[u] = caller[u]
      BY <1>1, <2>1, CallerMoves
    <2>3. AcpTypes'
      BY <1>1, <2>2 DEF AcpInv, AcpTypes
    <2>4. RequestsHold'
      <3>1. \A i \in 1..Len(channel) : channel[i] \in AcpTurns
        BY DEF AcpInv, AcpTypes
      <3> QED  BY <1>1, <2>2, <3>1, SMTT(30) DEF AcpInv, RequestsHold, ChannelHolds
    <2>5. RunningHolds' /\ BuffersHold' /\ LogHolds'
      BY <1>1 DEF AcpInv, RunningHolds, BuffersHold, LogHolds
    <2> QED  BY <2>2, <2>3, <2>4, <2>5 DEF AcpInv
  <1>3. CASE ClaimLost(t)
    <2>1. UNCHANGED caller
      BY <1>3 DEF ClaimLost
    <2>2. AcpTypes' /\ CallersHold'
      BY <1>1, <2>1 DEF AcpInv, AcpTypes, CallersHold
    <2>3. RequestsHold'
      BY <1>1, <2>1, ChannelStays DEF AcpInv, RequestsHold
    <2>4. RunningHolds' /\ BuffersHold' /\ LogHolds'
      BY <1>1, <2>1 DEF AcpInv, RunningHolds, BuffersHold, LogHolds
    <2> QED  BY <2>2, <2>3, <2>4 DEF AcpInv
  <1> QED  BY <1>2, <1>3

-----------------------------------------------------------------------------
(* The prompt files that nobody owns.                                      *)

StrayHolds ==
  /\ stray \subseteq AcpTurns
  /\ worker.at = "setup" => private = {} /\ EventsOf(events, worker.turn) = {}
  /\ \A t \in stray :
       /\ caller[t] \in {"waiting", "dropped", "error"} /\ t \notin private
       /\ EventsOf(events, t) = {}
       /\ \A i \in 1..Len(channel) : channel[i] # t
       /\ worker.turn = t => worker.at = "over" /\ worker.result = "error"

\* A step of a turn past its set-up: its worker's turn is not one of them.
LEMMA StrayApart ==
  ASSUME AcpInv, StrayHolds, worker.at # "over", worker'.at # "setup", worker'.turn = worker.turn,
         UNCHANGED <<caller, channel, private, stray>>,
         events' = events \/ \E e \in AcpSaid : e.turn = worker.turn /\ events' = Append(events, e)
  PROVE  StrayHolds'
  <1>1. events \in Seq(AcpSaid)
    BY DEF AcpInv, AcpTypes
  <1>2. \A t \in stray : t # worker.turn
    BY DEF StrayHolds
  <1>3. \A t \in stray : EventsOf(events', t) = EventsOf(events, t)
    <2>1. ASSUME NEW e \in AcpSaid, e.turn = worker.turn, events' = Append(events, e)
          PROVE  \A t \in stray : EventsOf(events', t) = EventsOf(events, t)
      BY <1>1, <1>2, <2>1, EventsGrow
    <2>2. CASE events' = events
      BY <2>2
    <2> QED  BY <2>1, <2>2
  <1> QED  BY <1>2, <1>3 DEF StrayHolds

LEMMA EmittedIsSaid ==
  ASSUME AcpInv, worker.at \in AcpOpen, NEW kind \in AcpKinds,
         NEW of \in {"none"} \cup AcpChunks \cup AcpTexts \cup AcpTranscripts, Emitted(kind, of)
  PROVE  \E e \in AcpSaid : e.turn = worker.turn /\ events' = Append(events, e)
  <1>1. worker.turn \in AcpTurns
    BY TurnIsOne
  <1>2. [turn |-> worker.turn, kind |-> kind, of |-> of] \in AcpSaid
    BY <1>1 DEF AcpSaid
  <1> QED  BY <1>2 DEF Emitted

LEMMA StraySetUp == AcpInv /\ StrayHolds /\ SetUp => StrayHolds'
  <1> SUFFICES ASSUME AcpInv, StrayHolds, SetUp PROVE StrayHolds'
    OBVIOUS
  <1>1. worker.at = "setup" /\ UNCHANGED <<caller, channel, events>>
    BY DEF SetUp, WorkerIs
  <1>2. worker.turn \in AcpTurns /\ caller[worker.turn] \in {"waiting", "dropped"}
        /\ \A i \in 1..Len(channel) : channel[i] # worker.turn
    BY <1>1, TurnIsOne DEF AcpInv, RequestsHold, ChannelHolds, AcpOpen, AcpTelling
  <1>3. /\ \A t \in stray : t # worker.turn
        /\ private = {} /\ EventsOf(events, worker.turn) = {}
    BY <1>1 DEF StrayHolds
  <1>4. worker \in WorkerSet
    BY DEF AcpInv, AcpTypes, WorkerSet
  <1>5. CASE Goes("connect") /\ private' = private \cup {worker.turn} /\ UNCHANGED stray
    <2>1. worker'.at = "connect" /\ worker'.turn = worker.turn
      BY <1>4, <1>5 DEF Goes, WorkerSet
    <2> QED  BY <1>1, <1>3, <1>5, <2>1 DEF StrayHolds
  <1>6. CASE TurnFails /\ UNCHANGED private /\ stray' \subseteq stray \cup {worker.turn}
    <2>1. worker'.at = "over" /\ worker'.turn = worker.turn /\ worker'.result = "error"
      BY <1>4, <1>6 DEF TurnFails, WorkerSet
    <2> QED  BY <1>1, <1>2, <1>3, <1>6, <2>1 DEF StrayHolds
  <1> QED  BY <1>5, <1>6 DEF SetUp, PromptsRefused, PromptLeftBehind

LEMMA StrayTurnStep ==
  ASSUME AcpInv, StrayHolds, StartOmp \/ Update \/ AskPermission \/ Permitted \/ PromptReturns \/ WriteTranscript \/ EmitFinal
  PROVE  StrayHolds'
  <1>1. /\ worker \in WorkerSet /\ text \in AcpTexts /\ transcript \in AcpTranscripts
        /\ worker.at \in {"connect", "prompt", "asking", "artifact", "final"}
        /\ UNCHANGED <<caller, channel, private, stray>>
    BY DEF AcpInv, AcpTypes, WorkerSet, StartOmp, Update, AskPermission, Permitted, PromptReturns, WriteTranscript,
           EmitFinal, WorkerIs
  <1>2. worker.at \in AcpOpen /\ worker.at # "over" /\ worker.turn \in AcpTurns /\ worker.sent \in Nat
    BY <1>1, TurnIsOne DEF AcpOpen, AcpTelling, WorkerSet
  <1>3. worker'.at # "setup" /\ worker'.turn = worker.turn
    <2>1. ASSUME NEW s, Goes(s) PROVE worker'.at = s /\ worker'.turn = worker.turn
      BY <1>1, <2>1 DEF Goes, WorkerSet
    <2>2. TurnFails => worker'.at = "over" /\ worker'.turn = worker.turn
      BY <1>1 DEF TurnFails, WorkerSet
    <2>3. worker' = [worker EXCEPT !.sent = worker.sent + 1] => worker'.at = worker.at /\ worker'.turn = worker.turn
      BY <1>1 DEF WorkerSet
    <2>4. worker' = [worker EXCEPT !.at = "asking", !.sent = worker.sent + 1] => worker'.at = "asking" /\ worker'.turn = worker.turn
      BY <1>1 DEF WorkerSet
    <2>5. worker' = [worker EXCEPT !.at = "over", !.result = "ok"] => worker'.at = "over" /\ worker'.turn = worker.turn
      BY <1>1 DEF WorkerSet
    <2>6. CASE StartOmp
      BY <2>1, <2>2, <2>6 DEF StartOmp
    <2>7. CASE Update
      BY <1>1, <2>2, <2>3, <2>7 DEF Update
    <2>8. CASE AskPermission
      BY <2>2, <2>4, <2>8 DEF AskPermission
    <2>9. CASE Permitted
      BY <2>1, <2>2, <2>9 DEF Permitted
    <2>10. CASE PromptReturns
      BY <2>1, <2>2, <2>10 DEF PromptReturns
    <2>11. CASE WriteTranscript
      BY <2>1, <2>2, <2>11 DEF WriteTranscript
    <2>12. CASE EmitFinal
      BY <2>2, <2>5, <2>12 DEF EmitFinal
    <2> QED  BY <2>6, <2>7, <2>8, <2>9, <2>10, <2>11, <2>12
  <1>4. \/ events' = events
        \/ \E kind \in AcpKinds, of \in {"none"} \cup AcpChunks \cup AcpTexts \cup AcpTranscripts : Emitted(kind, of)
    <2>1. CASE Update
      <3>1. <<worker.turn, worker.sent + 1>> \in AcpChunks
        BY <1>2 DEF AcpChunks
      <3> QED  BY <2>1, <3>1 DEF Update, AcpKinds
    <2>2. CASE StartOmp \/ AskPermission \/ Permitted \/ PromptReturns
      BY <2>2 DEF StartOmp, AskPermission, Permitted, PromptReturns, AcpKinds
    <2>3. CASE WriteTranscript \/ EmitFinal
      BY <1>1, <2>3 DEF WriteTranscript, EmitFinal, AcpKinds
    <2> QED  BY <2>1, <2>2, <2>3
  <1>5. events' = events \/ \E e \in AcpSaid : e.turn = worker.turn /\ events' = Append(events, e)
    BY <1>2, <1>4, EmittedIsSaid
  <1> QED  BY <1>1, <1>2, <1>3, <1>5, StrayApart

LEMMA StrayTakeRequest == AcpInv /\ StrayHolds /\ TakeRequest => StrayHolds'
  <1> SUFFICES ASSUME AcpInv, StrayHolds, TakeRequest PROVE StrayHolds'
    OBVIOUS
  <1>1. /\ worker.at = "free" /\ channel # <<>> /\ channel' = Tail(channel)
        /\ worker' = [worker EXCEPT !.at = "setup", !.turn = Head(channel), !.result = "none", !.sent = 0]
        /\ UNCHANGED <<caller, private, events, stray>>
    BY DEF TakeRequest, WorkerIs
  <1>2. channel \in Seq(AcpTurns) /\ worker \in WorkerSet
    BY DEF AcpInv, AcpTypes, WorkerSet
  <1>3. /\ Head(channel) = channel[1] /\ 1 \in 1..Len(channel) /\ channel[1] \in AcpTurns
        /\ \A i \in 1..Len(channel') : i + 1 \in 1..Len(channel) /\ channel'[i] = channel[i + 1]
    BY <1>1, <1>2
  <1>4. worker'.turn = channel[1] /\ worker'.at = "setup"
    <2>1. PICK t \in AcpTurns : t = channel[1]
      BY <1>3
    <2>2. worker' = [worker EXCEPT !.at = "setup", !.turn = t, !.result = "none", !.sent = 0]
      BY <1>1, <1>3, <2>1
    <2> QED  BY <1>2, <2>1, <2>2 DEF WorkerSet
  <1>5. EventsOf(events, channel[1]) = {} /\ private = {}
    <2>1. worker.turn = Nobody /\ Nobody \notin AcpTurns
      BY <1>1, AcpAssumption DEF AcpAssumption, AcpInv, RequestsHold, AcpOutside
    <2>2. private = {}
      BY <2>1 DEF AcpInv, AcpTypes, RequestsHold
    <2>3. EventsOf(events, channel[1]) = {}
      BY <1>3 DEF AcpInv, RequestsHold, ChannelHolds
    <2> QED  BY <2>2, <2>3
  <1> QED  BY <1>1, <1>3, <1>4, <1>5 DEF StrayHolds

LEMMA StrayTurnOver == AcpInv /\ StrayHolds /\ TurnOver => StrayHolds'
  <1> SUFFICES ASSUME AcpInv, StrayHolds, TurnOver PROVE StrayHolds'
    OBVIOUS
  <1>1. /\ worker.at = "over" /\ private' = private \ {worker.turn}
        /\ worker' = [worker EXCEPT !.at = "free", !.turn = Nobody]
        /\ caller' = [caller EXCEPT ![worker.turn] = IF caller[worker.turn] = "waiting" THEN worker.result ELSE caller[worker.turn]]
        /\ UNCHANGED <<channel, events, stray>>
    BY DEF TurnOver, WorkerIs
  <1>2. worker \in WorkerSet /\ caller \in [AcpTurns -> {"idle", "sending", "waiting", "dropped", "ok", "error"}]
        /\ Nobody \notin AcpTurns
    BY AcpAssumption DEF AcpAssumption, AcpInv, AcpTypes, WorkerSet
  <1>3. worker'.turn = Nobody /\ worker'.at = "free"
    BY <1>1, <1>2 DEF WorkerSet
  <1> QED  BY <1>1, <1>2, <1>3 DEF StrayHolds

LEMMA StrayCallers ==
  ASSUME AcpInv, StrayHolds, NEW t \in AcpTurns, SenderForSession(t) \/ SendRequest(t) \/ CallerDrops(t) \/ ClaimLost(t)
  PROVE  StrayHolds'
  <1>1. /\ worker \in WorkerSet /\ caller \in [AcpTurns -> {"idle", "sending", "waiting", "dropped", "ok", "error"}]
        /\ channel \in Seq(AcpTurns) /\ UNCHANGED <<private, events, stray>>
    BY DEF AcpInv, AcpTypes, WorkerSet, SenderForSession, SendRequest, CallerDrops, ClaimLost
  <1>2. CASE SenderForSession(t)
    <2>1. UNCHANGED channel /\ caller[t] = "idle" /\ caller' = [caller EXCEPT ![t] = "sending"]
      BY <1>2 DEF SenderForSession
    <2>2. worker' = worker \/ (worker'.at = "boot" /\ worker'.turn = worker.turn /\ worker.at = "stopped")
      BY <1>1, <1>2 DEF SenderForSession, WorkerSet, AcpInv, RequestsHold
    <2> QED  BY <1>1, <2>1, <2>2 DEF StrayHolds
  <1>3. CASE SendRequest(t)
    <2>1. caller[t] = "sending" /\ (caller' = [caller EXCEPT ![t] = "waiting"] \/ caller' = [caller EXCEPT ![t] = "error"])
      BY <1>3 DEF SendRequest
    <2>2. worker'.at = worker.at /\ worker'.turn = worker.turn /\ worker'.result = worker.result
      BY <1>1, <1>3 DEF SendRequest, WorkerSet
    <2>3. channel' = channel \/ channel' = Append(channel, t)
      BY <1>3 DEF SendRequest
    <2>4. t \notin stray
      BY <2>1 DEF StrayHolds
    <2>5. \A i \in 1..Len(channel') : channel'[i] = t \/ \E j \in 1..Len(channel) : channel'[i] = channel[j]
      BY <1>1, <2>3
    <2> QED  BY <1>1, <2>1, <2>2, <2>4, <2>5 DEF StrayHolds
  <1>4. CASE CallerDrops(t) \/ ClaimLost(t)
    BY <1>1, <1>4 DEF CallerDrops, ClaimLost, StrayHolds
  <1> QED  BY <1>2, <1>3, <1>4

LEMMA StrayBoot == AcpInv /\ StrayHolds /\ Boot => StrayHolds'
  <1> SUFFICES ASSUME AcpInv, StrayHolds, Boot PROVE StrayHolds'
    OBVIOUS
  <1>1. /\ worker \in WorkerSet /\ worker.at = "boot" /\ UNCHANGED <<private, events, stray>>
        /\ stray \subseteq AcpTurns
    BY DEF AcpInv, AcpTypes, WorkerSet, Boot, WorkerIs, StrayHolds
  <1>2. worker'.turn = worker.turn /\ worker'.at \in {"free", "stopped"}
    BY <1>1 DEF Boot, Goes, WorkerSet
  <1>3. \A t \in stray : t # worker.turn
    BY <1>1 DEF StrayHolds
  <1>4. CASE UNCHANGED <<caller, channel>>
    BY <1>1, <1>2, <1>3, <1>4 DEF StrayHolds
  <1>5. CASE /\ channel' = <<>>
             /\ caller' = [t \in AcpTurns |->
                            IF t \in ToSet(channel) /\ caller[t] = "waiting" THEN "error" ELSE caller[t]]
    <2>1. \A t \in stray : caller'[t] \in {"waiting", "dropped", "error"}
      BY <1>1, <1>5 DEF StrayHolds
    <2>2. 1..Len(channel') = {}
      BY <1>5
    <2> QED  BY <1>1, <1>2, <1>3, <2>1, <2>2 DEF StrayHolds
  <1> QED  BY <1>4, <1>5 DEF Boot

LEMMA StrayNextHolds == AcpInv /\ StrayHolds /\ [AcpNext]_acpVars => StrayHolds'
  <1>1. AcpInv /\ StrayHolds /\ UNCHANGED acpVars => StrayHolds'
    BY DEF acpVars, StrayHolds
  <1> QED  BY <1>1, StrayCallers, StrayBoot, StrayTakeRequest, StraySetUp, StrayTurnStep, StrayTurnOver DEF AcpNext, WorkerStep

-----------------------------------------------------------------------------

LEMMA AcpInitHolds == AcpInit => AcpInv /\ StrayHolds
  <1> SUFFICES ASSUME AcpInit PROVE AcpInv /\ StrayHolds
    OBVIOUS
  <1>1. /\ caller = [t \in AcpTurns |-> "idle"]
        /\ worker = [at |-> "stopped", entry |-> FALSE, turn |-> Nobody, result |-> "none", sent |-> 0]
        /\ channel = <<>> /\ text = Empty /\ transcript = Empty /\ private = {} /\ stray = {} /\ events = <<>>
    BY DEF AcpInit
  <1>2. /\ Nobody \notin AcpTurns /\ ChannelCap \in Nat /\ Len(channel) = 0 /\ Len(events) = 0
        /\ channel \in Seq(AcpTurns) /\ events \in Seq(AcpSaid)
    BY <1>1, AcpAssumption DEF AcpAssumption
  <1>3. /\ worker \in WorkerSet /\ worker.at = "stopped" /\ worker.turn = Nobody
    <2>1. PICK no \in BOOLEAN : no = FALSE
      OBVIOUS
    <2>2. worker = [at |-> "stopped", entry |-> no, turn |-> Nobody, result |-> "none", sent |-> 0]
      BY <1>1, <2>1, Zenon
    <2> QED  BY <2>2 DEF WorkerSet, AcpPlaces
  <1>4. AcpTypes
    BY <1>1, <1>2, <1>3, EmptyMeans DEF AcpTypes, WorkerSet
  <1>5. \A t : EventsOf(events, t) = {} /\ ~HasFinal(events, t)
    BY <1>2 DEF EventsOf, HasFinal
  <1>6. RequestsHold
    BY <1>1, <1>2, <1>3 DEF RequestsHold, ChannelHolds, AcpOutside
  <1>7. CallersHold
    BY <1>1, <1>5 DEF CallersHold
  <1>8. RunningHolds /\ BuffersHold /\ LogHolds
    BY <1>2, <1>3, <1>5 DEF RunningHolds, BuffersHold, LogHolds, AcpOpen, AcpTelling
  <1>9. StrayHolds
    BY <1>1, <1>3 DEF StrayHolds
  <1> QED  BY <1>4, <1>6, <1>7, <1>8, <1>9 DEF AcpInv

LEMMA AcpNextHolds == AcpInv /\ [AcpNext]_acpVars => AcpInv'
  <1> SUFFICES ASSUME AcpInv, [AcpNext]_acpVars PROVE AcpInv'
    OBVIOUS
  <1>1. ASSUME NEW t \in AcpTurns, SenderForSession(t) \/ SendRequest(t) \/ CallerDrops(t) \/ ClaimLost(t)
        PROVE  AcpInv'
    BY <1>1, SenderHolds, SendHolds, DropHolds
  <1>2. CASE WorkerStep
    BY <1>2, BootHolds, TakeRequestHolds, SetUpHolds, StartOmpHolds, PromptReturnsHolds, AskHolds,
       WriteTranscriptHolds, EmitFinalHolds, TurnOverHolds DEF WorkerStep
  <1>3. CASE Update \/ AskPermission
    BY <1>3, UpdateHolds, AskHolds
  <1>4. CASE UNCHANGED acpVars
    <2>1. UNCHANGED <<caller, worker, channel, text, transcript, private, events>>
      BY <1>4 DEF acpVars
    <2>2. AcpTypes'
      BY <2>1 DEF AcpInv, AcpTypes
    <2>3. RequestsHold' /\ CallersHold'
      BY <2>1 DEF AcpInv, RequestsHold, ChannelHolds, CallersHold
    <2>4. RunningHolds' /\ BuffersHold' /\ LogHolds'
      BY <2>1 DEF AcpInv, RunningHolds, BuffersHold, LogHolds
    <2> QED  BY <2>2, <2>3, <2>4 DEF AcpInv
  <1> QED  BY <1>1, <1>2, <1>3, <1>4 DEF AcpNext

LEMMA AcpInvMeans == AcpInv /\ StrayHolds => DelegationSafe
  <1> SUFFICES ASSUME AcpInv, StrayHolds PROVE DelegationSafe
    OBVIOUS
  <1>1. /\ DOMAIN events = 1..Len(events) /\ events \in Seq(AcpSaid)
        /\ \A i \in 1..Len(events) : events[i] \in AcpSaid
        /\ channel \in Seq(AcpTurns) /\ worker.turn \in AcpTurns \cup {Nobody} /\ Nobody \notin AcpTurns
    BY TurnIsOne DEF AcpInv, AcpTypes
  <1>2. AcpTypeOK
    <2>1. ToSet(channel) \subseteq AcpTurns
      BY <1>1 DEF ToSet
    <2> QED  BY <1>1, <2>1 DEF AcpTypeOK, AcpInv, AcpTypes, StrayHolds
  <1>3. FinalSaysItsChunks
    <2> SUFFICES ASSUME NEW i \in 1..Len(events), events[i].kind = "final"
                 PROVE  TellsInOrder(events[i].of.held, SaidBefore(i))
      BY <1>1 DEF FinalSaysItsChunks
    <2>1. events[i].of \in AcpTexts /\ Tells(events, events[i].of.held, ChunksIn(events, events[i].turn, i - 1))
      BY DEF AcpInv, LogHolds
    <2>2. PICK h \in Seq(AcpChunks) : h = events[i].of.held
      BY <2>1 DEF AcpTexts, BuffersOf
    <2>3. SaidBefore(i) = ChunksIn(events, events[i].turn, i - 1)
      BY DEF SaidBefore, ChunksIn
    <2>4. DOMAIN h = 1..Len(h)
      OBVIOUS
    <2> QED  BY <2>1, <2>2, <2>3, <2>4 DEF Tells, TellsInOrder
  <1>4. TranscriptIsItsOwn
    <2> SUFFICES ASSUME NEW i \in 1..Len(events), events[i].kind = "artifact"
                 PROVE  ToSet(events[i].of.held) \subseteq {events[i].turn}
      BY <1>1 DEF TranscriptIsItsOwn
    <2>1. events[i].of \in AcpTranscripts /\ \A k \in 1..Len(events[i].of.held) : events[i].of.held[k] = events[i].turn
      BY DEF AcpInv, LogHolds
    <2>2. PICK h \in Seq(AcpTurns) : h = events[i].of.held
      BY <2>1 DEF AcpTranscripts, BuffersOf
    <2> QED  BY <2>1, <2>2 DEF ToSet
  <1>5. TurnsDoNotMix
    BY <1>1 DEF TurnsDoNotMix, AcpInv, LogHolds
  <1>6. AnswerMatchesLog
    BY <1>1 DEF AnswerMatchesLog, AcpInv, CallersHold, HasFinal, EventsOf
  <1>7. PrivateWhileRunning
    BY <1>1 DEF PrivateWhileRunning, WorkerIs, AcpInv, AcpTypes, RequestsHold, ChannelHolds, AcpOutside
  <1>8. StrayNeverRan
    <2>1. \A t \in stray : \A i \in 1..Len(events) : events[i].turn # t
      BY DEF StrayHolds, EventsOf
    <2> QED  BY <1>1, <2>1 DEF StrayNeverRan, StrayHolds
  <1> QED  BY <1>2, <1>3, <1>4, <1>5, <1>6, <1>7, <1>8 DEF DelegationSafe

\* The worker of a session serves any number of turns with one pair of buffers and one
\* channel: a final text says what the turn's own chunks said, a transcript has no other
\* turn's line, turns do not mix in the log, and a caller's answer agrees with it,
\* whoever stops waiting or loses its claim when; the guarded files of a turn go with
\* it, and a prompt file that a failed write leaves behind is of a turn that OMP never
\* ran (run_one_turn, write_system_prompt_file, run_turn).
THEOREM DelegationIsSafe == AcpSpec => []DelegationSafe
  BY AcpInitHolds, AcpNextHolds, StrayNextHolds, AcpInvMeans, PTL DEF AcpSpec
=============================================================================
