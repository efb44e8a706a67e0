----------------------------- MODULE ApprovalFlow -----------------------------
(***************************************************************************)
(* Who moves the approvals of ApprovalStore: requests that ask and wait,   *)
(* HTTP handlers that carry a client's decision and then apply the effect, *)
(* and the approval workers of the server processes, which sweep and apply *)
(* whatever is due.  Applying a proposal changes an asset outside the      *)
(* store's transaction: a profile fact, or the active pointer of a managed *)
(* skill or addendum.                                                      *)
(*                                                                         *)
(* A crash, a dropped request and a lease that outlives its time are       *)
(* faults; a behaviour has at most MaxFaults of them.                      *)
(***************************************************************************)
EXTENDS ApprovalStore

CONSTANTS
  Handlers,      \* concurrent POSTs that resolve an approval
  Workers,       \* approval workers
  Digests,       \* contents an asset can have
  HandlerLease,  \* the lease handlers and requesters respect (30 s)
  WorkerLease,   \* the lease workers respect (60 s)
  Errors,        \* whether calls may fail for reasons of their own
  MaxFaults      \* bound on the faults of a behaviour

\* A request that waits applies its effect under its approval's name.
ASSUME FlowAssumption ==
  /\ Owners = Handlers \cup Workers \cup Approvals
  /\ HandlerLease \in 0..MaxLease /\ WorkerLease \in 0..MaxLease
  /\ Errors \in BOOLEAN /\ MaxFaults \in Nat
  /\ MaxEpoch >= MaxAttempts + MaxFaults
  /\ None \notin Digests

VARIABLES
  waiter,  \* waiter[a]: the request that asked for a
  job,     \* job[o]: what a handler, worker or returned request is doing
  asset,   \* asset[n]: its active content and what a rollback left
  stored,  \* stored[a]: a's skill proposal, "reviewed" or "updated" since
  faults,  \* faults so far
  done,    \* done[a]: a's mutation has been reported done (history)
  changes  \* changes[a]: times a's mutation changed its asset (history)

flowVars == <<waiter, job, asset, stored, faults, done, changes>>
vars == <<approval, effect, log, waiter, job, asset, stored, faults, done, changes>>

-----------------------------------------------------------------------------
Assets == {"fact", "skill", "addendum"}

AssetOf ==
  [memory_write |-> "fact", skill_write |-> "skill", skill_rollback |-> "skill",
   evolution_review |-> "addendum", addendum_rollback |-> "addendum",
   approval_continuation |-> None]

\* What an effect can be.
ASSUME KindAssumption ==
  Kinds \subseteq Continuations \cup
    {"memory_write", "skill_write", "skill_rollback", "evolution_review", "addendum_rollback"}

Decisions == {"approved", "denied", "cancelled"}

Idle == [phase |-> "idle", of |-> None, epoch |-> 0, choice |-> None]

Job(phase, a, epoch, choice) == [phase |-> phase, of |-> a, epoch |-> epoch, choice |-> choice]

Kind(a) == approval[a].kind

Expected(a) == approval[a].payload.expected

Target(a) == approval[a].payload.target

FlowInit ==
  /\ ApprovalInit
  /\ waiter = [a \in Approvals |-> "none"]
  /\ job = [o \in Owners |-> Idle]
  /\ \E d \in Digests : asset = [n \in Assets |-> [active |-> d, from |-> None]]
  /\ stored = [a \in Approvals |-> "reviewed"]
  /\ faults = 0
  /\ done = [a \in Approvals |-> FALSE]
  /\ changes = [a \in Approvals |-> 0]

Fault == faults < MaxFaults /\ faults' = faults + 1

To(o, phase) == job' = [job EXCEPT ![o].phase = phase]

Stop(o) == job' = [job EXCEPT ![o] = Idle]

-----------------------------------------------------------------------------
(* The request that asks. *)

\* A proposal is made against the asset as it is; a continuation only waits.
\* The dreamed skill is announced with its creation.
Propose(a) ==
  /\ \E kind \in Kinds, p \in Payloads :
       /\ IF kind \in Continuations
          THEN p.expected = None /\ p.target = None
          ELSE /\ p.expected = asset[AssetOf[kind]].active
               /\ p.target \in Digests \ {p.expected}
       /\ IF kind = "skill_write" THEN CreateSkillApprovalBundle(a, p)
          ELSE CreateRequest(a, kind, p, kind \notin Continuations)
       /\ \E w \in CASE kind \in Continuations   -> {"emitWait"}
                     [] kind = "memory_write" -> {"emitWait", "emit"}
                     [] kind = "skill_write"  -> {"gone"}
                     [] OTHER                 -> {"emit"} :
            waiter' = [waiter EXCEPT ![a] = w]
  /\ UNCHANGED <<job, asset, stored, faults, done, changes>>

Announce(a) ==
  /\ waiter[a] \in {"emitWait", "emit"}
  /\ AnnounceRequest(a)
  /\ waiter' = [waiter EXCEPT ![a] = IF @ = "emit" THEN "gone" ELSE "waiting"]
  /\ UNCHANGED <<job, asset, stored, faults, done, changes>>

\* A waiting request withdraws what it could not announce; one that does not
\* wait leaves it to expire.
AnnounceFails(a) ==
  /\ Errors /\ waiter[a] \in {"emitWait", "emit"}
  /\ IF waiter[a] = "emitWait" /\ Pending(a) THEN Resolve(a, "cancelled")
                                             ELSE UNCHANGED approvalVars
  /\ waiter' = [waiter EXCEPT ![a] = "gone"]
  /\ Fault
  /\ UNCHANGED <<job, asset, stored, done, changes>>

\* The wait is over; a memory write goes on to apply its own effect.
Return(a, outcome) ==
  /\ waiter' = [waiter EXCEPT ![a] = outcome]
  /\ job' = IF Kind(a) = "memory_write"
            THEN [job EXCEPT ![a] = Job("claim", a, 0, None)] ELSE job

\* Variant, not the code: the expiry closes the effect instead of releasing it.
WaiterDropsEffect(a) ==
  /\ waiter[a] = "waiting" /\ Pending(a) /\ approval[a].left = 0
  /\ approval' = [approval EXCEPT ![a].status = "timed_out"]
  /\ effect' = [effect EXCEPT ![a].status = "failed"]
  /\ log' = [log EXCEPT ![a] = Append(@, "approval_resolved")]
  /\ Return(a, "timed_out")
  /\ UNCHANGED <<asset, stored, faults, done, changes>>

\* The polling wait: return a decision someone made; time out a pending request
\* that expired.  Losing that race is a conflict, and the loop reads again.
WaiterReturns(a) ==
  /\ waiter[a] = "waiting"
  /\ \/ /\ ~Pending(a)
        /\ Return(a, approval[a].status)
        /\ UNCHANGED approvalVars
     \/ /\ Pending(a) /\ approval[a].left = 0
        /\ Resolve(a, "timed_out")
        /\ Return(a, "timed_out")
  /\ UNCHANGED <<asset, stored, faults, done, changes>>

WaiterBeats(a) ==
  /\ waiter[a] = "waiting" /\ approval[a].left > 0
  /\ HeartbeatRequest(a)
  /\ UNCHANGED flowVars

-----------------------------------------------------------------------------
(* The client's decision. *)

\* The row is read and the outcome settled; the clock is looked at only here.
HandlerReads(h, a) ==
  /\ job[h] = Idle /\ Pending(a)
  /\ \E d \in IF approval[a].left = 0 THEN {"timed_out"} ELSE Decisions :
       job' = [job EXCEPT ![h] = Job("resolve", a, 0, d)]
  /\ UNCHANGED <<approvalVars, waiter, asset, stored, faults, done, changes>>

\* A request resolved meanwhile is a conflict, and the handler is done.
HandlerResolves(h) ==
  LET a == job[h].of IN
  /\ job[h].phase = "resolve"
  /\ \/ Resolve(a, job[h].choice) /\ To(h, "claim")
     \/ ~Pending(a) /\ Stop(h) /\ UNCHANGED approvalVars
  /\ UNCHANGED <<waiter, asset, stored, faults, done, changes>>

-----------------------------------------------------------------------------
(* Applying an effect under a lease. *)

\* Taking over a lease whose holder is still at work spends a fault.
Overruns(a) ==
  effect[a].status = "claimed" /\
    \E o \in Owners : job[o].of = a /\ Holds(a, o, job[o].epoch)

Claim(o, a, lease) ==
  /\ ClaimEffect(a, o, lease)
  /\ job' = [job EXCEPT ![o] = Job("held", a, effect[a].epoch + 1, None)]
  /\ IF Overruns(a) THEN Fault ELSE UNCHANGED faults

\* A handler or a returned request takes its own effect, unless it is taken.
ClaimOwn(o) ==
  LET a == job[o].of IN
  /\ job[o].phase = "claim"
  /\ \/ Claim(o, a, HandlerLease)
     \/ ~Claimable(a, HandlerLease) /\ Stop(o) /\ UNCHANGED <<approvalVars, faults>>
  /\ UNCHANGED <<waiter, asset, stored, done, changes>>

WorkerClaims(w) ==
  /\ job[w] = Idle
  /\ \E a \in Approvals : Claim(w, a, WorkerLease)
  /\ UNCHANGED <<waiter, asset, stored, done, changes>>

\* A continuation is complete at once; a proposal first proves its lease live.
\* A stale lease ends the job and leaves the effect to its new holder.
Apply(o) ==
  LET a == job[o].of
      e == job[o].epoch
  IN
  /\ job[o].phase = "held"
  /\ \/ CompleteEffect(a, o, e) /\ Stop(o)
     \/ Kind(a) \notin Continuations /\ HeartbeatEffect(a, o, e) /\ To(o, "mutate")
     \/ ~Holds(a, o, e) /\ Stop(o) /\ UNCHANGED approvalVars
  /\ UNCHANGED <<waiter, asset, stored, faults, done, changes>>

\* An addendum installed or rolled back again finds its work done.
Present(a) ==
  LET x == asset[AssetOf[Kind(a)]] IN
  \/ Kind(a) = "evolution_review" /\ x.active = Target(a)
  \/ Kind(a) = "addendum_rollback" /\ x.active = Target(a) /\ x.from = Expected(a)

\* Writing a fact or installing a skill replaces whatever is active; a rollback
\* and an addendum replace only the content they expect.
Allowed(a) ==
  \/ Kind(a) \in {"memory_write", "skill_write"}
  \/ asset[AssetOf[Kind(a)]].active = Expected(a)

Change(a) ==
  /\ asset' = [asset EXCEPT ![AssetOf[Kind(a)]] =
       [active |-> Target(a),
        from |-> IF Kind(a) = "addendum_rollback" THEN Expected(a) ELSE None]]
  /\ done' = [done EXCEPT ![a] = TRUE]
  /\ changes' = IF asset[AssetOf[Kind(a)]].active = Target(a) THEN changes
                ELSE [changes EXCEPT ![a] = Least(@ + 1, 2)]

\* Variant, not the code: the decision is not consulted.
MutateRegardless(o) ==
  LET a == job[o].of IN
  /\ job[o].phase = "mutate"
  /\ Change(a) /\ To(o, "finish")
  /\ UNCHANGED <<approvalVars, waiter, stored, faults>>

\* The mutation of a fact or an addendum and the rollback of a skill: for an
\* approved request only, outside the store and its fence.
Mutate(o) ==
  LET a == job[o].of IN
  /\ job[o].phase = "mutate" /\ Kind(a) # "skill_write"
  /\ \/ /\ approval[a].status # "approved"
        /\ To(o, "finish") /\ UNCHANGED <<asset, done, changes>>
     \/ /\ approval[a].status = "approved" /\ Present(a)
        /\ To(o, "finish")
        /\ done' = [done EXCEPT ![a] = TRUE]
        /\ UNCHANGED <<asset, changes>>
     \/ /\ approval[a].status = "approved" /\ ~Present(a) /\ Allowed(a)
        /\ Change(a) /\ To(o, "finish")
     \/ /\ approval[a].status = "approved" /\ ~Present(a) /\ ~Allowed(a)
        /\ To(o, "fail") /\ UNCHANGED <<asset, done, changes>>
  /\ UNCHANGED <<approvalVars, waiter, stored, faults>>

\* A skill is written from its stored proposal.  An approved one must have the
\* digest that was reviewed, which covers its status and time of update.
ReadProposal(o) ==
  LET a == job[o].of IN
  /\ job[o].phase = "mutate" /\ Kind(a) = "skill_write"
  /\ To(o, IF approval[a].status # "approved" THEN "update"
           ELSE IF stored[a] = "reviewed" THEN "install" ELSE "fail")
  /\ UNCHANGED <<approvalVars, waiter, asset, stored, faults, done, changes>>

\* What was read is checked and installed when the read returns.
InstallSkill(o) ==
  /\ job[o].phase = "install"
  /\ Change(job[o].of) /\ To(o, "update")
  /\ UNCHANGED <<approvalVars, waiter, stored, faults>>

\* The outcome is written into the stored proposal.
UpdateProposal(o) ==
  /\ job[o].phase = "update"
  /\ stored' = [stored EXCEPT ![job[o].of] = "updated"]
  /\ To(o, "finish")
  /\ UNCHANGED <<approvalVars, waiter, asset, faults, done, changes>>

\* A mutation fails: refused by policy before it changes anything, or after it,
\* when the status of the proposal cannot be updated.
MutateFails(o) ==
  LET a == job[o].of IN
  /\ Errors
  /\ \/ /\ job[o].phase = "mutate"
        /\ approval[a].status = "approved" \/ Kind(a) \in {"skill_write", "evolution_review"}
        /\ UNCHANGED <<asset, done, changes>>
     \/ job[o].phase \in {"install", "update"} /\ UNCHANGED <<asset, done, changes>>
     \/ /\ job[o].phase = "mutate" /\ Kind(a) = "evolution_review"
        /\ approval[a].status = "approved" /\ ~Present(a) /\ Allowed(a)
        /\ Change(a)
  /\ To(o, "fail")
  /\ UNCHANGED <<approvalVars, waiter, stored, faults>>

\* Completion fails with the store, or because the lease is gone.
Finish(o) ==
  LET a == job[o].of
      e == job[o].epoch
  IN
  /\ job[o].phase = "finish"
  /\ \/ CompleteEffectWithEvent(a, o, e) /\ Stop(o)
     \/ (Errors \/ ~Holds(a, o, e)) /\ To(o, "fail") /\ UNCHANGED approvalVars
  /\ UNCHANGED <<waiter, asset, stored, faults, done, changes>>

\* The failure is recorded, unless the lease is gone by now.
Fail(o) ==
  LET a == job[o].of
      e == job[o].epoch
  IN
  /\ job[o].phase = "fail"
  /\ \/ FailEffect(a, o, e)
     \/ ~Holds(a, o, e) /\ UNCHANGED approvalVars
  /\ Stop(o)
  /\ UNCHANGED <<waiter, asset, stored, faults, done, changes>>

-----------------------------------------------------------------------------
(* Sweeps, crashes and time. *)

Sweep ==
  /\ CancelStaleNonResumable \/ ExpirePending
  /\ UNCHANGED flowVars

\* A process dies or a client hangs up: the wait or the job is forgotten.
Drop ==
  /\ \/ \E a \in Approvals :
          /\ waiter[a] \in {"emitWait", "emit", "waiting"}
          /\ waiter' = [waiter EXCEPT ![a] = "gone"]
          /\ UNCHANGED job
     \/ \E o \in Owners : job[o] # Idle /\ Stop(o) /\ UNCHANGED waiter
  /\ Fault
  /\ UNCHANGED <<approvalVars, asset, stored, done, changes>>

\* Time passes.  A waiting request beats in time, once a second against the
\* sweep's half minute.
Time ==
  /\ \A a \in Approvals : waiter[a] = "waiting" /\ Pending(a) /\ approval[a].left > 0
       => approval[a].beat + 1 < BeatLimit
  /\ ApprovalTick
  /\ UNCHANGED flowVars

JobStep(o) ==
  HandlerResolves(o) \/ ClaimOwn(o) \/ Apply(o) \/ Mutate(o) \/ ReadProposal(o)
    \/ InstallSkill(o) \/ UpdateProposal(o) \/ MutateFails(o) \/ Finish(o) \/ Fail(o)

Next ==
  \/ \E a \in Approvals :
       Propose(a) \/ Announce(a) \/ AnnounceFails(a) \/ WaiterReturns(a) \/ WaiterBeats(a)
  \/ \E h \in Handlers, a \in Approvals : HandlerReads(h, a)
  \/ \E w \in Workers : WorkerClaims(w)
  \/ \E o \in Owners : JobStep(o)
  \/ Sweep
  \/ Drop
  \/ Time

\* Requests poll, workers tick on a timer, started jobs go on, time passes.
Fairness ==
  /\ \A a \in Approvals : WF_vars(Announce(a)) /\ WF_vars(WaiterReturns(a)) /\ WF_vars(WaiterBeats(a))
  /\ \A w \in Workers : WF_vars(WorkerClaims(w))
  /\ \A o \in Owners : WF_vars(JobStep(o))
  /\ WF_vars(Sweep)
  /\ WF_vars(Time)

Spec == FlowInit /\ [][Next]_vars
FairSpec == Spec /\ Fairness

-----------------------------------------------------------------------------
(* Properties. *)

Phases ==
  {"idle", "resolve", "claim", "held", "mutate", "install", "update", "finish", "fail"}

\* Every variable holds values of its type.
FlowTypeOK ==
  /\ waiter \in [Approvals -> {"none", "emit", "emitWait", "waiting", "gone"} \cup Terminal]
  /\ job \in [Owners -> [phase : Phases, of : Approvals \cup {None}, epoch : 0..MaxEpoch,
                         choice : Terminal \cup {None}]]
  /\ asset \in [Assets -> [active : Digests, from : Digests \cup {None}]]
  /\ stored \in [Approvals -> {"reviewed", "updated"}]
  /\ faults \in 0..MaxFaults
  /\ done \in [Approvals -> BOOLEAN]
  /\ changes \in [Approvals -> 0..2]

\* What was asked for happens if and only if it was approved: a proposal that
\* counts as applied has run when it was approved, and nothing has run for a
\* request that was denied, cancelled, timed out or is undecided.
AppliedAsDecided ==
  \A a \in Approvals :
    /\ done[a] => approval[a].status = "approved"
    /\ /\ effect[a].status = "applied" /\ Kind(a) \notin Continuations
       /\ approval[a].status = "approved"
       => done[a]

\* A request that waited hears the stored decision, whoever made it.
WaiterHearsDecision ==
  \A a \in Approvals : waiter[a] \in Terminal => waiter[a] = approval[a].status

\* "After an idempotent proposal mutation": a repetition after a crash finds
\* its work done, so an effect that ends as failed has changed nothing.  Only
\* crashes, dropped requests and overrun leases interfere here, no errors.
FailedChangedNothing ==
  \A a \in Approvals : effect[a].status = "failed" => changes[a] = 0

\* Every request is decided and its effect applied or given up, although
\* requesters vanish, clients never answer, and lease holders crash.
EveryApprovalEnds ==
  \A a \in Approvals :
    approval[a].status = "pending" ~> effect[a].status \in {"applied", "failed"}

\* A request that waits is answered or gone.
EveryWaitEnds ==
  \A a \in Approvals : waiter[a] = "waiting" ~> waiter[a] # "waiting"

\* What handlers, waiters and workers make of the tables.
FlowSafe ==
  /\ FlowTypeOK
  /\ AppliedAsDecided
  /\ WaiterHearsDecision

\* Approvals and waits both end.
ApprovalsEnd ==
  /\ EveryApprovalEnds
  /\ EveryWaitEnds
=============================================================================
