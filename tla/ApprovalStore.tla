---------------------------- MODULE ApprovalStore ----------------------------
(***************************************************************************)
(* Durable approvals and their outbox: the rows of approval_requests and   *)
(* approval_effects, the session events that announce them, and the store  *)
(* operations on them.  Each operation of InMemoryStore holds the store's  *)
(* mutex throughout, so each is one action; the Postgres store makes each  *)
(* one statement, except the sweeps, which resolve one row at a time.      *)
(*                                                                         *)
(* Time is kept as ages and remaining times, capped where the code's       *)
(* comparisons stop telling them apart.                                    *)
(***************************************************************************)
EXTENDS Naturals, Sequences

CONSTANTS
  Approvals,     \* approval ids; an effect has the id of its approval
  Kinds,         \* effect types
  Payloads,      \* what an effect is to do
  Owners,        \* lease owners
  None,          \* no owner
  Expiry,        \* ticks until a pending approval expires
  BeatLimit,     \* ticks after which a requester counts as gone
  MaxLease,      \* the longest lease a claimer respects
  Backoff,       \* ticks before a failed effect is tried again
  MaxAttempts,   \* claims after which a failure is final (3 in the code)
  MaxEpoch       \* bound on the lease epochs of one effect

ASSUME ApprovalAssumption ==
  /\ Expiry \in Nat /\ BeatLimit \in Nat /\ MaxLease \in Nat /\ Backoff \in Nat
  /\ MaxAttempts \in Nat \ {0} /\ MaxEpoch \in Nat
  /\ None \notin Owners

VARIABLES
  approval,  \* approval[a]: the row of approval_requests
  effect,    \* effect[a]: the row of approval_effects
  log        \* log[a]: the session events about a, in seq order

approvalVars == <<approval, effect, log>>

-----------------------------------------------------------------------------
Terminal == {"approved", "denied", "timed_out", "cancelled"}

\* Effects without a proposal: the requester acts on the decision itself.
Continuations == {"approval_continuation", "approval_resolution"}

\* left: time to expires_at; beat: age of heartbeat_at.
ApprovalRecord ==
  [status : {"none", "pending"} \cup Terminal, kind : Kinds \cup {None},
   payload : Payloads \cup {None}, resumable : BOOLEAN,
   left : 0..Expiry, beat : 0..BeatLimit]

NoApproval ==
  [status |-> "none", kind |-> None, payload |-> None, resumable |-> FALSE,
   left |-> 0, beat |-> 0]

\* attempts is capped where fail_approval_effect stops counting; lock: age of
\* locked_at; wait: time to available_at.
EffectRecord ==
  [status : {"none", "blocked", "pending", "claimed", "applied", "failed"},
   attempts : 0..MaxAttempts, epoch : 0..MaxEpoch, owner : Owners \cup {None},
   lock : 0..MaxLease, wait : 0..Backoff]

NewEffect(status) ==
  [status |-> status, attempts |-> 0, epoch |-> 0, owner |-> None, lock |-> 0, wait |-> 0]

Event == {"approval", "approval_resolved", "write_proposal"}

Pending(a) == approval[a].status = "pending"

Logged(a, e) == \E i \in 1..Len(log[a]) : log[a][i] = e

Least(i, j) == IF i < j THEN i ELSE j

-----------------------------------------------------------------------------
(* Requests. *)

ApprovalInit ==
  /\ approval = [a \in Approvals |-> NoApproval]
  /\ effect = [a \in Approvals |-> NewEffect("none")]
  /\ log = [a \in Approvals |-> <<>>]

NewRequest(kind, payload, resumable) ==
  [status |-> "pending", kind |-> kind, payload |-> payload, resumable |-> resumable,
   left |-> Expiry, beat |-> 0]

\* A new request and its effect, which waits for the decision.
CreateRequest(a, kind, payload, resumable) ==
  /\ approval[a].status = "none"
  /\ approval' = [approval EXCEPT ![a] = NewRequest(kind, payload, resumable)]
  /\ effect' = [effect EXCEPT ![a] = NewEffect("blocked")]
  /\ UNCHANGED log

\* A skill proposal's request, its effect and its approval event, together.
CreateSkillApprovalBundle(a, payload) ==
  /\ approval[a].status = "none" /\ "skill_write" \in Kinds
  /\ approval' = [approval EXCEPT ![a] = NewRequest("skill_write", payload, TRUE)]
  /\ effect' = [effect EXCEPT ![a] = NewEffect("blocked")]
  /\ log' = [log EXCEPT ![a] = <<"approval">>]

\* The approval event is appended and linked to its request.
AnnounceRequest(a) ==
  /\ approval[a].status # "none" /\ ~Logged(a, "approval")
  /\ log' = [log EXCEPT ![a] = Append(@, "approval")]
  /\ UNCHANGED <<approval, effect>>

\* Only a pending request is refreshed; a resolved one is returned as it is.
HeartbeatRequest(a) ==
  /\ Pending(a)
  /\ approval' = [approval EXCEPT ![a].beat = 0]
  /\ UNCHANGED <<effect, log>>

\* Variant, not the code: the status is written without a compare-and-swap; the
\* event and the release still look for a pending request.
ResolveAllAgain(S, status) ==
  /\ S # {} /\ \A a \in S : approval[a].status # "none"
  /\ approval' = [a \in Approvals |->
       IF a \in S THEN [approval[a] EXCEPT !.status = status] ELSE approval[a]]
  /\ effect' = [a \in Approvals |->
       IF a \in S /\ Pending(a) THEN [effect[a] EXCEPT !.status = "pending", !.wait = 0]
       ELSE effect[a]]
  /\ log' = [a \in Approvals |->
       IF a \in S /\ Pending(a) THEN Append(log[a], "approval_resolved") ELSE log[a]]

\* The decision, its event and the release of its effect, together.  S is one
\* request, or the candidates of a sweep.
ResolveAll(S, status) ==
  /\ S # {} /\ \A a \in S : Pending(a)
  /\ approval' = [a \in Approvals |->
       IF a \in S THEN [approval[a] EXCEPT !.status = status] ELSE approval[a]]
  /\ effect' = [a \in Approvals |->
       IF a \in S THEN [effect[a] EXCEPT !.status = "pending", !.wait = 0] ELSE effect[a]]
  /\ log' = [a \in Approvals |->
       IF a \in S THEN Append(log[a], "approval_resolved") ELSE log[a]]

Resolve(a, status) == ResolveAll({a}, status)

CancelStaleNonResumable ==
  ResolveAll({a \in Approvals : /\ Pending(a) /\ ~approval[a].resumable
                                /\ approval[a].beat >= BeatLimit}, "cancelled")

ExpirePending ==
  ResolveAll({a \in Approvals : Pending(a) /\ approval[a].left = 0}, "timed_out")

-----------------------------------------------------------------------------
(* Effects. *)

\* Variant, not the code: a lost lease is never taken over.
ClaimableReleased(a, lease) == effect[a].status = "pending" /\ effect[a].wait = 0

\* Released and due, or held under a lease older than the claimer respects.
Claimable(a, lease) ==
  \/ effect[a].status = "pending" /\ effect[a].wait = 0
  \/ effect[a].status = "claimed" /\ effect[a].lock >= lease

ClaimEffect(a, o, lease) ==
  /\ Claimable(a, lease)
  /\ effect[a].epoch < MaxEpoch
  /\ effect' = [effect EXCEPT ![a] =
       [status |-> "claimed", attempts |-> Least(@.attempts + 1, MaxAttempts),
        epoch |-> @.epoch + 1, owner |-> o, lock |-> 0, wait |-> @.wait]]
  /\ UNCHANGED <<approval, log>>

\* The fence of every operation under a lease.
Holds(a, o, epoch) ==
  effect[a].status = "claimed" /\ effect[a].owner = o /\ effect[a].epoch = epoch

HeartbeatEffect(a, o, epoch) ==
  /\ Holds(a, o, epoch)
  /\ effect' = [effect EXCEPT ![a].lock = 0]
  /\ UNCHANGED <<approval, log>>

\* The lease ends.
Release(a, status, wait) ==
  effect' = [effect EXCEPT ![a] =
    [status |-> status, attempts |-> @.attempts, epoch |-> @.epoch,
     owner |-> None, lock |-> 0, wait |-> wait]]

CompleteEffect(a, o, epoch) ==
  /\ Holds(a, o, epoch)
  /\ approval[a].kind \in Continuations
  /\ Release(a, "applied", 0)
  /\ UNCHANGED <<approval, log>>

\* The terminal write_proposal event and the applied status, together.
CompleteEffectWithEvent(a, o, epoch) ==
  /\ Holds(a, o, epoch)
  /\ approval[a].kind \notin Continuations
  /\ Release(a, "applied", 0)
  /\ log' = [log EXCEPT ![a] = Append(@, "write_proposal")]
  /\ UNCHANGED approval

FailEffect(a, o, epoch) ==
  /\ Holds(a, o, epoch)
  /\ IF effect[a].attempts >= MaxAttempts THEN Release(a, "failed", Backoff)
                                          ELSE Release(a, "pending", Backoff)
  /\ UNCHANGED <<approval, log>>

-----------------------------------------------------------------------------
Older(r) ==
  [r EXCEPT !.left = IF @ > 0 THEN @ - 1 ELSE 0, !.beat = Least(@ + 1, BeatLimit)]

OlderEffect(e) ==
  CASE e.status = "claimed" -> [e EXCEPT !.lock = Least(@ + 1, MaxLease)]
    [] e.status = "pending" -> [e EXCEPT !.wait = IF @ > 0 THEN @ - 1 ELSE 0]
    [] OTHER -> e

\* Time passes for every pending request and every open effect.
ApprovalTick ==
  /\ approval' = [a \in Approvals |-> IF Pending(a) THEN Older(approval[a]) ELSE approval[a]]
  /\ effect' = [a \in Approvals |-> OlderEffect(effect[a])]
  /\ <<approval', effect'>> # <<approval, effect>>
  /\ UNCHANGED log

ApprovalNext ==
  \/ \E a \in Approvals :
       \/ \E kind \in Kinds, p \in Payloads, resumable \in BOOLEAN :
            CreateRequest(a, kind, p, resumable)
       \/ \E p \in Payloads : CreateSkillApprovalBundle(a, p)
       \/ AnnounceRequest(a)
       \/ HeartbeatRequest(a)
       \/ \E status \in Terminal : Resolve(a, status)
       \/ \E o \in Owners, lease \in 0..MaxLease : ClaimEffect(a, o, lease)
       \/ \E o \in Owners, epoch \in 0..MaxEpoch :
            \/ HeartbeatEffect(a, o, epoch)
            \/ CompleteEffect(a, o, epoch)
            \/ CompleteEffectWithEvent(a, o, epoch)
            \/ FailEffect(a, o, epoch)
  \/ CancelStaleNonResumable
  \/ ExpirePending
  \/ ApprovalTick

ApprovalSpec == ApprovalInit /\ [][ApprovalNext]_approvalVars

-----------------------------------------------------------------------------
(* Properties. *)

\* Every column holds a value of its type, and a lease is held exactly while
\* the effect is claimed.
ApprovalTypeOK ==
  /\ approval \in [Approvals -> ApprovalRecord]
  /\ effect \in [Approvals -> EffectRecord]
  /\ log \in [Approvals -> Seq(Event)]
  /\ \A a \in Approvals : effect[a].owner # None <=> effect[a].status = "claimed"

\* An effect is released by its decision and by nothing else: while the request
\* is pending it is blocked, and nobody can claim, apply or fail it.
EffectAwaitsDecision ==
  \A a \in Approvals :
    /\ approval[a].status = "none" <=> effect[a].status = "none"
    /\ Pending(a) <=> effect[a].status = "blocked"

\* The log tells each outcome once: a request has one approval_resolved event
\* exactly when it is decided and one terminal write_proposal exactly when its
\* proposal is applied, however many clients, sweeps and lease holders race.
OutcomeToldOnce ==
  \A a \in Approvals :
    /\ \A i, j \in 1..Len(log[a]) : log[a][i] = log[a][j] => i = j
    /\ Logged(a, "approval_resolved") <=> approval[a].status \in Terminal
    /\ Logged(a, "write_proposal") <=>
         effect[a].status = "applied" /\ approval[a].kind \notin Continuations

\* The first decision is the last, and so is the end of an effect: a late
\* client, sweep or lease holder changes neither.
DecidedIsFinal ==
  [][\A a \in Approvals :
       /\ approval[a].status \in Terminal => approval'[a].status = approval[a].status
       /\ effect[a].status \in {"applied", "failed"} => effect'[a] = effect[a]]_approvalVars

\* What the approval tables promise their callers.
ApprovalsCorrect ==
  /\ [](ApprovalTypeOK /\ EffectAwaitsDecision /\ OutcomeToldOnce)
  /\ DecidedIsFinal
=============================================================================
