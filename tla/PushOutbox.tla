------------------------------ MODULE PushOutbox ------------------------------
(***************************************************************************)
(* Push notifications: device registrations, the outbox of deliveries that *)
(* the worker derives from approvals and answers, the leased deliveries    *)
(* and the notifications a phone shows.  A row's "queued" and "running"    *)
(* are the code's 'pending' and 'claimed'.                                 *)
(*                                                                         *)
(* External: the push provider and the phone, which may get a message      *)
(* whose sender sees a failure.  Batches (64 rows a statement, 32 claims a *)
(* tick) are larger than the outbox here, so no tick ends early.           *)
(***************************************************************************)
EXTENDS Leases

CONSTANTS
  PushDevices,      \* paired devices
  PushApprovals,    \* approvals that devices are told about
  PushAnswers,      \* {"answer"}, or {} to leave finished turns out
  MaxSends,         \* MAX_DELIVERY_ATTEMPTS (5 in the code)
  MaxPushClaims,    \* bound on the claims of one delivery
  MaxPushCrashes    \* bound on crashes of push workers

ASSUME PushAssumption ==
  /\ PushAnswers \subseteq {"answer"}
  /\ MaxSends \in Nat \ {0} /\ MaxPushClaims \in Nat /\ MaxPushCrashes \in Nat

VARIABLES
  registration,   \* registration[d]: device d's row of device_push_registrations
  revokedDevices, \* devices with revoked_at set
  approvalNow,    \* approvalNow[a]: what the outbox reads of approval a
  answer,         \* the one final event: its age and whom it may be pushed to
  delivery,       \* delivery[x]: the leased row of delivery x
  shown,          \* shown[d]: approvals whose notification device d shows
  pusher,         \* pusher[w]: the tick of push worker w
  pushCrashes     \* crashes so far

pushVars == <<registration, revokedDevices, approvalNow, answer, delivery, shown,
              pusher, pushCrashes>>

-----------------------------------------------------------------------------
\* The unique keys of push_deliveries; every answer stands for one session.
Deliveries ==
  [device : PushDevices, kind : {"requested", "resolved"}, about : PushApprovals]
    \cup [device : PushDevices, kind : {"session_ready"}, about : PushAnswers]

Requested(d, a) == [device |-> d, kind |-> "requested", about |-> a]
Resolved(d, a) == [device |-> d, kind |-> "resolved", about |-> a]
SessionReady(d) == [device |-> d, kind |-> "session_ready", about |-> "answer"]

PushStatus == {"none", "queued", "running", "delivered", "failed"}

NoItem == [device |-> "none", kind |-> "none", about |-> "none"]

Asleep == [pc |-> "sleep", item |-> NoItem, lease |-> LeaseOf(NoRow)]

PushTypeOK ==
  /\ registration \in [PushDevices -> {"none", "enabled", "disabled"}]
  /\ revokedDevices \subseteq PushDevices
  /\ approvalNow \in [PushApprovals -> {"unlogged", "pending", "overdue", "decided"}]
  /\ answer \in [age : {"none", "fresh", "old"}, to : SUBSET PushDevices]
  /\ delivery \in [Deliveries -> Row(PushStatus, MaxPushClaims)]
  /\ shown \in [PushDevices -> SUBSET PushApprovals]
  /\ pusher \in [Slots -> [pc : {"sleep", "requested", "resolved", "ready", "claim",
                                "send", "delivered", "transient", "permanent"},
                           item : Deliveries \cup {NoItem},
                           lease : [owner : LeaseOwners \cup {NoOwner},
                                    epoch : 0..MaxPushClaims]]]
  /\ pushCrashes \in 0..MaxPushCrashes

PushInit ==
  /\ registration = [d \in PushDevices |-> "none"]
  /\ revokedDevices = {}
  /\ approvalNow = [a \in PushApprovals |-> "unlogged"]
  /\ answer = [age |-> "none", to |-> {}]
  /\ delivery = [x \in Deliveries |-> NoRow]
  /\ shown = [d \in PushDevices |-> {}]
  /\ pusher = [w \in Slots |-> Asleep]
  /\ pushCrashes = 0

-----------------------------------------------------------------------------
(* Devices, approvals and answers.                                         *)

Active(d) == registration[d] = "enabled" /\ d \notin revokedDevices

Undelivered(x) == delivery[x].status \in {"queued", "running"}

FailAll(items) ==
  [x \in Deliveries |-> IF x \in items THEN Released(delivery[x], "failed") ELSE delivery[x]]

\* upsert_registration: only for a device that is not revoked.
Register(d) ==
  /\ d \notin revokedDevices
  /\ registration' = [registration EXCEPT ![d] = "enabled"]
  /\ UNCHANGED <<revokedDevices, approvalNow, answer, delivery, shown, pusher, pushCrashes>>

\* disable_registration, by the device or after its revocation; one statement
\* also fails what was still to be delivered.
Unregister(d) ==
  /\ registration[d] # "none"
  /\ registration' = [registration EXCEPT ![d] = "disabled"]
  /\ delivery' = FailAll({x \in Deliveries : x.device = d /\ Undelivered(x)})
  /\ UNCHANGED <<revokedDevices, approvalNow, answer, shown, pusher, pushCrashes>>

\* revoke_auth_device; the handler unregisters the device afterwards, unless
\* its process dies in between.
RevokeDevice(d) ==
  /\ d \notin revokedDevices
  /\ revokedDevices' = revokedDevices \cup {d}
  /\ UNCHANGED <<registration, approvalNow, answer, delivery, shown, pusher, pushCrashes>>

\* An approval gets its request event, passes its expiry, is decided.
ApprovalMoves(a) ==
  /\ \/ approvalNow[a] = "unlogged" /\ approvalNow' = [approvalNow EXCEPT ![a] = "pending"]
     \/ approvalNow[a] = "pending" /\ approvalNow' = [approvalNow EXCEPT ![a] = "overdue"]
     \/ approvalNow[a] # "decided" /\ approvalNow' = [approvalNow EXCEPT ![a] = "decided"]
  /\ UNCHANGED <<registration, revokedDevices, answer, delivery, shown, pusher, pushCrashes>>

\* A final event is logged; an hour later, or when its session has ended, it
\* is too old to push.  Registrations keep their created_at.
AnswerMoves ==
  /\ \/ /\ answer.age = "none" /\ PushAnswers # {}
        /\ answer' = [age |-> "fresh", to |-> {d \in PushDevices : registration[d] # "none"}]
     \/ answer.age = "fresh" /\ answer' = [answer EXCEPT !.age = "old"]
  /\ UNCHANGED <<registration, revokedDevices, approvalNow, delivery, shown, pusher, pushCrashes>>

-----------------------------------------------------------------------------
(* A worker's tick: materialize_deliveries, four statements.               *)

Advance(w, pc) == pusher' = [pusher EXCEPT ![w].pc = pc]

Materialize(w, items, pc) ==
  /\ delivery' = [x \in Deliveries |->
       IF x \in items /\ delivery[x].status = "none" THEN NewRow(TRUE) ELSE delivery[x]]
  /\ Advance(w, pc)
  /\ UNCHANGED <<registration, revokedDevices, approvalNow, answer, shown, pushCrashes>>

FailInactive(w) ==
  /\ pusher[w].pc = "sleep"
  /\ delivery' = FailAll({x \in Deliveries : Undelivered(x) /\ ~Active(x.device)})
  /\ Advance(w, "requested")
  /\ UNCHANGED <<registration, revokedDevices, approvalNow, answer, shown, pushCrashes>>

MaterializeRequested(w) ==
  /\ pusher[w].pc = "requested"
  /\ Materialize(w, {x \in Deliveries : /\ x.kind = "requested" /\ Active(x.device)
                                        /\ approvalNow[x.about] = "pending"}, "resolved")

\* A device hears of a decision only if it was told of the request.
MaterializeResolved(w) ==
  /\ pusher[w].pc = "resolved"
  /\ Materialize(w, {x \in Deliveries :
       /\ x.kind = "resolved" /\ Active(x.device)
       /\ delivery[Requested(x.device, x.about)].status = "delivered"
       /\ approvalNow[x.about] = "decided"}, "ready")

MaterializeReady(w) ==
  /\ pusher[w].pc = "ready"
  /\ Materialize(w, {SessionReady(d) : d \in {c \in answer.to : /\ answer.age = "fresh"
                                                                /\ Active(c)}}, "claim")

\* claim_next_delivery picks the row first and looks at its device after; a
\* row of an inactive device, or none, ends the tick.
ClaimDelivery(w) ==
  /\ pusher[w].pc = "claim"
  /\ \/ \E x \in Deliveries :
          /\ Takeable(delivery[x]) /\ Active(x.device)
          /\ delivery[x].attempts < MaxPushClaims
          /\ delivery' = [delivery EXCEPT ![x] = Taken(@, w)]
          /\ pusher' = [pusher EXCEPT ![w] =
               [pc |-> "send", item |-> x, lease |-> LeaseOf(Taken(delivery[x], w))]]
     \/ /\ \/ \A x \in Deliveries : ~Takeable(delivery[x])
           \/ \E x \in Deliveries : Takeable(delivery[x]) /\ ~Active(x.device)
        /\ pusher' = [pusher EXCEPT ![w] = Asleep]
        /\ UNCHANGED delivery
  /\ UNCHANGED <<registration, revokedDevices, approvalNow, answer, shown, pushCrashes>>

\* What the phone does with a message.
Received(x) ==
  CASE x.kind = "requested" -> [shown EXCEPT ![x.device] = @ \cup {x.about}]
    [] x.kind = "resolved"  -> [shown EXCEPT ![x.device] = @ \ {x.about}]
    [] OTHER -> shown

\* provider.deliver; a secret that does not decrypt counts as permanent.
SendPush(w) ==
  /\ pusher[w].pc = "send"
  /\ \/ shown' = Received(pusher[w].item) /\ (Advance(w, "delivered") \/ Advance(w, "transient"))
     \/ UNCHANGED shown /\ (Advance(w, "transient") \/ Advance(w, "permanent"))
  /\ UNCHANGED <<registration, revokedDevices, approvalNow, answer, delivery, pushCrashes>>

\* Variant, not the code: the lease is not checked.
SettleUnfenced(w, row) ==
  /\ delivery' = [delivery EXCEPT ![pusher[w].item] = row]
  /\ pusher' = [pusher EXCEPT ![w] = [Asleep EXCEPT !.pc = "claim"]]
  /\ UNCHANGED <<revokedDevices, approvalNow, answer, shown, pushCrashes>>

\* The settling statements are fenced; one that changes no row is an error
\* that ends the tick.
Settle(w, row) ==
  LET x == pusher[w].item
      held == Holds(delivery[x], pusher[w].lease)
  IN /\ delivery' = IF held THEN [delivery EXCEPT ![x] = row] ELSE delivery
     /\ pusher' = [pusher EXCEPT ![w] = IF held THEN [Asleep EXCEPT !.pc = "claim"] ELSE Asleep]
     /\ UNCHANGED <<revokedDevices, approvalNow, answer, shown, pushCrashes>>

CompleteDelivery(w) ==
  /\ pusher[w].pc = "delivered"
  /\ Settle(w, Released(delivery[pusher[w].item], "delivered"))
  /\ UNCHANGED registration

\* Whether expires_at has passed: the approval's for its two messages, the
\* answer's hour for session_ready; of a decided approval it is not known.
MayBeExpired(x) ==
  IF x.kind = "session_ready" THEN answer.age = "old"
  ELSE approvalNow[x.about] \in {"overdue", "decided"}

SurelyExpired(x) == x.kind # "session_ready" /\ approvalNow[x.about] = "overdue"

\* retry_delivery, or fail_delivery after the last attempt or the expiry.
RetryDelivery(w) ==
  LET x == pusher[w].item
      last == pusher[w].lease.epoch >= MaxSends
  IN /\ pusher[w].pc = "transient"
     /\ \/ /\ last \/ MayBeExpired(x)
           /\ Settle(w, Released(delivery[x], "failed"))
        \/ /\ ~last /\ ~SurelyExpired(x)
           /\ Settle(w, Requeued(delivery[x], FALSE))
     /\ UNCHANGED registration

\* fail_delivery_and_disable_registration: only this delivery is failed.
DropRegistration(w) ==
  LET x == pusher[w].item
  IN /\ pusher[w].pc = "permanent"
     /\ registration' = IF Holds(delivery[x], pusher[w].lease)
                        THEN [registration EXCEPT ![x.device] = "disabled"] ELSE registration
     /\ Settle(w, Released(delivery[x], "failed"))

ElapseDelivery(x) ==
  /\ delivery' = [delivery EXCEPT ![x] = Elapse(@)]
  /\ delivery' # delivery
  /\ UNCHANGED <<registration, revokedDevices, approvalNow, answer, shown, pusher, pushCrashes>>

\* A worker dies, or its tick ends in a store error.
CrashPusher(w) ==
  /\ pusher[w].pc # "sleep" /\ pushCrashes < MaxPushCrashes
  /\ pusher' = [pusher EXCEPT ![w] = Asleep]
  /\ pushCrashes' = pushCrashes + 1
  /\ UNCHANGED <<registration, revokedDevices, approvalNow, answer, delivery, shown>>

PushStep(w) ==
  \/ FailInactive(w) \/ MaterializeRequested(w) \/ MaterializeResolved(w)
  \/ MaterializeReady(w) \/ ClaimDelivery(w) \/ SendPush(w) \/ CompleteDelivery(w)
  \/ RetryDelivery(w) \/ DropRegistration(w)

PushNext ==
  \/ \E d \in PushDevices : Register(d) \/ Unregister(d) \/ RevokeDevice(d)
  \/ \E a \in PushApprovals : ApprovalMoves(a)
  \/ AnswerMoves
  \/ \E w \in Slots : PushStep(w) \/ CrashPusher(w)
  \/ \E x \in Deliveries : ElapseDelivery(x)

PushSpec == PushInit /\ [][PushNext]_pushVars

\* run_push_worker ticks for ever and time passes.
PushFairness ==
  /\ \A w \in Slots : WF_pushVars(PushStep(w))
  /\ \A x \in Deliveries : WF_pushVars(ElapseDelivery(x))

-----------------------------------------------------------------------------
(* Properties.                                                             *)

\* A device is told of a decision only after it was told of the request,
\* whatever leases were lost and however the device came and went.
ToldInOrder ==
  \A d \in PushDevices, a \in PushApprovals :
    delivery[Resolved(d, a)].status # "none" =>
      delivery[Requested(d, a)].status = "delivered" /\ approvalNow[a] = "decided"

\* A delivery that ended stays as it is: a late worker neither reports one
\* it no longer holds nor brings back one failed with its registration.
EndedDeliveryIsFinal ==
  [][\A x \in Deliveries :
       delivery[x].status \in {"delivered", "failed"} => delivery'[x] = delivery[x]]_pushVars

\* The notification of a decided approval goes away, unless the device went
\* inactive or one of the approval's two deliveries was given up.
NotificationWithdrawn ==
  \A d \in PushDevices, a \in PushApprovals :
    (a \in shown[d] /\ approvalNow[a] = "decided") ~>
      \/ a \notin shown[d] \/ ~Active(d)
      \/ delivery[Requested(d, a)].status = "failed"
      \/ delivery[Resolved(d, a)].status = "failed"

\* Every delivery ends, those of devices that unregister or are revoked too.
EveryDeliveryEnds ==
  \A x \in Deliveries :
    delivery[x].status = "queued" ~> delivery[x].status \in {"delivered", "failed"}

\* What the push outbox promises.
PushCorrect ==
  /\ []PushTypeOK
  /\ []ToldInOrder
  /\ EndedDeliveryIsFinal
=============================================================================
