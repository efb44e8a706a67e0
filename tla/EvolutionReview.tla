--------------------------- MODULE EvolutionReview ---------------------------
(***************************************************************************)
(* Reviewed changes of the persona (or of a mode: the two share the code). *)
(* A change is proposed by the owner, or by a finished turn whose message  *)
(* matched a remembered preference, against the addendum that is active;   *)
(* the owner decides; a lease holder installs an approved change over the  *)
(* base that was reviewed, or rolls the addendum back.                     *)
(*                                                                         *)
(* A content digest covers the base and the change, so it is modelled by   *)
(* the pair.  Addenda live in files: immutable versions, and a pointer     *)
(* that is replaced under a file lock.  The proposals live in the store.   *)
(***************************************************************************)
EXTENDS Naturals, FiniteSets

CONSTANTS
  Preferences,    \* changes that can be proposed; of a noticed one also the dedupe key
  Noticed,        \* the preferences that turns notice
  Tiers,          \* tiers the server may be started with: "moderate" and others
  ReviewVerdicts, \* how a request can end: "approved" and others
  Detectors,      \* workers that finish a turn with a candidate
  Appliers,       \* lease holders of evolution effects
  NoDigest,       \* no addendum
  MaxReviews,     \* bound on proposals
  MaxEffectTries, \* attempts before an effect is failed for good
  MaxRetried,     \* bound on effects that are claimed again
  MaxTierChanges  \* bound on restarts

Reviews == 1..MaxReviews

ASSUME ReviewAssumption ==
  /\ "moderate" \in Tiers /\ Tiers \subseteq {"off", "conservative", "moderate"}
  /\ Noticed \subseteq Preferences
  /\ "approved" \in ReviewVerdicts /\ ReviewVerdicts \subseteq {"approved", "denied", "timed_out"}
  /\ IsFiniteSet(Preferences) /\ IsFiniteSet(Detectors) /\ IsFiniteSet(Appliers)
  /\ NoDigest \notin Detectors
  /\ MaxReviews \in Nat \ {0} /\ MaxEffectTries \in Nat \ {0} /\ MaxRetried \in Nat
  /\ MaxTierChanges \in Nat

VARIABLES
  tier,      \* the configured self-evolution tier
  review,    \* review[i]: the proposal row
  verdict,   \* verdict[i]: its approval request
  outbox,    \* outbox[i]: the effect of that request
  pointer,   \* active.json
  versions,  \* the immutable versions: [digest, source]
  audits,    \* evolution_audits, by idempotency key
  detector,  \* detector[d]: a candidate on its way to the store
  applier,   \* applier[w]: a lease holder's progress
  keyLock,   \* keyLock[k]: the advisory lock of a dedupe key
  restarts

storeRows == <<review, verdict, outbox, audits>>
addenda == <<pointer, versions>>
reviewVars == <<tier, storeRows, addenda, detector, applier, keyLock, restarts>>

Resting == [pc |-> "idle", key |-> NoDigest, base |-> NoDigest]
Unclaimed == [pc |-> "idle", of |-> 0, epoch |-> 0]
NoReview == [by |-> "nobody", key |-> NoDigest, base |-> NoDigest, status |-> "none",
             cooled |-> FALSE]

\* review_content_digest: the base digest and the changes, redacted and hashed.
ContentDigest(r) == <<r.base, r.key>>

\* The versions on disk, each read back and checked against its digest.
Installed == {v.digest : v \in versions}
Used == {i \in Reviews : review[i].by # "nobody"}
NextId == Cardinality(Used) + 1

ReviewTypeOK ==
  /\ tier \in Tiers
  /\ \A i \in Reviews :
       /\ review[i].by \in {"nobody", "owner", "auto", "rollback"}
       /\ review[i].status \in {"none", "pending"} \cup ReviewVerdicts
  /\ verdict \in [Reviews -> {"none", "pending"} \cup ReviewVerdicts]
  /\ outbox \in [Reviews -> [status : {"none", "blocked", "pending", "claimed",
                                       "applied", "failed"},
                             tries : 0..MaxEffectTries]]
  /\ \A k \in Preferences : keyLock[k] \in Detectors \cup {NoDigest}

ReviewInit ==
  /\ tier = "moderate"
  /\ review = [i \in Reviews |-> NoReview]
  /\ verdict = [i \in Reviews |-> "none"]
  /\ outbox = [i \in Reviews |-> [status |-> "none", tries |-> 0]]
  /\ pointer = [active |-> NoDigest, from |-> NoDigest]
  /\ versions = {} /\ audits = {}
  /\ detector = [d \in Detectors |-> Resting]
  /\ applier = [w \in Appliers |-> Unclaimed]
  /\ keyLock = [k \in Preferences |-> NoDigest]
  /\ restarts = 0

-----------------------------------------------------------------------------
(* The policy.                                                             *)

\* decide_evolution_target for persona and mode proposals.
TierDecision == [t \in Tiers |-> IF t = "moderate" THEN "approval_required" ELSE "denied"]

\* verify_approved_review_effect: the tier of today decides again.
StillReachable == TierDecision[tier] # "denied"

\* append_evolution_audit: a key that is there is left alone.
Audit(S) == audits' = audits \cup S

\* A row, its blocked effect and its request, under the next id.
Ask(i, row) ==
  /\ review' = [review EXCEPT ![i] = row]
  /\ verdict' = [verdict EXCEPT ![i] = "pending"]
  /\ outbox' = [outbox EXCEPT ![i].status = "blocked"]
  /\ Audit({<<i, "attempt">>})

ReviewRow(by, key, base) ==
  [by |-> by, key |-> key, base |-> base, status |-> "pending", cooled |-> FALSE]

-----------------------------------------------------------------------------
(* The owner proposes.                                                     *)

\* A tier that denies persona changes leaves an audit and nothing else.
ProposeDenied ==
  /\ NextId \in Reviews /\ ~StillReachable
  /\ review' = [review EXCEPT ![NextId] = [NoReview EXCEPT !.by = "owner"]]
  /\ Audit({<<NextId, "denied">>})
  /\ UNCHANGED <<tier, verdict, outbox, addenda, detector, applier, keyLock, restarts>>

\* The base is read and the row written; the request follows in another call.
ProposeReview(k) ==
  /\ NextId \in Reviews /\ StillReachable
  /\ review' = [review EXCEPT ![NextId] = ReviewRow("owner", k, pointer.active)]
  /\ UNCHANGED <<tier, verdict, outbox, audits, addenda, detector, applier, keyLock, restarts>>

EnqueueReview(i) ==
  /\ review[i].by = "owner" /\ review[i].status = "pending" /\ verdict[i] = "none"
  /\ Ask(i, review[i])
  /\ UNCHANGED <<tier, addenda, detector, applier, keyLock, restarts>>

\* A rollback goes from the active version to another installed one or to none.
RollbackTarget(target) ==
  /\ pointer.active # NoDigest /\ target # pointer.active
  /\ target \in Installed \cup {NoDigest}

\* The row stands for the request's payload, the key for the target.
ProposeRollback(target) ==
  /\ NextId \in Reviews /\ StillReachable
  /\ RollbackTarget(target)
  /\ Ask(NextId, ReviewRow("rollback", target, pointer.active))
  /\ UNCHANGED <<tier, addenda, detector, applier, keyLock, restarts>>

-----------------------------------------------------------------------------
(* A turn proposes.                                                        *)

DetectorAt(d, pc) == detector[d].pc = pc
DetectorTo(d, pc) == detector' = [detector EXCEPT ![d].pc = pc]
Discard(d) == detector' = [detector EXCEPT ![d] = Resting]
auto == <<tier, addenda, applier, restarts>>

\* classify_current: a message carries at most one signal, maybe as a correction.
Signals == [key : Noticed, correction : BOOLEAN]

\* How many of the five best recalled records are active and carry the signal.
Matching == 0..5

\* detect: a correction needs one such record, a plain preference two.
Detected(signal, evidence) == evidence >= IF signal.correction THEN 1 ELSE 2

\* The turn is completed before its candidate is offered; the tier is looked at
\* and review_base_snapshot taken.
Detect(d) ==
  /\ DetectorAt(d, "idle") /\ tier = "moderate" /\ NextId \in Reviews
  /\ \E signal \in Signals, evidence \in Matching :
       /\ Detected(signal, evidence)
       /\ detector' = [detector EXCEPT ![d] =
            [pc |-> "active", key |-> signal.key, base |-> pointer.active]]
  /\ UNCHANGED <<auto, storeRows, keyLock>>

\* The active addendum is read again: it must be the base, and must not say the
\* same already.
SnapshotActive(d) ==
  /\ DetectorAt(d, "active")
  /\ IF detector[d].base = pointer.active
        /\ (pointer.active # NoDigest => pointer.active[2] # detector[d].key)
     THEN DetectorTo(d, "look") ELSE Discard(d)
  /\ UNCHANGED <<auto, storeRows, keyLock>>

StillOpen(i) == review[i].status \in {"pending", "approved"}

\* The same signal, or the same change of the same target by the owner: open, or
\* closed less than the cooldown ago.
Blocks(i, k) ==
  /\ review[i].by \in {"auto", "owner"} /\ review[i].key = k
  /\ StillOpen(i) \/ ~review[i].cooled

\* pg_advisory_xact_lock, in a statement of its own, and then the duplicates: the
\* lock is kept until the transaction ends.
LookForDuplicate(d) ==
  /\ DetectorAt(d, "look") /\ keyLock[detector[d].key] = NoDigest
  /\ IF \E i \in Used : Blocks(i, detector[d].key)
     THEN Discard(d) /\ UNCHANGED keyLock
     ELSE DetectorTo(d, "insert") /\ keyLock' = [keyLock EXCEPT ![detector[d].key] = d]
  /\ UNCHANGED <<auto, storeRows>>

\* Proposal, request, effect, audit and both events commit together.
CommitBundle(d) ==
  /\ DetectorAt(d, "insert")
  /\ IF NextId \in Reviews
     THEN Ask(NextId, ReviewRow("auto", detector[d].key, detector[d].base))
     ELSE UNCHANGED storeRows
  /\ Discard(d)
  /\ keyLock' = [keyLock EXCEPT ![detector[d].key] = NoDigest]
  /\ UNCHANGED auto

-----------------------------------------------------------------------------
(* The decision, and the clock.                                            *)

DecideReview(i, status) ==
  /\ verdict[i] = "pending"
  /\ verdict' = [verdict EXCEPT ![i] = status]
  /\ outbox' = [outbox EXCEPT ![i].status = "pending"]
  /\ Audit({<<i, status>>})
  /\ UNCHANGED <<tier, review, addenda, detector, applier, keyLock, restarts>>

\* Seven days pass since the row was last written.
CoolDown(i) ==
  /\ review[i].status \in ReviewVerdicts \ {"approved"} /\ ~review[i].cooled
  /\ review' = [review EXCEPT ![i].cooled = TRUE]
  /\ UNCHANGED <<tier, verdict, outbox, audits, addenda, detector, applier, keyLock, restarts>>

-----------------------------------------------------------------------------
(* The effect.                                                             *)

HoldsReview(w) ==
  LET i == applier[w].of IN outbox[i].status = "claimed" /\ outbox[i].tries = applier[w].epoch
ApplierAt(w, pc) == applier[w].pc = pc
Proceed(w, pc) == applier' = [applier EXCEPT ![w].pc = pc]
Leave(w) == applier' = [applier EXCEPT ![w] = Unclaimed]
frame == <<tier, detector, keyLock, restarts>>

\* Released, or held by someone whose lease has lapsed.  A claim counts an attempt
\* and an epoch, so one number stands for both.
ClaimReview(w, i) ==
  /\ ApplierAt(w, "idle")
  /\ outbox[i].status \in {"pending", "claimed"} /\ outbox[i].tries < MaxEffectTries
  /\ outbox[i].tries > 0 =>
       Cardinality({j \in Reviews : outbox[j].tries > 1} \cup {i}) <= MaxRetried
  /\ outbox' = [outbox EXCEPT ![i] = [status |-> "claimed", tries |-> @.tries + 1]]
  /\ applier' = [applier EXCEPT ![w] =
       [pc |-> IF verdict[i] # "approved" THEN "close" ELSE "check", of |-> i,
        epoch |-> outbox[i].tries + 1]]
  /\ UNCHANGED <<frame, addenda, review, verdict, audits>>

\* apply_evolution_review_effect, apply_persona_addendum_rollback_effect: the
\* policy, and for a review that the base still stands or the change is in.
Check(w) ==
  LET r == review[applier[w].of] IN
  /\ ApplierAt(w, "check")
  /\ Proceed(w, IF /\ StillReachable
                   /\ \/ r.by = "rollback" /\ r.key \in Installed \cup {NoDigest}
                      \/ r.by # "rollback" /\ pointer.active \in {r.base, ContentDigest(r)}
                THEN "install" ELSE "fail")
  /\ UNCHANGED <<frame, addenda, storeRows>>

\* Variant, not the code: the pointer is not compared again under the lock.
PointsAtAny(expected) == TRUE

\* The compare of install and of rollback, under the file lock.
PointsAt(expected) == pointer.active = expected

\* write_active_pointer: active.json is replaced as a whole.
SetPointer(active, from) == pointer' = [active |-> active, from |-> from]

\* install_immutable_version: a version that is there must be this one.
Publish(v) ==
  /\ \A old \in versions : old.digest = v.digest => old = v
  /\ versions' = versions \cup {v}

\* The version is a directory renamed into place before the pointer is replaced;
\* a crash in between leaves a version nothing points at.
InstallVersion(w) ==
  LET i == applier[w].of
      v == [digest |-> ContentDigest(review[i]), source |-> i] IN
  /\ ApplierAt(w, "install") /\ review[i].by # "rollback"
  /\ \/ /\ pointer.active # v.digest /\ PointsAt(review[i].base)
        /\ Publish(v)
        /\ \/ /\ SetPointer(v.digest, NoDigest)
              /\ Proceed(w, "close")
           \/ Leave(w) /\ UNCHANGED pointer
     \/ /\ pointer.active = v.digest /\ v \in versions
        /\ Proceed(w, "close")
        /\ UNCHANGED addenda
     \/ /\ \/ pointer.active = v.digest /\ v \notin versions
           \/ pointer.active # v.digest /\ ~PointsAt(review[i].base)
           \/ \E old \in versions : old.digest = v.digest /\ old # v
        /\ Proceed(w, "fail")
        /\ UNCHANGED addenda
  /\ UNCHANGED <<frame, storeRows>>

\* A rollback that was done already is recognised by where it came from.
RollBack(w) ==
  LET r == review[applier[w].of]
      done == pointer.active = r.key /\ pointer.from = r.base IN
  /\ ApplierAt(w, "install") /\ r.by = "rollback"
  /\ IF done THEN Proceed(w, "close") /\ UNCHANGED pointer
     ELSE IF PointsAt(r.base)
     THEN /\ SetPointer(r.key, r.base)
          /\ Proceed(w, "close")
     ELSE Proceed(w, "fail") /\ UNCHANGED pointer
  /\ UNCHANGED <<frame, storeRows, versions>>

\* update_evolution_review_proposal_status; a rollback has no row to update.
CloseReview(w) ==
  LET i == applier[w].of IN
  /\ ApplierAt(w, "close")
  /\ IF review[i].by = "rollback" THEN UNCHANGED review
     ELSE review' = [review EXCEPT ![i] = [@ EXCEPT !.status = verdict[i], !.cooled = FALSE]]
  /\ Proceed(w, "complete")
  /\ UNCHANGED <<frame, addenda, verdict, outbox, audits>>

\* complete_approval_effect_with_event, fenced by the lease.
CompleteReview(w) ==
  LET i == applier[w].of IN
  /\ ApplierAt(w, "complete")
  /\ IF HoldsReview(w)
     THEN /\ outbox' = [outbox EXCEPT ![i].status = "applied"]
          /\ Audit({<<i, "applied">>})
     ELSE UNCHANGED <<outbox, audits>>
  /\ Leave(w)
  /\ UNCHANGED <<frame, addenda, review, verdict>>

\* fail_approval_effect: back to pending until the attempts are spent.
FailReview(w) ==
  LET i == applier[w].of IN
  /\ ApplierAt(w, "fail")
  /\ IF HoldsReview(w)
     THEN /\ outbox' = [outbox EXCEPT ![i].status =
                          IF outbox[i].tries < MaxEffectTries THEN "pending" ELSE "failed"]
          /\ Audit({<<i, "failure", outbox[i].tries>>})
     ELSE UNCHANGED <<outbox, audits>>
  /\ Leave(w)
  /\ UNCHANGED <<frame, addenda, review, verdict>>

\* The process ends wherever it is and comes back with another tier; the
\* transaction of a detector is rolled back.
Restart(t) ==
  /\ restarts < MaxTierChanges /\ t # tier
  /\ tier' = t /\ restarts' = restarts + 1
  /\ detector' = [d \in Detectors |-> Resting]
  /\ applier' = [w \in Appliers |-> Unclaimed]
  /\ keyLock' = [k \in Preferences |-> NoDigest]
  /\ UNCHANGED <<storeRows, addenda>>

ReviewNext ==
  \/ ProposeDenied
  \/ \E k \in Preferences : ProposeReview(k)
  \/ \E target \in Installed \cup {NoDigest} : ProposeRollback(target)
  \/ \E i \in Reviews :
       EnqueueReview(i) \/ CoolDown(i) \/ \E s \in ReviewVerdicts : DecideReview(i, s)
  \/ \E d \in Detectors :
       \/ Detect(d) \/ SnapshotActive(d) \/ LookForDuplicate(d) \/ CommitBundle(d)
  \/ \E w \in Appliers :
       \/ \E i \in Used : ClaimReview(w, i)
       \/ Check(w) \/ InstallVersion(w) \/ RollBack(w)
       \/ CloseReview(w) \/ CompleteReview(w) \/ FailReview(w)
  \/ \E t \in Tiers : Restart(t)

ReviewSpec == ReviewInit /\ [][ReviewNext]_reviewVars

-----------------------------------------------------------------------------
(* Properties.                                                             *)

\* Turns that notice the same preference at the same time raise it once: of the
\* automatic proposals with one dedupe key, at most one is open.
OneOpenCandidate ==
  \A i, j \in Used :
    review[i].by = "auto" /\ review[j].by = "auto" /\ review[i].key = review[j].key
      /\ StillOpen(i) /\ StillOpen(j) => i = j

\* The pointer names an installed version, and a digest names one version.
PointerIsInstalled ==
  /\ pointer.active \in Installed \cup {NoDigest}
  /\ \A v, w \in versions : v.digest = w.digest => v = w

\* An applied effect was decided, its row says so, and the audit trail has the
\* attempt, the decision and the application.
AppliedIsAudited ==
  \A i \in Used :
    outbox[i].status = "applied" =>
      /\ verdict[i] \in ReviewVerdicts
      /\ {<<i, "attempt">>, <<i, verdict[i]>>, <<i, "applied">>} \subseteq audits
      /\ review[i].by # "rollback" => review[i].status = verdict[i]
      /\ review[i].by # "rollback" /\ verdict[i] = "approved" =>
           [digest |-> ContentDigest(review[i]), source |-> i] \in versions

\* The active addendum only ever moves from a base the owner was shown to the
\* content (or the version) the owner approved, under a tier that permits it.
ActivatedAsReviewed ==
  [][pointer'.active # pointer.active =>
       /\ StillReachable
       /\ \E i \in Used :
            /\ verdict[i] = "approved" /\ review[i].base = pointer.active
            /\ pointer'.active = IF review[i].by = "rollback" THEN review[i].key
                                 ELSE ContentDigest(review[i])]_reviewVars

\* What the reviewed evolution of persona and modes promises.
ReviewsCorrect ==
  /\ [](ReviewTypeOK /\ OneOpenCandidate /\ PointerIsInstalled /\ AppliedIsAudited)
  /\ ActivatedAsReviewed
=============================================================================
