--------------------------- MODULE ApprovalProofs ---------------------------
(***************************************************************************)
(* Proofs about approvals: about the tables, for every set of approvals    *)
(* and owners; about the broker, the handlers and the workers around them, *)
(* for any times and leases and any number of faults; and, at the end,     *)
(* about the catalogue of managed assets that approved effects write.  The *)
(* invariant of the tables is local to an approval: RowOK relates the      *)
(* three rows kept about one, and every operation is shown to keep it.     *)
(***************************************************************************)
EXTENDS ApprovalFlow, ManagedCatalog, TLAPS

In(l, e) == \E i \in 1..Len(l) : l[i] = e

\* What holds of a request r, its effect e and its events l.
RowOK(r, e, l) ==
  /\ r \in ApprovalRecord /\ e \in EffectRecord /\ l \in Seq(Event)
  /\ e.owner # None <=> e.status = "claimed"
  /\ r.status = "none" <=> e.status = "none"
  /\ r.status = "pending" <=> e.status = "blocked"
  /\ \A i, j \in 1..Len(l) : l[i] = l[j] => i = j
  /\ In(l, "approval_resolved") <=> r.status \in Terminal
  /\ In(l, "write_proposal") <=> e.status = "applied" /\ r.kind \notin Continuations

Tables ==
  /\ approval = [a \in Approvals |-> approval[a]]
  /\ effect = [a \in Approvals |-> effect[a]]
  /\ log = [a \in Approvals |-> log[a]]

Inv == Tables /\ \A a \in Approvals : RowOK(approval[a], effect[a], log[a])

\* The local invariant is the conjunction of the properties the runs check.
LEMMA InvMeaning == Inv <=> ApprovalTypeOK /\ EffectAwaitsDecision /\ OutcomeToldOnce
BY DEF Inv, Tables, RowOK, In, ApprovalTypeOK, EffectAwaitsDecision, OutcomeToldOnce,
       Pending, Logged

\* An event the log does not hold yet keeps it free of duplicates.
LEMMA AppendEvent ==
  ASSUME NEW l \in Seq(Event), NEW e \in Event,
         \A i, j \in 1..Len(l) : l[i] = l[j] => i = j, ~In(l, e)
  PROVE  /\ Append(l, e) \in Seq(Event)
         /\ \A i, j \in 1..Len(Append(l, e)) : Append(l, e)[i] = Append(l, e)[j] => i = j
         /\ \A f \in Event : In(Append(l, e), f) <=> f = e \/ In(l, f)
BY DEF In

\* The smaller of two bounds stays within the second.
LEMMA LeastTyped ==
  ASSUME NEW i \in Nat, NEW n \in Nat
  PROVE  Least(i, n) \in 0..n
BY DEF Least

\* A new request waits with a blocked effect.
LEMMA NewRow ==
  ASSUME NEW r, NEW e, NEW l, RowOK(r, e, l), r.status = "none",
         NEW kind \in Kinds, NEW p \in Payloads, NEW resumable \in BOOLEAN
  PROVE  RowOK(NewRequest(kind, p, resumable), NewEffect("blocked"), l)
<1> DEFINE q == NewRequest(kind, p, resumable)
           f == NewEffect("blocked")
<1>1. q \in ApprovalRecord /\ q.status = "pending"
  BY ApprovalAssumption DEF NewRequest, ApprovalRecord
<1>2. f \in EffectRecord /\ f.status = "blocked" /\ f.owner = None
  BY ApprovalAssumption DEF NewEffect, EffectRecord
<1>3. ~In(l, "approval_resolved") /\ ~In(l, "write_proposal")
  BY DEF RowOK, Terminal
<1> HIDE DEF q, f
<1>4. RowOK(q, f, l)
  BY <1>1, <1>2, <1>3 DEF RowOK, Terminal
<1> QED BY <1>4 DEF q, f

\* Deciding a pending request releases its effect and logs the decision.
LEMMA ResolveRow ==
  ASSUME NEW r, NEW e, NEW l, RowOK(r, e, l), r.status = "pending", NEW st \in Terminal
  PROVE  RowOK([r EXCEPT !.status = st], [e EXCEPT !.status = "pending", !.wait = 0],
               Append(l, "approval_resolved"))
<1> DEFINE r1 == [r EXCEPT !.status = st]
           e1 == [e EXCEPT !.status = "pending", !.wait = 0]
           l1 == Append(l, "approval_resolved")
<1>1. r1 \in ApprovalRecord /\ r1.status = st /\ r1.kind = r.kind
  BY DEF RowOK, ApprovalRecord
<1>2. e1 \in EffectRecord /\ e1.status = "pending" /\ e1.owner = e.owner
  <2>1. e \in EffectRecord
    BY DEF RowOK
  <2>2. [e EXCEPT !.status = "pending"] \in EffectRecord
    BY <2>1 DEF EffectRecord
  <2>3. \A q \in EffectRecord : [q EXCEPT !.wait = 0] \in EffectRecord
    BY ApprovalAssumption DEF EffectRecord
  <2>4. e1 = [[e EXCEPT !.status = "pending"] EXCEPT !.wait = 0]
    BY <2>1 DEF EffectRecord
  <2>5. e1.status = "pending" /\ e1.owner = e.owner
    BY <2>1 DEF EffectRecord
  <2> QED BY <2>2, <2>3, <2>4, <2>5
<1>3. ~In(l, "approval_resolved") /\ e.status = "blocked" /\ e.owner = None
  BY DEF RowOK, Terminal
<1>4. ~In(l, "write_proposal")
  BY <1>3 DEF RowOK
<1>5. /\ l1 \in Seq(Event)
      /\ \A i, j \in 1..Len(l1) : l1[i] = l1[j] => i = j
      /\ In(l1, "approval_resolved") /\ ~In(l1, "write_proposal")
  BY <1>3, <1>4, AppendEvent DEF RowOK, Event
<1>6. st # "none" /\ st # "pending"
  BY DEF Terminal
<1> HIDE DEF r1, e1, l1
<1>7. RowOK(r1, e1, l1)
  BY <1>1, <1>2, <1>3, <1>5, <1>6 DEF RowOK
<1> QED BY <1>7 DEF r1, e1, l1

\* A claim, a heartbeat or a release of an effect that is not blocked changes
\* nothing but the lease, unless it completes a proposal.
LEMMA LeaseRow ==
  ASSUME NEW r, NEW e, NEW l, RowOK(r, e, l), e.status \in {"pending", "claimed"},
         NEW f \in EffectRecord, f.owner # None <=> f.status = "claimed",
         \/ f.status \in {"pending", "claimed", "failed"}
         \/ f.status = "applied" /\ r.kind \in Continuations
  PROVE  RowOK(r, f, l)
BY DEF RowOK

\* The release of a lease yields a typed effect without an owner.
LEMMA ReleaseTyped ==
  ASSUME NEW e \in EffectRecord, NEW st \in {"pending", "applied", "failed"},
         NEW n \in 0..Backoff
  PROVE  LET f == [status |-> st, attempts |-> e.attempts, epoch |-> e.epoch,
                   owner |-> None, lock |-> 0, wait |-> n]
         IN  f \in EffectRecord /\ f.owner = None /\ f.status = st
BY ApprovalAssumption DEF EffectRecord

\* Time changes ages and remaining times only.
LEMMA OlderRow ==
  ASSUME NEW r, NEW e, NEW l, RowOK(r, e, l)
  PROVE  RowOK(Older(r), OlderEffect(e), l) /\ RowOK(r, OlderEffect(e), l)
<1>1. /\ Older(r) \in ApprovalRecord
      /\ Older(r).status = r.status /\ Older(r).kind = r.kind
  <2>1. r \in ApprovalRecord
    BY DEF RowOK
  <2> DEFINE n == IF r.left > 0 THEN r.left - 1 ELSE 0
             m == Least(r.beat + 1, BeatLimit)
             q == [r EXCEPT !.left = n]
  <2>2. n \in 0..Expiry
    BY <2>1, ApprovalAssumption DEF ApprovalRecord
  <2>3. m \in 0..BeatLimit
    <3>1. r.beat + 1 \in Nat
      BY <2>1, ApprovalAssumption DEF ApprovalRecord
    <3> QED BY <3>1, ApprovalAssumption, LeastTyped
  <2>4. q \in ApprovalRecord
    BY <2>1, <2>2 DEF ApprovalRecord
  <2>5. [q EXCEPT !.beat = m] \in ApprovalRecord
    BY <2>3, <2>4 DEF ApprovalRecord
  <2>6. Older(r) = [q EXCEPT !.beat = m]
    BY <2>1 DEF Older, ApprovalRecord
  <2>7. Older(r).status = r.status /\ Older(r).kind = r.kind
    BY <2>1 DEF Older, ApprovalRecord
  <2> QED BY <2>5, <2>6, <2>7
<1>2. /\ OlderEffect(e) \in EffectRecord
      /\ OlderEffect(e).status = e.status /\ OlderEffect(e).owner = e.owner
  <2>1. e \in EffectRecord
    BY DEF RowOK
  <2>2. CASE e.status = "claimed"
    <3>1. Least(e.lock + 1, MaxLease) \in 0..MaxLease
      <4>1. e.lock + 1 \in Nat
        BY <2>1, ApprovalAssumption DEF EffectRecord
      <4> QED BY <4>1, ApprovalAssumption, LeastTyped
    <3>2. OlderEffect(e) = [e EXCEPT !.lock = Least(e.lock + 1, MaxLease)]
      BY <2>2 DEF OlderEffect
    <3> QED BY <2>1, <3>1, <3>2 DEF EffectRecord
  <2>3. CASE e.status = "pending"
    <3>1. (IF e.wait > 0 THEN e.wait - 1 ELSE 0) \in 0..Backoff
      BY <2>1, ApprovalAssumption DEF EffectRecord
    <3>2. OlderEffect(e) = [e EXCEPT !.wait = IF e.wait > 0 THEN e.wait - 1 ELSE 0]
      BY <2>3 DEF OlderEffect
    <3> QED BY <2>1, <3>1, <3>2 DEF EffectRecord
  <2>4. CASE e.status \notin {"claimed", "pending"}
    BY <2>1, <2>4 DEF OlderEffect
  <2> QED BY <2>2, <2>3, <2>4
<1> QED BY <1>1, <1>2 DEF RowOK

\* An operation on the rows of one approval leaves the others alone.
LEMMA OneRow ==
  ASSUME Inv, NEW a \in Approvals, NEW r, NEW e, NEW l, RowOK(r, e, l),
         approval' = [approval EXCEPT ![a] = r],
         effect' = [effect EXCEPT ![a] = e],
         log' = [log EXCEPT ![a] = l]
  PROVE  Inv'
<1>1. /\ approval'[a] = r /\ effect'[a] = e /\ log'[a] = l
      /\ \A b \in Approvals \ {a} :
           approval'[b] = approval[b] /\ effect'[b] = effect[b] /\ log'[b] = log[b]
  BY DEF Inv, Tables
<1>2. Tables'
  BY DEF Inv, Tables
<1>3. ASSUME NEW b \in Approvals PROVE RowOK(approval'[b], effect'[b], log'[b])
  <2>1. CASE b = a
    BY <1>1, <2>1
  <2>2. CASE b # a
    BY <1>1, <2>2 DEF Inv
  <2> QED BY <2>1, <2>2
<1> QED BY <1>2, <1>3 DEF Inv

\* So does an operation on an effect alone.
LEMMA OneEffect ==
  ASSUME Inv, NEW a \in Approvals, NEW e, RowOK(approval[a], e, log[a]),
         effect' = [effect EXCEPT ![a] = e], approval' = approval, log' = log
  PROVE  Inv'
<1>1. approval' = [approval EXCEPT ![a] = approval[a]] /\ log' = [log EXCEPT ![a] = log[a]]
  BY DEF Inv, Tables
<1> QED BY <1>1, OneRow

\* A decision, by a client, a requester or a sweep.
LEMMA ResolveInv ==
  ASSUME Inv, NEW S, NEW st \in Terminal, ResolveAll(S, st)
  PROVE  Inv'
<1>1. Tables'
  BY DEF ResolveAll, Tables
<1>2. ASSUME NEW a \in Approvals PROVE RowOK(approval'[a], effect'[a], log'[a])
  <2>1. CASE a \in S
    <3>1. /\ approval[a].status = "pending"
          /\ approval'[a] = [approval[a] EXCEPT !.status = st]
          /\ effect'[a] = [effect[a] EXCEPT !.status = "pending", !.wait = 0]
          /\ log'[a] = Append(log[a], "approval_resolved")
      BY <2>1 DEF ResolveAll, Pending
    <3>2. RowOK(approval[a], effect[a], log[a])
      BY DEF Inv
    <3>3. RowOK([approval[a] EXCEPT !.status = st],
                [effect[a] EXCEPT !.status = "pending", !.wait = 0],
                Append(log[a], "approval_resolved"))
      BY <3>1, <3>2, ResolveRow
    <3> QED BY <3>1, <3>3
  <2>2. CASE a \notin S
    BY <2>2 DEF ResolveAll, Inv
  <2> QED BY <2>1, <2>2
<1> QED BY <1>1, <1>2 DEF Inv

\* Every operation keeps the rows of every approval consistent.
LEMMA StepInv == Inv /\ [ApprovalNext]_approvalVars => Inv'
<1> SUFFICES ASSUME Inv, [ApprovalNext]_approvalVars PROVE Inv'
  OBVIOUS
<1>0. \A a \in Approvals : /\ RowOK(approval[a], effect[a], log[a])
                          /\ effect[a] \in EffectRecord /\ approval[a] \in ApprovalRecord
  BY DEF Inv, RowOK
<1>1. ASSUME NEW a \in Approvals, NEW kind \in Kinds, NEW p \in Payloads,
             NEW resumable \in BOOLEAN, CreateRequest(a, kind, p, resumable)
      PROVE  Inv'
  <2> DEFINE r == NewRequest(kind, p, resumable)
  <2>1. approval[a].status = "none"
    BY <1>1 DEF CreateRequest
  <2>2. RowOK(r, NewEffect("blocked"), log[a])
    BY <1>0, <2>1, NewRow
  <2>3. /\ approval' = [approval EXCEPT ![a] = r]
        /\ effect' = [effect EXCEPT ![a] = NewEffect("blocked")]
        /\ log' = [log EXCEPT ![a] = log[a]]
    BY <1>1 DEF CreateRequest, Inv, Tables
  <2> HIDE DEF r
  <2> QED BY <2>2, <2>3, OneRow
<1>12. ASSUME NEW a \in Approvals, NEW p \in Payloads, CreateSkillApprovalBundle(a, p)
       PROVE  Inv'
  <2> DEFINE r == NewRequest("skill_write", p, TRUE)
             l == <<"approval">>
  <2>1. approval[a].status = "none" /\ "skill_write" \in Kinds
    BY <1>12 DEF CreateSkillApprovalBundle
  <2>2. RowOK(r, NewEffect("blocked"), log[a])
    BY <1>0, <2>1, NewRow
  <2>3. r.status = "pending"
    BY DEF NewRequest
  <2>4. /\ l \in Seq(Event) /\ Len(l) = 1 /\ l[1] = "approval"
        /\ \A i, j \in 1..Len(l) : i = j
    BY DEF Event
  <2>5. /\ approval' = [approval EXCEPT ![a] = r]
        /\ effect' = [effect EXCEPT ![a] = NewEffect("blocked")]
        /\ log' = [log EXCEPT ![a] = l]
    BY <1>12 DEF CreateSkillApprovalBundle
  <2>6. NewEffect("blocked").status = "blocked"
    BY DEF NewEffect
  <2> HIDE DEF r, l
  <2>7. ~In(l, "approval_resolved") /\ ~In(l, "write_proposal")
    BY <2>4 DEF In
  <2>8. RowOK(r, NewEffect("blocked"), l)
    BY <2>2, <2>3, <2>4, <2>6, <2>7 DEF RowOK, Terminal
  <2> QED BY <2>5, <2>8, OneRow
<1>2. ASSUME NEW a \in Approvals, AnnounceRequest(a) PROVE Inv'
  <2> DEFINE l == Append(log[a], "approval")
  <2>1. ~In(log[a], "approval")
    BY <1>2 DEF AnnounceRequest, Logged, In
  <2>2. /\ l \in Seq(Event)
        /\ \A i, j \in 1..Len(l) : l[i] = l[j] => i = j
        /\ In(l, "approval_resolved") <=> In(log[a], "approval_resolved")
        /\ In(l, "write_proposal") <=> In(log[a], "write_proposal")
    BY <1>0, <2>1, AppendEvent DEF RowOK, Event
  <2> HIDE DEF l
  <2>3. RowOK(approval[a], effect[a], l)
    BY <1>0, <2>2 DEF RowOK
  <2>4. /\ approval' = [approval EXCEPT ![a] = approval[a]]
        /\ effect' = [effect EXCEPT ![a] = effect[a]]
        /\ log' = [log EXCEPT ![a] = l]
    BY <1>2 DEF AnnounceRequest, l, Inv, Tables
  <2> QED BY <2>3, <2>4, OneRow
<1>3. ASSUME NEW a \in Approvals, HeartbeatRequest(a) PROVE Inv'
  <2> DEFINE r == [approval[a] EXCEPT !.beat = 0]
  <2>1. r \in ApprovalRecord /\ r.status = approval[a].status /\ r.kind = approval[a].kind
    BY <1>0, ApprovalAssumption DEF ApprovalRecord
  <2> HIDE DEF r
  <2>2. RowOK(r, effect[a], log[a])
    BY <1>0, <2>1 DEF RowOK
  <2>3. /\ approval' = [approval EXCEPT ![a] = r]
        /\ effect' = [effect EXCEPT ![a] = effect[a]]
        /\ log' = [log EXCEPT ![a] = log[a]]
    BY <1>3 DEF HeartbeatRequest, r, Inv, Tables
  <2> QED BY <2>2, <2>3, OneRow
<1>4. ASSUME NEW S, NEW st \in Terminal, ResolveAll(S, st) PROVE Inv'
  BY <1>4, ResolveInv
<1>5. ASSUME NEW a \in Approvals, NEW o \in Owners, NEW lease \in 0..MaxLease,
             ClaimEffect(a, o, lease)
      PROVE  Inv'
  <2> DEFINE n == Least(effect[a].attempts + 1, MaxAttempts)
             f == [status |-> "claimed", attempts |-> n, epoch |-> effect[a].epoch + 1,
                   owner |-> o, lock |-> 0, wait |-> effect[a].wait]
  <2>1. effect[a].status \in {"pending", "claimed"}
    BY <1>5 DEF ClaimEffect, Claimable
  <2>2. n \in 0..MaxAttempts
    <3>1. effect[a].attempts + 1 \in Nat
      BY <1>0, ApprovalAssumption DEF EffectRecord
    <3> QED BY <3>1, ApprovalAssumption, LeastTyped
  <2>3. effect[a].epoch + 1 \in 0..MaxEpoch
    BY <1>0, <1>5, ApprovalAssumption DEF ClaimEffect, EffectRecord
  <2>4. f \in EffectRecord /\ f.owner # None /\ f.status = "claimed"
    BY <1>0, <2>2, <2>3, ApprovalAssumption DEF EffectRecord
  <2>5. effect' = [effect EXCEPT ![a] = f] /\ approval' = approval /\ log' = log
    BY <1>5 DEF ClaimEffect
  <2> HIDE DEF f
  <2>6. RowOK(approval[a], f, log[a])
    BY <1>0, <2>1, <2>4, LeaseRow
  <2> QED BY <2>5, <2>6, OneEffect
<1>6. ASSUME NEW a \in Approvals, NEW o \in Owners, NEW epoch \in 0..MaxEpoch,
             HeartbeatEffect(a, o, epoch)
      PROVE  Inv'
  <2> DEFINE f == [effect[a] EXCEPT !.lock = 0]
  <2>1. effect[a].status = "claimed" /\ effect[a].owner = o
    BY <1>6 DEF HeartbeatEffect, Holds
  <2>2. f \in EffectRecord /\ f.owner # None /\ f.status = "claimed"
    BY <1>0, <2>1, ApprovalAssumption DEF EffectRecord
  <2>3. effect' = [effect EXCEPT ![a] = f] /\ approval' = approval /\ log' = log
    BY <1>6 DEF HeartbeatEffect
  <2> HIDE DEF f
  <2>4. RowOK(approval[a], f, log[a])
    BY <1>0, <2>1, <2>2, LeaseRow
  <2> QED BY <2>3, <2>4, OneEffect
<1>7. ASSUME NEW a \in Approvals, NEW o \in Owners, NEW epoch \in 0..MaxEpoch,
             CompleteEffect(a, o, epoch)
      PROVE  Inv'
  <2> DEFINE f == [status |-> "applied", attempts |-> effect[a].attempts,
                   epoch |-> effect[a].epoch, owner |-> None, lock |-> 0, wait |-> 0]
  <2>1. effect[a].status = "claimed" /\ approval[a].kind \in Continuations
    BY <1>7 DEF CompleteEffect, Holds
  <2>2. f \in EffectRecord /\ f.owner = None /\ f.status = "applied"
    BY <1>0, ReleaseTyped, ApprovalAssumption
  <2>3. effect' = [effect EXCEPT ![a] = f] /\ approval' = approval /\ log' = log
    BY <1>7 DEF CompleteEffect, Release
  <2> HIDE DEF f
  <2>4. RowOK(approval[a], f, log[a])
    BY <1>0, <2>1, <2>2, LeaseRow
  <2> QED BY <2>3, <2>4, OneEffect
<1>8. ASSUME NEW a \in Approvals, NEW o \in Owners, NEW epoch \in 0..MaxEpoch,
             FailEffect(a, o, epoch)
      PROVE  Inv'
  <2> PICK st \in {"pending", "failed"} : Release(a, st, Backoff)
    BY <1>8 DEF FailEffect
  <2> DEFINE f == [status |-> st, attempts |-> effect[a].attempts,
                   epoch |-> effect[a].epoch, owner |-> None, lock |-> 0, wait |-> Backoff]
  <2>1. effect[a].status = "claimed"
    BY <1>8 DEF FailEffect, Holds
  <2>2. f \in EffectRecord /\ f.owner = None /\ f.status = st
    BY <1>0, ReleaseTyped, ApprovalAssumption
  <2>3. effect' = [effect EXCEPT ![a] = f] /\ approval' = approval /\ log' = log
    BY <1>8 DEF FailEffect, Release
  <2> HIDE DEF f
  <2>4. RowOK(approval[a], f, log[a])
    BY <1>0, <2>1, <2>2, LeaseRow
  <2> QED BY <2>3, <2>4, OneEffect
<1>9. ASSUME NEW a \in Approvals, NEW o \in Owners, NEW epoch \in 0..MaxEpoch,
             CompleteEffectWithEvent(a, o, epoch)
      PROVE  Inv'
  <2> DEFINE f == [status |-> "applied", attempts |-> effect[a].attempts,
                   epoch |-> effect[a].epoch, owner |-> None, lock |-> 0, wait |-> 0]
             l == Append(log[a], "write_proposal")
  <2>1. effect[a].status = "claimed" /\ approval[a].kind \notin Continuations
    BY <1>9 DEF CompleteEffectWithEvent, Holds
  <2>2. f \in EffectRecord /\ f.owner = None /\ f.status = "applied"
    BY <1>0, ReleaseTyped, ApprovalAssumption
  <2>3. ~In(log[a], "write_proposal")
    BY <1>0, <2>1 DEF RowOK
  <2>4. /\ l \in Seq(Event)
        /\ \A i, j \in 1..Len(l) : l[i] = l[j] => i = j
        /\ In(l, "approval_resolved") <=> In(log[a], "approval_resolved")
        /\ In(l, "write_proposal")
    BY <1>0, <2>3, AppendEvent DEF RowOK, Event
  <2>5. /\ approval' = [approval EXCEPT ![a] = approval[a]]
        /\ effect' = [effect EXCEPT ![a] = f]
        /\ log' = [log EXCEPT ![a] = l]
    BY <1>9 DEF CompleteEffectWithEvent, Release, Inv, Tables
  <2> HIDE DEF f, l
  <2>6. RowOK(approval[a], f, l)
    BY <1>0, <2>1, <2>2, <2>4 DEF RowOK
  <2> QED BY <2>5, <2>6, OneRow
<1>10. ASSUME ApprovalTick PROVE Inv'
  <2>1. Tables'
    BY <1>10 DEF ApprovalTick, Inv, Tables
  <2>2. ASSUME NEW a \in Approvals PROVE RowOK(approval'[a], effect'[a], log'[a])
    BY <1>0, <1>10, OlderRow DEF ApprovalTick
  <2> QED BY <2>1, <2>2 DEF Inv
<1>11. ASSUME UNCHANGED approvalVars PROVE Inv'
  BY <1>11 DEF approvalVars, Inv, Tables
<1> QED
  BY <1>1, <1>2, <1>3, <1>4, <1>5, <1>6, <1>7, <1>8, <1>9, <1>10, <1>11, <1>12
  DEF ApprovalNext, Resolve, CancelStaleNonResumable, ExpirePending, Terminal

\* The invariant holds in every state of the store.
LEMMA InvHolds == ApprovalSpec => []Inv
<1>1. ApprovalInit => Inv
  BY ApprovalAssumption DEF ApprovalInit, Inv, Tables, RowOK, In, NoApproval, NewEffect,
     ApprovalRecord, EffectRecord, Terminal
<1> QED BY <1>1, StepInv, PTL DEF ApprovalSpec

\* The columns of approval_requests and approval_effects keep their types, and
\* a lease is held exactly while its effect is claimed.
THEOREM ApprovalTypeCorrect == ApprovalSpec => []ApprovalTypeOK
BY InvHolds, InvMeaning, PTL

\* No effect leaves its blocked state before the decision, and the event log
\* tells each decision and each applied proposal exactly once.
THEOREM ApprovalSafety == ApprovalSpec => [](EffectAwaitsDecision /\ OutcomeToldOnce)
BY InvHolds, InvMeaning, PTL

\* The first decision of a request and the end of its effect are final.
THEOREM DecisionIsFinal == ApprovalSpec => DecidedIsFinal
<1>1. Inv /\ [ApprovalNext]_approvalVars =>
        [\A a \in Approvals :
           /\ approval[a].status \in Terminal => approval'[a].status = approval[a].status
           /\ effect[a].status \in {"applied", "failed"} => effect'[a] = effect[a]]_approvalVars
  <2> SUFFICES ASSUME Inv, ApprovalNext, NEW a \in Approvals
               PROVE  /\ approval[a].status \in Terminal =>
                           approval'[a].status = approval[a].status
                      /\ effect[a].status \in {"applied", "failed"} => effect'[a] = effect[a]
    OBVIOUS
  <2>0. /\ RowOK(approval[a], effect[a], log[a]) /\ Tables
        /\ approval[a] \in ApprovalRecord /\ effect[a] \in EffectRecord
    BY DEF Inv, RowOK
  <2>1. ASSUME NEW b \in Approvals, NEW kind \in Kinds, NEW p \in Payloads,
               NEW resumable \in BOOLEAN, CreateRequest(b, kind, p, resumable)
        PROVE  /\ approval[a].status \in Terminal => approval'[a] = approval[a]
               /\ effect[a].status \in {"applied", "failed"} => effect'[a] = effect[a]
    BY <2>0, <2>1 DEF CreateRequest, Tables, RowOK, Terminal
  <2>8. ASSUME NEW b \in Approvals, NEW p \in Payloads, CreateSkillApprovalBundle(b, p)
        PROVE  /\ approval[a].status \in Terminal => approval'[a] = approval[a]
               /\ effect[a].status \in {"applied", "failed"} => effect'[a] = effect[a]
    BY <2>0, <2>8 DEF CreateSkillApprovalBundle, Tables, RowOK, Terminal
  <2>2. ASSUME NEW b \in Approvals, AnnounceRequest(b)
        PROVE  approval' = approval /\ effect' = effect
    BY <2>2 DEF AnnounceRequest
  <2>3. ASSUME NEW b \in Approvals, HeartbeatRequest(b)
        PROVE  /\ approval[a].status \in Terminal => approval'[a] = approval[a]
               /\ effect' = effect
    BY <2>0, <2>3 DEF HeartbeatRequest, Pending, Tables, Terminal
  <2>4. ASSUME NEW S, NEW st, ResolveAll(S, st)
        PROVE  /\ approval[a].status \in Terminal => approval'[a] = approval[a]
               /\ effect[a].status \in {"applied", "failed"} => effect'[a] = effect[a]
    BY <2>0, <2>4 DEF ResolveAll, Pending, RowOK, Terminal
  <2>5. ASSUME NEW b \in Approvals, NEW o \in Owners, NEW lease \in 0..MaxLease,
               ClaimEffect(b, o, lease)
        PROVE  /\ approval' = approval
               /\ effect[a].status \in {"applied", "failed"} => effect'[a] = effect[a]
    BY <2>0, <2>5 DEF ClaimEffect, Claimable, Tables
  <2>6. ASSUME NEW b \in Approvals, NEW o \in Owners, NEW epoch \in 0..MaxEpoch,
               \/ HeartbeatEffect(b, o, epoch) \/ CompleteEffect(b, o, epoch)
               \/ CompleteEffectWithEvent(b, o, epoch) \/ FailEffect(b, o, epoch)
        PROVE  /\ approval' = approval
               /\ effect[a].status \in {"applied", "failed"} => effect'[a] = effect[a]
    BY <2>0, <2>6 DEF HeartbeatEffect, CompleteEffect, CompleteEffectWithEvent, FailEffect,
       Holds, Release, Tables
  <2>7. ASSUME ApprovalTick
        PROVE  /\ approval[a].status \in Terminal => approval'[a] = approval[a]
               /\ effect[a].status \in {"applied", "failed"} => effect'[a] = effect[a]
    BY <2>0, <2>7 DEF ApprovalTick, Pending, OlderEffect, Terminal
  <2> QED
    BY <2>1, <2>2, <2>3, <2>4, <2>5, <2>6, <2>7, <2>8
    DEF ApprovalNext, Resolve, CancelStaleNonResumable, ExpirePending
<1> QED BY <1>1, InvHolds, PTL DEF ApprovalSpec, DecidedIsFinal

\* Everything the approval tables promise their callers: effects wait for the
\* decision, each outcome is told once, and both are final.
THEOREM ApprovalsAreCorrect == ApprovalSpec => ApprovalsCorrect
BY ApprovalTypeCorrect, ApprovalSafety, DecisionIsFinal, PTL DEF ApprovalsCorrect

-----------------------------------------------------------------------------
(* The broker, the handlers and the workers: the inductive invariant.  Inv *)
(* is that of the tables.                                                  *)

JobSet == [phase : Phases, of : Approvals \cup {None}, epoch : 0..MaxEpoch,
           choice : Terminal \cup {None}]

\* What a job under a lease, past its lease or not, knows of its request: that it is
\* decided, what was decided, and whether an approved proposal has run.
JobOK(o) ==
  LET j == job[o] IN
  /\ j.phase # "idle" => j.of \in Approvals
  /\ j.phase = "resolve" => j.choice \in Terminal
  /\ j.phase \in {"held", "mutate", "install", "update", "finish", "fail"} =>
       approval[j.of].status \in Terminal
  /\ j.phase \in {"mutate", "install", "update", "finish"} => Kind(j.of) \notin Continuations
  /\ j.phase = "install" => approval[j.of].status = "approved"
  /\ j.phase \in {"update", "finish"} /\ approval[j.of].status = "approved" => done[j.of]

\* A proposal goes from one content to another.
ProposalOK(a) ==
  approval[a].status # "none" /\ Kind(a) \notin Continuations =>
    Expected(a) \in Digests /\ Target(a) \in Digests

FlowInv ==
  /\ Inv /\ FlowTypeOK
  /\ AppliedAsDecided /\ WaiterHearsDecision
  /\ \A o \in Owners : JobOK(o)
  /\ \A a \in Approvals : ProposalOK(a)

-----------------------------------------------------------------------------
(* What a step of the store keeps of a request, seen from outside.         *)

\* A new request.
Creates(a, kind, p, resumable) ==
  CreateRequest(a, kind, p, resumable) \/ (kind = "skill_write" /\ CreateSkillApprovalBundle(a, p))

\* Every other operation of the store but the completion of a proposal.
CalmStore ==
  \/ UNCHANGED approvalVars
  \/ \E a \in Approvals :
       \/ AnnounceRequest(a)
       \/ HeartbeatRequest(a)
       \/ \E status \in Terminal : Resolve(a, status)
       \/ \E o \in Owners, lease \in 0..MaxLease : ClaimEffect(a, o, lease)
       \/ \E o \in Owners, epoch \in 0..MaxEpoch :
            HeartbeatEffect(a, o, epoch) \/ CompleteEffect(a, o, epoch) \/ FailEffect(a, o, epoch)
  \/ CancelStaleNonResumable \/ ExpirePending \/ ApprovalTick

\* A request keeps what it is for, and its decision.
Lasting(b) ==
  /\ approval[b].status # "none" =>
       /\ approval'[b].status # "none" /\ approval'[b].kind = approval[b].kind
       /\ approval'[b].payload = approval[b].payload
  /\ approval[b].status \in Terminal => approval'[b].status = approval[b].status

\* No request comes to be.
NotNew(b) == approval[b].status = "none" => approval'[b].status = "none"

\* No proposal comes to be applied.
NotApplied(b) ==
  effect'[b].status = "applied" =>
    \/ effect[b].status = "applied"
    \/ approval[b].status # "none" /\ approval[b].kind \in Continuations

\* Ageing a record changes no column a decision is made from.
LEMMA OlderKeeps ==
  ASSUME NEW r \in ApprovalRecord, NEW e \in EffectRecord
  PROVE  /\ Older(r).status = r.status /\ Older(r).kind = r.kind /\ Older(r).payload = r.payload
         /\ OlderEffect(e).status = e.status
BY DEF Older, OlderEffect, ApprovalRecord, EffectRecord

\* A new request leaves the others alone, and its effect blocked.
LEMMA CreateKeeps ==
  ASSUME Inv, NEW a \in Approvals, NEW kind \in Kinds, NEW p \in Payloads,
         NEW resumable \in BOOLEAN, Creates(a, kind, p, resumable), NEW b \in Approvals
  PROVE  /\ Lasting(b) /\ NotApplied(b) /\ (b # a => NotNew(b))
         /\ approval[a].status = "none" /\ approval'[a].status = "pending"
         /\ approval'[a].kind = kind /\ approval'[a].payload = p
BY DEF Creates, CreateRequest, CreateSkillApprovalBundle, Inv, Tables, NewEffect, NewRequest,
       Terminal, Lasting, NotNew, NotApplied

\* The other operations keep every request.
LEMMA CalmKeeps ==
  ASSUME Inv, CalmStore, NEW b \in Approvals
  PROVE  Lasting(b) /\ NotNew(b) /\ NotApplied(b)
<1>1. /\ RowOK(approval[b], effect[b], log[b]) /\ Tables
      /\ approval[b] \in ApprovalRecord /\ effect[b] \in EffectRecord
  BY DEF Inv, RowOK
<1> USE DEF Lasting, NotNew, NotApplied
<1>2. ASSUME NEW a \in Approvals, AnnounceRequest(a) PROVE Lasting(b) /\ NotNew(b) /\ NotApplied(b)
  BY <1>2 DEF AnnounceRequest
<1>3. ASSUME NEW a \in Approvals, HeartbeatRequest(a) PROVE Lasting(b) /\ NotNew(b) /\ NotApplied(b)
  <2>1. CASE a = b
    <3>1. approval' = [approval EXCEPT ![b] = [approval[b] EXCEPT !.beat = 0]]
      BY <1>1, <1>3, <2>1 DEF HeartbeatRequest, Tables, ApprovalRecord
    <3> QED BY <1>1, <1>3, <3>1 DEF HeartbeatRequest, Tables, ApprovalRecord
  <2> QED BY <1>1, <1>3, <2>1 DEF HeartbeatRequest, Tables
<1>4. ASSUME NEW S, NEW st \in Terminal, ResolveAll(S, st) PROVE Lasting(b) /\ NotNew(b) /\ NotApplied(b)
  <2>1. CASE b \in S
    <3>1. /\ approval'[b] = [approval[b] EXCEPT !.status = st] /\ approval[b].status = "pending"
          /\ effect'[b] = [effect[b] EXCEPT !.status = "pending", !.wait = 0]
      BY <1>4, <2>1 DEF ResolveAll, Pending
    <3> QED BY <1>1, <3>1 DEF ApprovalRecord, EffectRecord, Terminal
  <2>2. CASE b \notin S
    BY <1>4, <2>2 DEF ResolveAll
  <2> QED BY <2>1, <2>2
<1>5. ASSUME NEW a \in Approvals, NEW o \in Owners, NEW lease \in 0..MaxLease,
             ClaimEffect(a, o, lease)
      PROVE  Lasting(b) /\ NotNew(b) /\ NotApplied(b)
  BY <1>1, <1>5 DEF ClaimEffect, Tables
<1>6. ASSUME NEW a \in Approvals, NEW o \in Owners, NEW epoch \in 0..MaxEpoch,
             HeartbeatEffect(a, o, epoch) \/ CompleteEffect(a, o, epoch) \/ FailEffect(a, o, epoch)
      PROVE  Lasting(b) /\ NotNew(b) /\ NotApplied(b)
  <2>1. CASE HeartbeatEffect(a, o, epoch)
    BY <1>1, <2>1 DEF HeartbeatEffect, Holds, Tables
  <2>2. CASE CompleteEffect(a, o, epoch)
    BY <1>1, <2>2 DEF CompleteEffect, Holds, Release, Tables, RowOK
  <2>3. CASE FailEffect(a, o, epoch)
    BY <1>1, <2>3 DEF FailEffect, Release, Tables
  <2> QED BY <1>6, <2>1, <2>2, <2>3
<1>7. ASSUME ApprovalTick PROVE Lasting(b) /\ NotNew(b) /\ NotApplied(b)
  BY <1>1, <1>7, OlderKeeps DEF ApprovalTick, Pending
<1>8. CASE UNCHANGED approvalVars
  BY <1>8 DEF approvalVars
<1>9. CASE CancelStaleNonResumable \/ ExpirePending
  <2>1. {"cancelled", "timed_out"} \subseteq Terminal
    BY DEF Terminal
  <2> HIDE DEF Lasting, NotNew, NotApplied
  <2> QED BY <1>4, <1>9, <2>1 DEF CancelStaleNonResumable, ExpirePending
<1> HIDE DEF Lasting, NotNew, NotApplied
<1> QED BY <1>2, <1>3, <1>4, <1>5, <1>6, <1>7, <1>8, <1>9 DEF CalmStore, Resolve

\* A completed proposal keeps its request; the others keep their effects too.
LEMMA EndKeeps ==
  ASSUME Inv, NEW a \in Approvals, NEW o, NEW epoch, CompleteEffectWithEvent(a, o, epoch),
         NEW b \in Approvals
  PROVE  Lasting(b) /\ NotNew(b) /\ (b # a => NotApplied(b))
BY DEF Inv, Tables, CompleteEffectWithEvent, Release, Lasting, NotNew, NotApplied

\* A calm step is a step of the store.
LEMMA CalmIsStep == CalmStore => [ApprovalNext]_approvalVars
<1>1. CASE UNCHANGED approvalVars
  BY <1>1
<1>2. CASE ~UNCHANGED approvalVars
  BY <1>2 DEF CalmStore, ApprovalNext
<1> QED BY <1>1, <1>2

-----------------------------------------------------------------------------
(* What a step of the flow keeps.                                          *)

\* The variables beside the rows, the waits and the jobs.
SidesTyped ==
  /\ asset' \in [Assets -> [active : Digests, from : Digests \cup {None}]]
  /\ stored' \in [Approvals -> {"reviewed", "updated"}]
  /\ faults' \in 0..MaxFaults
  /\ done' \in [Approvals -> BOOLEAN]
  /\ changes' \in [Approvals -> 0..2]

Waits == {"none", "emit", "emitWait", "waiting", "gone"} \cup Terminal

\* Only what was approved comes to be done, and it stays so.
DoneMoves(b) ==
  /\ done[b] => done'[b]
  /\ done'[b] => done[b] \/ approval[b].status = "approved"

\* Whoever is told a decision is told the stored one.
WaiterMoves(b) ==
  waiter'[b] \in Terminal => waiter'[b] = waiter[b] \/ waiter'[b] = approval'[b].status

\* A job that did not move knows what it knew.
LEMMA JobKept ==
  ASSUME FlowInv, \A b \in Approvals : Lasting(b) /\ DoneMoves(b),
         NEW o \in Owners, job'[o] = job[o]
  PROVE  JobOK(o)'
<1>1. JobOK(o)
  BY DEF FlowInv
<1>2. CASE job[o].of \in Approvals
  <2>1. Lasting(job[o].of) /\ DoneMoves(job[o].of)
    BY <1>2
  <2> QED BY <1>1, <1>2, <2>1 DEF JobOK, Lasting, DoneMoves, Kind, Terminal
<1>3. CASE job[o].of \notin Approvals
  <2>1. job[o].phase = "idle"
    BY <1>1, <1>3 DEF JobOK
  <2> QED BY <2>1 DEF JobOK
<1> QED BY <1>2, <1>3

\* A proposal stays the proposal it was.
LEMMA ProposalKept ==
  ASSUME FlowInv, NEW b \in Approvals, Lasting(b), NotNew(b)
  PROVE  ProposalOK(b)'
<1>1. ProposalOK(b)
  BY DEF FlowInv
<1> QED BY <1>1 DEF ProposalOK, Lasting, NotNew, Kind, Expected, Target

\* The invariant from its parts.
LEMMA FlowStep ==
  ASSUME FlowInv, Inv', SidesTyped, waiter' \in [Approvals -> Waits],
         job' \in [Owners -> JobSet],
         \A o \in Owners : job'[o] = job[o] \/ JobOK(o)',
         \A b \in Approvals : ProposalOK(b)',
         \A b \in Approvals : Lasting(b) /\ DoneMoves(b) /\ WaiterMoves(b),
         \A b \in Approvals :
           NotApplied(b) \/ (approval[b].status \in Terminal \ {"approved"} \/ done[b])
  PROVE  FlowInv'
<1>1. FlowTypeOK'
  BY DEF FlowTypeOK, SidesTyped, Waits, JobSet
<1>2. ASSUME NEW o \in Owners PROVE JobOK(o)'
  BY JobKept
<1>3. ASSUME NEW b \in Approvals
      PROVE  /\ done'[b] => approval'[b].status = "approved"
             /\ /\ effect'[b].status = "applied" /\ approval'[b].kind \notin Continuations
                /\ approval'[b].status = "approved"
                => done'[b]
  <2>1. RowOK(approval[b], effect[b], log[b]) /\ Lasting(b) /\ DoneMoves(b)
    BY DEF FlowInv, Inv
  <2>2. /\ done[b] => approval[b].status = "approved"
        /\ /\ effect[b].status = "applied" /\ approval[b].kind \notin Continuations
           /\ approval[b].status = "approved"
           => done[b]
    BY DEF FlowInv, AppliedAsDecided, Kind
  <2>3. "approved" \in Terminal
    BY DEF Terminal
  <2>4. done'[b] => approval'[b].status = "approved"
    BY <2>1, <2>2, <2>3 DEF Lasting, DoneMoves
  <2>5. CASE NotApplied(b)
    <3>1. ASSUME effect'[b].status = "applied", approval'[b].kind \notin Continuations,
                 approval'[b].status = "approved"
          PROVE  done'[b]
      <4>1. CASE effect[b].status = "applied"
        <5>1. approval[b].status \in Terminal
          BY <2>1, <4>1 DEF RowOK, ApprovalRecord
        <5>2. approval[b].status = "approved" /\ approval[b].kind = approval'[b].kind
          BY <2>1, <3>1, <5>1 DEF Lasting, Terminal
        <5> QED BY <2>1, <2>2, <3>1, <4>1, <5>2 DEF DoneMoves
      <4>2. CASE effect[b].status # "applied"
        <5>1. approval[b].status # "none" /\ approval[b].kind \in Continuations
          BY <2>5, <3>1, <4>2 DEF NotApplied
        <5> QED BY <2>1, <3>1, <5>1 DEF Lasting
      <4> QED BY <4>1, <4>2
    <3> QED BY <2>4, <3>1
  <2>6. CASE approval[b].status \in Terminal \ {"approved"} \/ done[b]
    BY <2>1, <2>3, <2>4, <2>6 DEF Lasting, DoneMoves
  <2> QED BY <2>5, <2>6
<1>4. AppliedAsDecided'
  BY <1>3 DEF AppliedAsDecided, Kind
<1>5. WaiterHearsDecision'
  BY DEF WaiterHearsDecision, FlowInv, WaiterMoves, Lasting
<1> QED BY <1>1, <1>2, <1>4, <1>5 DEF FlowInv

\* The same for a step that takes a calm step of the store.
LEMMA CalmFlow ==
  ASSUME FlowInv, CalmStore, SidesTyped, waiter' \in [Approvals -> Waits],
         job' \in [Owners -> JobSet],
         \A o \in Owners : job'[o] = job[o] \/ JobOK(o)',
         \A b \in Approvals : DoneMoves(b) /\ WaiterMoves(b)
  PROVE  FlowInv' /\ [ApprovalNext]_approvalVars
<1>1. Inv /\ [ApprovalNext]_approvalVars
  BY CalmIsStep DEF FlowInv
<1>2. Inv'
  BY <1>1, StepInv
<1>3. \A b \in Approvals : Lasting(b) /\ NotNew(b) /\ NotApplied(b)
  BY <1>1, CalmKeeps
<1>4. \A b \in Approvals : ProposalOK(b)'
  BY <1>3, ProposalKept
<1> QED BY <1>1, <1>2, <1>3, <1>4, FlowStep

-----------------------------------------------------------------------------
(* Updates of the jobs and of the variables beside them.                   *)

JobMoves(o) == job' \in [Owners -> JobSet] /\ \A p \in Owners \ {o} : job'[p] = job[p]

\* The jobs are records of jobs.
LEMMA Typing ==
  FlowTypeOK => /\ job \in [Owners -> JobSet] /\ waiter \in [Approvals -> Waits]
                /\ done \in [Approvals -> BOOLEAN] /\ faults \in 0..MaxFaults
                /\ asset \in [Assets -> [active : Digests, from : Digests \cup {None}]]
                /\ stored \in [Approvals -> {"reviewed", "updated"}]
                /\ changes \in [Approvals -> 0..2]
BY DEF FlowTypeOK, JobSet, Waits

\* A job goes on.
LEMMA ToMeans ==
  ASSUME FlowTypeOK, NEW o \in Owners, NEW ph \in Phases, To(o, ph)
  PROVE  /\ JobMoves(o) /\ job'[o].phase = ph /\ job'[o].of = job[o].of
         /\ job'[o].choice = job[o].choice
<1>1. job \in [Owners -> JobSet]
  BY Typing
<1>2. job' = [job EXCEPT ![o] = [job[o] EXCEPT !.phase = ph]]
  BY <1>1 DEF To, JobSet
<1>3. [job[o] EXCEPT !.phase = ph] \in JobSet
  BY <1>1 DEF JobSet
<1>4. JobMoves(o) /\ job'[o] = [job[o] EXCEPT !.phase = ph]
  BY <1>1, <1>2, <1>3 DEF JobMoves
<1> QED BY <1>1, <1>4 DEF JobSet

\* A job begins.
LEMMA BeginMeans ==
  ASSUME FlowTypeOK, NEW o \in Owners, NEW ph \in Phases, NEW a \in Approvals \cup {None},
         NEW e \in 0..MaxEpoch, NEW d \in Terminal \cup {None},
         job' = [job EXCEPT ![o] = Job(ph, a, e, d)]
  PROVE  JobMoves(o) /\ job'[o].phase = ph /\ job'[o].of = a /\ job'[o].choice = d
<1>1. job \in [Owners -> JobSet]
  BY Typing
<1>2. /\ Job(ph, a, e, d) \in JobSet /\ Job(ph, a, e, d).phase = ph
      /\ Job(ph, a, e, d).of = a /\ Job(ph, a, e, d).choice = d
  BY DEF Job, JobSet
<1> QED BY <1>1, <1>2 DEF JobMoves

\* A job ends.
LEMMA StopMeans ==
  ASSUME FlowTypeOK, NEW o \in Owners, Stop(o)
  PROVE  JobMoves(o) /\ job'[o].phase = "idle" /\ JobOK(o)'
<1>1. job \in [Owners -> JobSet]
  BY Typing
<1>2. Idle \in JobSet /\ Idle.phase = "idle"
  BY ApprovalAssumption DEF Idle, JobSet, Phases
<1>3. JobMoves(o) /\ job'[o] = Idle
  BY <1>1, <1>2 DEF Stop, JobMoves
<1> QED BY <1>2, <1>3 DEF JobOK

\* Nothing beside the rows, the waits and the jobs changes.
LEMMA SidesStay ==
  ASSUME FlowInv, UNCHANGED <<asset, stored, done, changes>>, UNCHANGED faults \/ Fault
  PROVE  SidesTyped /\ \A b \in Approvals : DoneMoves(b)
<1>1. FlowTypeOK
  BY DEF FlowInv
<1>2. faults' \in 0..MaxFaults
  BY <1>1, Typing, FlowAssumption DEF Fault
<1> QED BY <1>1, <1>2, Typing DEF SidesTyped, DoneMoves

\* A wait that is told nothing.
LEMMA WaitersStay == UNCHANGED waiter => \A b \in Approvals : WaiterMoves(b)
BY DEF WaiterMoves

\* A job moves and nothing else does but the rows, calmly.
LEMMA JobFlow ==
  ASSUME FlowInv, CalmStore, NEW o \in Owners, JobMoves(o), JobOK(o)',
         UNCHANGED <<waiter, asset, stored, done, changes>>, UNCHANGED faults \/ Fault
  PROVE  FlowInv' /\ [ApprovalNext]_approvalVars
<1>1. SidesTyped /\ \A b \in Approvals : DoneMoves(b)
  BY SidesStay
<1>2. \A b \in Approvals : WaiterMoves(b)
  BY WaitersStay
<1>3. waiter' \in [Approvals -> Waits]
  BY Typing DEF FlowInv
<1>4. \A p \in Owners : job'[p] = job[p] \/ JobOK(p)'
  BY DEF JobMoves
<1> QED BY <1>1, <1>2, <1>3, <1>4, CalmFlow DEF JobMoves

\* A mutation of what was approved.
LEMMA ChangeMeans ==
  ASSUME FlowInv, NEW a \in Approvals, approval[a].status = "approved",
         Kind(a) \notin Continuations, Change(a), UNCHANGED <<stored, faults>>
  PROVE  SidesTyped /\ (\A b \in Approvals : DoneMoves(b)) /\ done'[a]
<1>1. FlowTypeOK /\ ProposalOK(a)
  BY DEF FlowInv
<1>2. Expected(a) \in Digests /\ Target(a) \in Digests
  BY <1>1 DEF ProposalOK
<1>3. asset' \in [Assets -> [active : Digests, from : Digests \cup {None}]]
  <2> DEFINE x == [active |-> Target(a),
                   from |-> IF Kind(a) = "addendum_rollback" THEN Expected(a) ELSE None]
  <2>1. x \in [active : Digests, from : Digests \cup {None}]
    BY <1>2
  <2>2. asset' = [asset EXCEPT ![AssetOf[Kind(a)]] = x]
    BY DEF Change
  <2> HIDE DEF x
  <2> QED BY <1>1, <2>1, <2>2, Typing
<1>4. /\ done' \in [Approvals -> BOOLEAN] /\ done'[a]
      /\ \A b \in Approvals \ {a} : done'[b] = done[b]
  BY <1>1, Typing DEF Change
<1>5. changes' \in [Approvals -> 0..2]
  <2>1. changes \in [Approvals -> 0..2]
    BY <1>1, Typing
  <2>2. Least(changes[a] + 1, 2) \in 0..2
    <3>1. changes[a] + 1 \in Nat
      BY <2>1
    <3> QED BY <3>1, LeastTyped
  <2> QED BY <2>1, <2>2 DEF Change
<1> QED BY <1>1, <1>3, <1>4, <1>5, Typing DEF SidesTyped, DoneMoves

-----------------------------------------------------------------------------
(* The steps.                                                              *)

\* A request is made, announced, withdrawn, waited for and heartbeaten.
LEMMA RequestSteps ==
  ASSUME FlowInv, NEW a \in Approvals,
         Propose(a) \/ Announce(a) \/ AnnounceFails(a) \/ WaiterReturns(a) \/ WaiterBeats(a)
  PROVE  FlowInv' /\ [ApprovalNext]_approvalVars
<1>1. FlowTypeOK /\ Inv
  BY DEF FlowInv
<1>2. waiter \in [Approvals -> Waits] /\ job \in [Owners -> JobSet]
  BY <1>1, Typing
<1>3. {"cancelled", "timed_out"} \subseteq Terminal /\ a \in Owners
  BY FlowAssumption DEF Terminal
<1>4. CASE Propose(a)
  <2>1. PICK kind \in Kinds, p \in Payloads :
          /\ IF kind \in Continuations
             THEN p.expected = None /\ p.target = None
             ELSE /\ p.expected = asset[AssetOf[kind]].active
                  /\ p.target \in Digests \ {p.expected}
          /\ IF kind = "skill_write" THEN CreateSkillApprovalBundle(a, p)
             ELSE CreateRequest(a, kind, p, kind \notin Continuations)
          /\ \E w \in CASE kind \in Continuations   -> {"emitWait"}
                        [] kind = "memory_write" -> {"emitWait", "emit"}
                        [] kind = "skill_write"  -> {"gone"}
                        [] OTHER                 -> {"emit"} :
               waiter' = [waiter EXCEPT ![a] = w]
    BY <1>4 DEF Propose
  <2>2. PICK resumable \in BOOLEAN : Creates(a, kind, p, resumable)
    BY <2>1 DEF Creates
  <2>3. /\ \A b \in Approvals : Lasting(b) /\ NotApplied(b) /\ (b # a => NotNew(b))
        /\ approval'[a].kind = kind /\ approval'[a].payload = p
    BY <1>1, <2>2, CreateKeeps
  <2>4. UNCHANGED <<job, asset, stored, faults, done, changes>>
    BY <1>4 DEF Propose
  <2>5. waiter' \in [Approvals -> Waits] /\ \A b \in Approvals : WaiterMoves(b)
    <3>1. PICK w \in {"emitWait", "emit", "gone"} : waiter' = [waiter EXCEPT ![a] = w]
      BY <2>1
    <3>2. w \in Waits /\ w \notin Terminal
      BY DEF Waits, Terminal
    <3> QED BY <1>2, <3>1, <3>2 DEF WaiterMoves
  <2>6. ASSUME NEW b \in Approvals PROVE ProposalOK(b)'
    <3>1. CASE b # a
      BY <2>3, <3>1, ProposalKept
    <3>2. CASE b = a /\ kind \notin Continuations
      <4>1. AssetOf[kind] \in Assets
        BY <3>2, KindAssumption DEF AssetOf, Assets
      <4>2. p.expected \in Digests /\ p.target \in Digests
        BY <1>1, <2>1, <3>2, <4>1, Typing
      <4> QED BY <2>3, <3>2, <4>2 DEF ProposalOK, Expected, Target
    <3>3. CASE b = a /\ kind \in Continuations
      BY <2>3, <3>3 DEF ProposalOK, Kind
    <3> QED BY <3>1, <3>2, <3>3
  <2>7. ApprovalNext
    BY <2>1, <2>2 DEF ApprovalNext, Creates
  <2>8. Inv'
    BY <1>1, <2>7, StepInv
  <2>9. SidesTyped /\ \A b \in Approvals : DoneMoves(b)
    BY <2>4, SidesStay
  <2> QED BY <1>2, <2>3, <2>4, <2>5, <2>6, <2>7, <2>8, <2>9, FlowStep
<1>5. ASSUME CalmStore, UNCHANGED <<job, asset, stored, done, changes>>, UNCHANGED faults \/ Fault,
             waiter' \in [Approvals -> Waits], \A b \in Approvals : WaiterMoves(b)
      PROVE  FlowInv' /\ [ApprovalNext]_approvalVars
  <2>1. SidesTyped /\ \A b \in Approvals : DoneMoves(b)
    BY <1>5, SidesStay
  <2> QED BY <1>2, <1>5, <2>1, CalmFlow
<1>6. CASE Announce(a)
  <2>1. CalmStore
    BY <1>6 DEF Announce, CalmStore
  <2>2. waiter' \in [Approvals -> Waits] /\ \A b \in Approvals : WaiterMoves(b)
    <3>1. PICK w \in {"gone", "waiting"} : waiter' = [waiter EXCEPT ![a] = w]
      BY <1>6 DEF Announce
    <3>2. w \in Waits /\ w \notin Terminal
      BY DEF Waits, Terminal
    <3> QED BY <1>2, <3>1, <3>2 DEF WaiterMoves
  <2> QED BY <1>5, <1>6, <2>1, <2>2 DEF Announce
<1>7. CASE AnnounceFails(a)
  <2>1. CalmStore
    BY <1>3, <1>7 DEF AnnounceFails, CalmStore
  <2>2. waiter' \in [Approvals -> Waits] /\ \A b \in Approvals : WaiterMoves(b)
    <3>1. "gone" \in Waits /\ "gone" \notin Terminal
      BY DEF Waits, Terminal
    <3> QED BY <1>2, <1>7, <3>1 DEF AnnounceFails, WaiterMoves
  <2> QED BY <1>5, <1>7, <2>1, <2>2 DEF AnnounceFails
<1>8. CASE WaiterReturns(a)
  <2>1. CalmStore /\ UNCHANGED <<asset, stored, faults, done, changes>>
    BY <1>3, <1>8 DEF WaiterReturns, CalmStore
  <2>2. PICK outcome : /\ Return(a, outcome)
                       /\ outcome \in Waits
                       /\ outcome \in Terminal => outcome = approval'[a].status
    <3>1. CASE ~Pending(a) /\ Return(a, approval[a].status) /\ UNCHANGED approvalVars
      <4>1. approval[a].status \in {"none"} \cup Terminal
        BY <1>1, <3>1 DEF Inv, RowOK, ApprovalRecord, Pending
      <4> QED BY <3>1, <4>1 DEF approvalVars, Waits
    <3>2. CASE Resolve(a, "timed_out") /\ Return(a, "timed_out")
      <4>1. approval'[a].status = "timed_out"
        <5>1. approval[a] \in ApprovalRecord
          BY <1>1 DEF Inv, RowOK
        <5> QED BY <3>2, <5>1 DEF Resolve, ResolveAll, ApprovalRecord
      <4> QED BY <1>3, <3>2, <4>1 DEF Waits
    <3> QED BY <1>8, <3>1, <3>2 DEF WaiterReturns
  <2>3. waiter' \in [Approvals -> Waits] /\ \A b \in Approvals : WaiterMoves(b)
    BY <1>2, <2>2 DEF Return, WaiterMoves
  <2>4. job' \in [Owners -> JobSet] /\ \A o \in Owners : job'[o] = job[o] \/ JobOK(o)'
    <3>1. CASE UNCHANGED job
      BY <1>2, <3>1
    <3>2. CASE job' = [job EXCEPT ![a] = Job("claim", a, 0, None)]
      <4>1. "claim" \in Phases /\ 0 \in 0..MaxEpoch
        BY ApprovalAssumption DEF Phases
      <4>2. JobMoves(a) /\ job'[a].phase = "claim" /\ job'[a].of = a
        BY <1>1, <1>3, <3>2, <4>1, BeginMeans
      <4> QED BY <4>2 DEF JobMoves, JobOK
    <3> QED BY <2>2, <3>1, <3>2 DEF Return
  <2>5. SidesTyped /\ \A b \in Approvals : DoneMoves(b)
    BY <2>1, SidesStay
  <2> QED BY <2>1, <2>3, <2>4, <2>5, CalmFlow
<1>9. CASE WaiterBeats(a)
  <2>1. CalmStore /\ UNCHANGED flowVars
    BY <1>9 DEF WaiterBeats, CalmStore
  <2> QED BY <1>2, <1>5, <2>1, WaitersStay DEF flowVars
<1> QED BY <1>4, <1>6, <1>7, <1>8, <1>9

\* A claim is under a lease, and what is claimed has been decided.
LEMMA ClaimStep ==
  ASSUME FlowInv, NEW o \in Owners, NEW a \in Approvals, NEW lease \in 0..MaxLease,
         Claim(o, a, lease), UNCHANGED <<waiter, asset, stored, done, changes>>
  PROVE  FlowInv' /\ [ApprovalNext]_approvalVars
<1>1. FlowTypeOK /\ RowOK(approval[a], effect[a], log[a])
  BY DEF FlowInv, Inv
<1>2. CalmStore
  BY DEF Claim, CalmStore
<1>3. approval[a].status \in Terminal /\ approval' = approval
  BY <1>1 DEF Claim, ClaimEffect, Claimable, RowOK, ApprovalRecord
<1>4. JobMoves(o) /\ job'[o].phase = "held" /\ job'[o].of = a
  <2>1. effect[a].epoch + 1 \in 0..MaxEpoch
    BY <1>1, ApprovalAssumption, SMTT(30) DEF Claim, ClaimEffect, RowOK, EffectRecord
  <2>2. "held" \in Phases
    BY DEF Phases
  <2> QED BY <1>1, <2>1, <2>2, BeginMeans DEF Claim
<1>5. JobOK(o)'
  BY <1>3, <1>4 DEF JobOK
<1>6. UNCHANGED faults \/ Fault
  BY DEF Claim
<1> QED BY <1>2, <1>4, <1>5, <1>6, JobFlow

\* A job changes what was approved, or finds it changed, and goes on to ph.
LEMMA DoneStep ==
  ASSUME FlowInv, NEW o \in Owners, NEW ph \in {"finish", "update", "fail"}, To(o, ph),
         job[o].of \in Approvals, approval[job[o].of].status = "approved",
         Kind(job[o].of) \notin Continuations, UNCHANGED <<approvalVars, waiter>>,
         SidesTyped, \A b \in Approvals : DoneMoves(b), done'[job[o].of]
  PROVE  FlowInv' /\ [ApprovalNext]_approvalVars
<1>1. FlowTypeOK /\ ph \in Phases
  BY DEF FlowInv, Phases
<1>2. JobMoves(o) /\ job'[o].phase = ph /\ job'[o].of = job[o].of
  BY <1>1, ToMeans
<1>3. JobOK(o)'
  BY <1>2 DEF JobOK, approvalVars, Kind, Terminal
<1>4. \A p \in Owners : job'[p] = job[p] \/ JobOK(p)'
  BY <1>2, <1>3 DEF JobMoves
<1>5. waiter' \in [Approvals -> Waits]
  BY <1>1, Typing
<1> QED BY <1>2, <1>4, <1>5, WaitersStay, CalmFlow DEF CalmStore, JobMoves

\* A step of a job, whoever owns it (handler, worker or waiter), keeps the invariant
\* and is a step of the store, or leaves the store alone.
LEMMA JobSteps ==
  ASSUME FlowInv, NEW o \in Owners, JobStep(o)
  PROVE  FlowInv' /\ [ApprovalNext]_approvalVars
<1>1. FlowTypeOK /\ Inv /\ JobOK(o)
  BY DEF FlowInv
<1>2. job[o] \in JobSet /\ waiter \in [Approvals -> Waits]
  BY <1>1, Typing
<1>3. job[o].phase # "idle"
  BY DEF JobStep, HandlerResolves, ClaimOwn, Apply, Mutate, ReadProposal, InstallSkill,
         UpdateProposal, MutateFails, Finish, Fail
<1>4. PICK a \in Approvals : a = job[o].of
  BY <1>1, <1>3 DEF JobOK
<1>5. Phases = {"idle", "resolve", "claim", "held", "mutate", "install", "update", "finish", "fail"}
  BY DEF Phases
<1>6. \A ph \in Phases : To(o, ph) =>
        /\ JobMoves(o) /\ job'[o].phase = ph /\ job'[o].of = a /\ job'[o].choice = job[o].choice
  BY <1>1, <1>4, ToMeans
<1>7. Stop(o) => JobMoves(o) /\ JobOK(o)'
  BY <1>1, StopMeans
<1>8. job[o].epoch \in 0..MaxEpoch
  BY <1>2 DEF JobSet
<1>9. CASE HandlerResolves(o)
  <2>1. UNCHANGED <<waiter, asset, stored, faults, done, changes>> /\ job[o].choice \in Terminal
    BY <1>1, <1>9 DEF HandlerResolves, JobOK
  <2>2. CASE Resolve(a, job[o].choice) /\ To(o, "claim")
    <3>1. CalmStore
      BY <2>1, <2>2 DEF CalmStore
    <3>2. JobMoves(o) /\ JobOK(o)'
      BY <1>5, <1>6, <2>2 DEF JobOK
    <3> QED BY <2>1, <3>1, <3>2, JobFlow
  <2>3. CASE Stop(o) /\ UNCHANGED approvalVars
    BY <1>7, <2>1, <2>3, JobFlow DEF CalmStore
  <2> QED BY <1>4, <1>9, <2>2, <2>3 DEF HandlerResolves
<1>10. CASE ClaimOwn(o)
  <2>1. UNCHANGED <<waiter, asset, stored, done, changes>>
    BY <1>10 DEF ClaimOwn
  <2>2. CASE Claim(o, a, HandlerLease)
    BY <2>1, <2>2, ClaimStep, FlowAssumption
  <2>3. CASE Stop(o) /\ UNCHANGED <<approvalVars, faults>>
    BY <1>7, <2>1, <2>3, JobFlow DEF CalmStore
  <2> QED BY <1>4, <1>10, <2>2, <2>3 DEF ClaimOwn
<1>11. CASE Apply(o)
  <2>1. UNCHANGED <<waiter, asset, stored, faults, done, changes>> /\ job[o].phase = "held"
    BY <1>11 DEF Apply
  <2>2. CASE CompleteEffect(a, o, job[o].epoch) /\ Stop(o)
    <3>1. CalmStore
      BY <1>8, <2>2 DEF CalmStore
    <3> QED BY <1>7, <2>1, <2>2, <3>1, JobFlow
  <2>3. CASE Kind(a) \notin Continuations /\ HeartbeatEffect(a, o, job[o].epoch) /\ To(o, "mutate")
    <3>1. CalmStore /\ approval' = approval
      BY <1>8, <2>3 DEF CalmStore, HeartbeatEffect
    <3>2. JobMoves(o) /\ JobOK(o)'
      BY <1>1, <1>4, <1>5, <1>6, <2>1, <2>3, <3>1 DEF JobOK, Kind
    <3> QED BY <2>1, <3>1, <3>2, JobFlow
  <2>4. CASE Stop(o) /\ UNCHANGED approvalVars
    BY <1>7, <2>1, <2>4, JobFlow DEF CalmStore
  <2> QED BY <1>4, <1>11, <2>2, <2>3, <2>4 DEF Apply
<1>12. CASE Mutate(o)
  <2>1. UNCHANGED <<approvalVars, waiter, stored, faults>> /\ job[o].phase = "mutate"
    BY <1>12 DEF Mutate
  <2>2. approval[a].status \in Terminal /\ Kind(a) \notin Continuations
    BY <1>1, <1>4, <2>1 DEF JobOK
  <2>3. ASSUME NEW ph \in {"finish", "fail"}, To(o, ph), UNCHANGED <<asset, done, changes>>,
               ph = "finish" => approval[a].status # "approved"
        PROVE  FlowInv' /\ [ApprovalNext]_approvalVars
    <3>1. JobMoves(o) /\ job'[o].phase = ph /\ job'[o].of = a
      BY <1>5, <1>6, <2>3
    <3>2. JobOK(o)'
      BY <2>1, <2>2, <2>3, <3>1 DEF JobOK, Kind, approvalVars
    <3> QED BY <2>1, <2>3, <3>1, <3>2, JobFlow DEF CalmStore
  <2>4. CASE approval[a].status # "approved" /\ To(o, "finish") /\ UNCHANGED <<asset, done, changes>>
    BY <2>3, <2>4
  <2>5. CASE /\ approval[a].status = "approved" /\ To(o, "finish")
             /\ done' = [done EXCEPT ![a] = TRUE] /\ UNCHANGED <<asset, changes>>
    <3>1. SidesTyped /\ (\A b \in Approvals : DoneMoves(b)) /\ done'[a]
      BY <1>1, <2>1, <2>5, Typing DEF SidesTyped, DoneMoves
    <3> QED BY <1>4, <2>1, <2>2, <2>5, <3>1, DoneStep
  <2>6. CASE approval[a].status = "approved" /\ Change(a) /\ To(o, "finish")
    <3>1. SidesTyped /\ (\A b \in Approvals : DoneMoves(b)) /\ done'[a]
      BY <2>1, <2>2, <2>6, ChangeMeans
    <3> QED BY <1>4, <2>1, <2>2, <2>6, <3>1, DoneStep
  <2>7. CASE To(o, "fail") /\ UNCHANGED <<asset, done, changes>>
    BY <2>3, <2>7
  <2> QED BY <1>4, <1>12, <2>4, <2>5, <2>6, <2>7 DEF Mutate
<1>13. CASE ReadProposal(o)
  <2>1. UNCHANGED <<approvalVars, waiter, asset, stored, faults, done, changes>>
        /\ job[o].phase = "mutate"
    BY <1>13 DEF ReadProposal
  <2>2. approval[a].status \in Terminal /\ Kind(a) \notin Continuations
    BY <1>1, <1>4, <2>1 DEF JobOK
  <2>3. PICK ph \in {"update", "install", "fail"} :
          /\ To(o, ph)
          /\ ph = "update" => approval[a].status # "approved"
          /\ ph = "install" => approval[a].status = "approved"
    BY <1>4, <1>13 DEF ReadProposal
  <2>4. JobMoves(o) /\ job'[o].phase = ph /\ job'[o].of = a
    BY <1>5, <1>6, <2>3
  <2>5. JobOK(o)'
    BY <2>1, <2>2, <2>3, <2>4 DEF JobOK, Kind, approvalVars
  <2> QED BY <2>1, <2>4, <2>5, JobFlow DEF CalmStore
<1>14. CASE InstallSkill(o)
  <2>1. /\ UNCHANGED <<approvalVars, waiter, stored, faults>>
        /\ job[o].phase = "install" /\ Change(a) /\ To(o, "update")
    BY <1>4, <1>14 DEF InstallSkill
  <2>2. approval[a].status = "approved" /\ Kind(a) \notin Continuations
    BY <1>1, <1>4, <2>1 DEF JobOK
  <2>3. SidesTyped /\ (\A b \in Approvals : DoneMoves(b)) /\ done'[a]
    BY <2>1, <2>2, ChangeMeans
  <2> QED BY <1>4, <2>1, <2>2, <2>3, DoneStep
<1>15. CASE UpdateProposal(o)
  <2>1. /\ UNCHANGED <<approvalVars, waiter, asset, faults, done, changes>>
        /\ job[o].phase = "update" /\ To(o, "finish") /\ stored' = [stored EXCEPT ![a] = "updated"]
    BY <1>4, <1>15 DEF UpdateProposal
  <2>2. JobMoves(o) /\ job'[o].phase = "finish" /\ job'[o].of = a
    BY <1>5, <1>6, <2>1
  <2>3. JobOK(o)'
    BY <1>1, <1>4, <2>1, <2>2 DEF JobOK, Kind, approvalVars
  <2>4. SidesTyped /\ \A b \in Approvals : DoneMoves(b)
    BY <1>1, <2>1, Typing DEF SidesTyped, DoneMoves
  <2>5. \A p \in Owners : job'[p] = job[p] \/ JobOK(p)'
    BY <2>2, <2>3 DEF JobMoves
  <2> QED BY <1>2, <2>1, <2>2, <2>4, <2>5, WaitersStay, CalmFlow DEF CalmStore, JobMoves
<1>16. CASE MutateFails(o)
  <2>1. /\ UNCHANGED <<approvalVars, waiter, stored, faults>> /\ To(o, "fail")
        /\ job[o].phase \in {"mutate", "install", "update"}
    BY <1>16 DEF MutateFails
  <2>2. approval[a].status \in Terminal /\ Kind(a) \notin Continuations
    BY <1>1, <1>4, <2>1 DEF JobOK
  <2>3. CASE UNCHANGED <<asset, done, changes>>
    <3>1. JobMoves(o) /\ job'[o].phase = "fail" /\ job'[o].of = a
      BY <1>5, <1>6, <2>1
    <3>2. JobOK(o)'
      BY <2>1, <2>2, <3>1 DEF JobOK, Kind, approvalVars
    <3> QED BY <2>1, <2>3, <3>1, <3>2, JobFlow DEF CalmStore
  <2>4. CASE approval[a].status = "approved" /\ Change(a)
    <3>1. SidesTyped /\ (\A b \in Approvals : DoneMoves(b)) /\ done'[a]
      BY <2>1, <2>2, <2>4, ChangeMeans
    <3> QED BY <1>4, <2>1, <2>2, <2>4, <3>1, DoneStep
  <2> QED BY <1>4, <1>16, <2>3, <2>4 DEF MutateFails
<1>17. CASE Finish(o)
  <2>1. UNCHANGED <<waiter, asset, stored, faults, done, changes>> /\ job[o].phase = "finish"
    BY <1>17 DEF Finish
  <2>2. approval[a].status \in Terminal /\ (approval[a].status = "approved" => done[a])
    BY <1>1, <1>4, <2>1 DEF JobOK
  <2>3. CASE CompleteEffectWithEvent(a, o, job[o].epoch) /\ Stop(o)
    <3>1. ApprovalNext
      BY <1>8, <2>3 DEF ApprovalNext
    <3>2. Inv'
      BY <1>1, <3>1, StepInv
    <3>3. \A b \in Approvals : Lasting(b) /\ NotNew(b) /\ (b # a => NotApplied(b))
      BY <1>1, <2>3, EndKeeps
    <3>4. \A b \in Approvals : ProposalOK(b)'
      BY <3>3, ProposalKept
    <3>5. SidesTyped /\ \A b \in Approvals : DoneMoves(b) /\ WaiterMoves(b)
      BY <2>1, SidesStay, WaitersStay
    <3>6. job' \in [Owners -> JobSet] /\ \A p \in Owners : job'[p] = job[p] \/ JobOK(p)'
      BY <1>7, <2>3 DEF JobMoves
    <3>7. FlowInv'
      BY <1>2, <2>1, <2>2, <3>2, <3>3, <3>4, <3>5, <3>6, FlowStep
    <3> QED BY <3>1, <3>7
  <2>4. CASE To(o, "fail") /\ UNCHANGED approvalVars
    <3>1. JobMoves(o) /\ job'[o].phase = "fail" /\ job'[o].of = a
      BY <1>5, <1>6, <2>4
    <3>2. JobOK(o)'
      BY <2>2, <2>4, <3>1 DEF JobOK, Kind, approvalVars
    <3> QED BY <2>1, <2>4, <3>1, <3>2, JobFlow DEF CalmStore
  <2> QED BY <1>4, <1>17, <2>3, <2>4 DEF Finish
<1>18. CASE Fail(o)
  <2>1. UNCHANGED <<waiter, asset, stored, faults, done, changes>> /\ Stop(o)
    BY <1>18 DEF Fail
  <2>2. CalmStore
    BY <1>4, <1>8, <1>18 DEF Fail, CalmStore
  <2> QED BY <1>7, <2>1, <2>2, JobFlow
<1> QED BY <1>9, <1>10, <1>11, <1>12, <1>13, <1>14, <1>15, <1>16, <1>17, <1>18 DEF JobStep

\* A client decides, workers claim and sweep, requests and jobs are dropped, time passes.
LEMMA OtherSteps ==
  ASSUME FlowInv,
         \/ \E h \in Handlers, a \in Approvals : HandlerReads(h, a)
         \/ \E w \in Workers : WorkerClaims(w)
         \/ Sweep \/ Drop \/ Time
  PROVE  FlowInv' /\ [ApprovalNext]_approvalVars
<1>1. FlowTypeOK
  BY DEF FlowInv
<1>2. waiter \in [Approvals -> Waits] /\ job \in [Owners -> JobSet]
  BY <1>1, Typing
<1>3. ASSUME NEW h \in Handlers, NEW a \in Approvals, HandlerReads(h, a)
      PROVE  FlowInv' /\ [ApprovalNext]_approvalVars
  <2>1. h \in Owners /\ "resolve" \in Phases /\ 0 \in 0..MaxEpoch
    BY FlowAssumption, ApprovalAssumption DEF Phases
  <2>2. PICK d \in Terminal : job' = [job EXCEPT ![h] = Job("resolve", a, 0, d)]
    BY <1>3 DEF HandlerReads, Decisions, Terminal
  <2>3. JobMoves(h) /\ job'[h].phase = "resolve" /\ job'[h].of = a /\ job'[h].choice = d
    BY <1>1, <2>1, <2>2, BeginMeans
  <2>4. JobOK(h)'
    BY <2>3 DEF JobOK
  <2>5. UNCHANGED <<approvalVars, waiter, asset, stored, faults, done, changes>>
    BY <1>3 DEF HandlerReads
  <2> QED BY <2>1, <2>3, <2>4, <2>5, JobFlow DEF CalmStore
<1>4. ASSUME NEW w \in Workers, WorkerClaims(w)
      PROVE  FlowInv' /\ [ApprovalNext]_approvalVars
  BY <1>4, ClaimStep, FlowAssumption DEF WorkerClaims
<1>5. ASSUME CalmStore, UNCHANGED flowVars
      PROVE  FlowInv' /\ [ApprovalNext]_approvalVars
  <2>1. SidesTyped /\ \A b \in Approvals : DoneMoves(b) /\ WaiterMoves(b)
    BY <1>5, SidesStay, WaitersStay DEF flowVars
  <2> QED BY <1>2, <1>5, <2>1, CalmFlow DEF flowVars
<1>6. CASE Sweep \/ Time
  BY <1>5, <1>6 DEF Sweep, Time, CalmStore
<1>7. CASE Drop
  <2>1. CalmStore /\ UNCHANGED <<asset, stored, done, changes>> /\ Fault
    BY <1>7 DEF Drop, CalmStore
  <2>2. CASE \E o \in Owners : Stop(o) /\ UNCHANGED waiter
    <3>1. PICK o \in Owners : Stop(o) /\ UNCHANGED waiter
      BY <2>2
    <3>2. JobMoves(o) /\ JobOK(o)'
      BY <1>1, <3>1, StopMeans
    <3> QED BY <2>1, <3>1, <3>2, JobFlow
  <2>3. CASE \E a \in Approvals : waiter' = [waiter EXCEPT ![a] = "gone"] /\ UNCHANGED job
    <3>1. PICK a \in Approvals : waiter' = [waiter EXCEPT ![a] = "gone"] /\ UNCHANGED job
      BY <2>3
    <3>2. "gone" \in Waits /\ "gone" \notin Terminal
      BY DEF Waits, Terminal
    <3>3. waiter' \in [Approvals -> Waits] /\ \A b \in Approvals : WaiterMoves(b)
      BY <1>2, <3>1, <3>2 DEF WaiterMoves
    <3>4. SidesTyped /\ \A b \in Approvals : DoneMoves(b)
      BY <2>1, SidesStay
    <3> QED BY <1>2, <2>1, <3>1, <3>3, <3>4, CalmFlow
  <2> QED BY <1>7, <2>2, <2>3 DEF Drop
<1> QED BY <1>3, <1>4, <1>6, <1>7

-----------------------------------------------------------------------------
\* The invariant holds before anything is asked.
LEMMA InitFlow == FlowInit => FlowInv
<1> SUFFICES ASSUME FlowInit PROVE FlowInv
  OBVIOUS
<1>1. Inv
  BY ApprovalAssumption DEF FlowInit, ApprovalInit, Inv, Tables, RowOK, In, NoApproval, NewEffect,
     ApprovalRecord, EffectRecord, Terminal
<1>2. Idle \in JobSet /\ Idle.phase = "idle"
  BY ApprovalAssumption DEF Idle, JobSet, Phases
<1>3. FlowTypeOK
  <2>1. asset \in [Assets -> [active : Digests, from : Digests \cup {None}]]
    BY DEF FlowInit
  <2>2. job \in [Owners -> JobSet]
    BY <1>2 DEF FlowInit
  <2>3. /\ waiter \in [Approvals -> Waits] /\ stored \in [Approvals -> {"reviewed", "updated"}]
        /\ done \in [Approvals -> BOOLEAN]
    BY DEF FlowInit, Waits
  <2>4. faults \in 0..MaxFaults /\ changes \in [Approvals -> 0..2]
    BY FlowAssumption DEF FlowInit
  <2> QED BY <2>1, <2>2, <2>3, <2>4 DEF FlowTypeOK, JobSet, Waits
<1>4. \A o \in Owners : JobOK(o)
  BY <1>2 DEF FlowInit, JobOK
<1>5. \A a \in Approvals : ProposalOK(a)
  BY DEF FlowInit, ApprovalInit, NoApproval, ProposalOK
<1>6. AppliedAsDecided
  BY DEF FlowInit, ApprovalInit, NewEffect, AppliedAsDecided
<1>7. WaiterHearsDecision
  BY DEF FlowInit, WaiterHearsDecision, Terminal
<1> QED BY <1>1, <1>3, <1>4, <1>5, <1>6, <1>7 DEF FlowInv

\* Every step of the system keeps the invariant and maps to a step of the store.
LEMMA StepFlow == FlowInv /\ [Next]_vars => FlowInv' /\ [ApprovalNext]_approvalVars
<1> SUFFICES ASSUME FlowInv, [Next]_vars PROVE FlowInv' /\ [ApprovalNext]_approvalVars
  OBVIOUS
<1>1. CASE UNCHANGED vars
  <2>1. UNCHANGED flowVars /\ UNCHANGED approvalVars
    BY <1>1 DEF vars, flowVars, approvalVars
  <2>2. SidesTyped /\ \A b \in Approvals : DoneMoves(b) /\ WaiterMoves(b)
    BY <2>1, SidesStay, WaitersStay DEF flowVars
  <2>3. waiter \in [Approvals -> Waits] /\ job \in [Owners -> JobSet]
    BY Typing DEF FlowInv
  <2> QED BY <2>1, <2>2, <2>3, CalmFlow DEF CalmStore, flowVars
<1> QED BY <1>1, RequestSteps, JobSteps, OtherSteps DEF Next

\* However handlers, returning requests, workers and sweeps race, whatever is
\* dropped, overrun or failing: every step they take of the approval tables is an
\* operation of the store, so the tables keep what ApprovalStore promises.
THEOREM FlowImplementsStore == Spec => ApprovalSpec
<1>1. FlowInit => ApprovalInit
  BY DEF FlowInit
<1> QED BY <1>1, InitFlow, StepFlow, PTL DEF Spec, ApprovalSpec

\* The approvals of the running server keep the promises of the tables.
THEOREM FlowKeepsApprovals == Spec => ApprovalsCorrect
BY FlowImplementsStore, ApprovalsAreCorrect

\* What was asked for happens if and only if it was approved, and a request that
\* waited hears the stored decision.
THEOREM FlowIsSafe == Spec => []FlowSafe
<1>1. FlowInv => FlowSafe
  BY DEF FlowInv, FlowSafe
<1> QED BY <1>1, InitFlow, StepFlow, PTL DEF Spec

-----------------------------------------------------------------------------
(* The catalogue of managed assets.                                         *)

Digest == Versions \cup {Nothing}
Source == Proposals \cup {Nothing}
Locked == {"begin", "version", "fill", "syncVersion", "point", "swap", "syncPointer", "answered",
           "refused"}
Pointers == [digest : Digest, from : Digest, there : BOOLEAN]
Temps == {"install", "active"} \X Nat \X Nat
CallRecords ==
  [op : {"none", "install", "rollback"}, digest : Digest, from : Source, expected : Digest,
   at : Locked \cup {"idle", "done", "failed"}, tries : Nat]

CatalogTypeOK ==
  /\ family \in {"skill", "addendum"}
  /\ kept \in [Versions -> Source] /\ safe \in [Versions -> Source] /\ lapsed \subseteq Versions
  /\ pointer \in Pointers /\ safePtr \in Pointers
  /\ temps \subseteq Temps /\ pid \in Nat /\ seq \in Nat
  /\ flock \in Requests \cup {Nothing}
  /\ call \in [Requests -> CallRecords]
  /\ reader \in [Readers -> [at : {"idle", "read", "found", "lost", "blind"}, saw : Digest]]

\* A directory that is there is durable, unless its sync failed or is still to come.
Durable(d) == safe[d] # Nothing \/ d \in lapsed
KeptIsDurable ==
  \A d \in Versions :
    kept[d] # Nothing => Durable(d) \/ \E r \in Requests : call[r].at = "syncVersion" /\ call[r].digest = d

\* What the pointers name is durable in the same sense.
PointersDurable ==
  /\ pointer.digest \in Versions => Durable(pointer.digest)
  /\ safePtr.digest \in Versions => Durable(safePtr.digest)
  /\ pointer.digest \in Versions => kept[pointer.digest] # Nothing \/ pointer.digest \in lapsed

\* The version a request is about to point at, or points at, is there.
Placed(r) ==
  /\ call[r].op = "install" => kept[call[r].digest] = call[r].from
  /\ call[r].digest \in Versions => kept[call[r].digest] # Nothing /\ Durable(call[r].digest)

\* One request: it works under the lock only, and what it has found out still holds.
CallHolds(r) ==
  /\ call[r].at \in Locked => flock = r
  /\ call[r].op = "none" => call[r].at = "idle"
  /\ call[r].op = "install" => call[r].digest \in Versions /\ call[r].from \in Proposals
  /\ call[r].at \in {"version", "fill", "syncVersion"} => call[r].op = "install"
  /\ call[r].at = "fill" => kept[call[r].digest] = Nothing
  /\ call[r].at = "syncVersion" => kept[call[r].digest] = call[r].from
  /\ call[r].at \in {"point", "swap", "syncPointer"} => Placed(r)
  /\ call[r].at \in {"version", "fill", "syncVersion", "point", "swap"} /\ Compares(r) =>
       pointer.digest = call[r].expected
  /\ call[r].at \in {"syncPointer", "answered"} => pointer.digest = call[r].digest
  /\ call[r].at = "answered" /\ call[r].op = "install" => kept[call[r].digest] = call[r].from

\* What a reader's pointer named is there when the reader looks for it.
ReaderHolds(x) ==
  /\ reader[x].at = "read" => /\ reader[x].saw \in Versions
                              /\ kept[reader[x].saw] # Nothing \/ reader[x].saw \in lapsed
  /\ reader[x].at = "lost" => reader[x].saw \in lapsed

CatalogInv ==
  /\ CatalogTypeOK
  /\ KeptIsDurable
  /\ PointersDurable
  /\ VersionsAreImmutable
  /\ \A r \in Requests : CallHolds(r)
  /\ \A x \in Readers : ReaderHolds(x)

LEMMA CatalogInvSafe == CatalogInv => CatalogSafe
BY DEF CatalogInv, CatalogSafe, PointerHolds, PointersDurable, Durable, NoLostUpdate, AnswerIsTrue,
       ReadersFind, CallHolds, ReaderHolds

LEMMA CatalogStarts == CatalogInit => CatalogInv
<1> SUFFICES ASSUME CatalogInit PROVE CatalogInv
  OBVIOUS
<1>1. CatalogTypeOK
  BY CatalogAssumption DEF CatalogInit, CatalogTypeOK, NotAsked, Asked, NoPointer, Resting, Digest, Source,
     Pointers, CallRecords, Temps, Locked
<1>2. KeptIsDurable /\ PointersDurable /\ VersionsAreImmutable
  BY CatalogAssumption DEF CatalogInit, KeptIsDurable, PointersDurable, VersionsAreImmutable, NoPointer
<1>3. \A r \in Requests : CallHolds(r)
  BY DEF CatalogInit, CallHolds, NotAsked, Asked, Locked
<1>4. \A x \in Readers : ReaderHolds(x)
  BY DEF CatalogInit, ReaderHolds, Resting
<1> QED BY <1>1, <1>2, <1>3, <1>4 DEF CatalogInv

-----------------------------------------------------------------------------
LEMMA ReviewHolds == ASSUME CatalogInv, NEW r \in Requests, Review(r) PROVE CatalogInv'
<1> USE DEF CatalogInv
<1>0. PICK q \in Installs \cup (IF pointer.digest = Nothing THEN {} ELSE Rollbacks) :
        call' = [call EXCEPT ![r] = q]
  BY DEF Review
<1>1. q \in Installs \cup Rollbacks /\ call' = [call EXCEPT ![r] = q]
  BY <1>0
<1>2. /\ q \in CallRecords /\ q.at = "idle" /\ q.op # "none"
      /\ q.op = "install" => q.digest \in Versions /\ q.from \in Proposals
  <2>1. /\ pointer.digest \in Digest /\ Targets \subseteq Digest /\ 0 \in Nat /\ Nothing \in Source
    BY DEF CatalogTypeOK, Pointers, Targets, Digest, Source
  <2>2. CASE q \in Installs
    <3>1. PICK d \in Versions, p \in Proposals : q = Asked("install", d, p, pointer.digest)
      BY <2>2 DEF Installs
    <3> QED BY <2>1, <3>1 DEF Asked, CallRecords, Digest, Source
  <2>3. CASE q \in Rollbacks
    <3>1. PICK d \in Targets : q = Asked("rollback", d, Nothing, pointer.digest)
      BY <2>3 DEF Rollbacks
    <3> QED BY <2>1, <3>1 DEF Asked, CallRecords
  <2> QED BY <1>1, <2>2, <2>3
<1>3. UNCHANGED <<family, kept, safe, lapsed, pointer, safePtr, temps, pid, seq, flock, reader, mishaps>>
  BY DEF Review, shelf, active
<1>4. call[r].at = "idle"
  BY DEF Review, CallHolds
<1>5. CatalogTypeOK'
  BY <1>1, <1>2, <1>3 DEF CatalogTypeOK
<1>6. KeptIsDurable' /\ PointersDurable' /\ VersionsAreImmutable'
  BY <1>1, <1>3, <1>4 DEF KeptIsDurable, PointersDurable, VersionsAreImmutable, Durable, CatalogTypeOK
<1>7. \A o \in Requests : CallHolds(o)'
  BY <1>1, <1>2, <1>3 DEF CallHolds, Placed, Compares, Durable, CatalogTypeOK, Locked
<1>8. \A x \in Readers : ReaderHolds(x)'
  BY <1>3 DEF ReaderHolds
<1> QED BY <1>5, <1>6, <1>7, <1>8

\* A step of one request, which keeps what it asks for.
CallGoes(r, at) ==
  /\ call' \in [Requests -> CallRecords]
  /\ \A o \in Requests : o # r => call'[o] = call[o]
  /\ call'[r].at = at /\ call'[r].op = call[r].op /\ call'[r].digest = call[r].digest
  /\ call'[r].from = call[r].from /\ call'[r].expected = call[r].expected

LEMMA GoesIsCallGoes ==
  ASSUME CatalogTypeOK, NEW r \in Requests, NEW at \in Locked \cup {"done", "failed"}, Goes(r, at)
  PROVE  CallGoes(r, at)
BY DEF CatalogTypeOK, CallRecords, Goes, CallGoes, Locked

\* One that leaves the files alone.
OnlyCall(r, at) ==
  /\ CallGoes(r, at)
  /\ UNCHANGED <<family, kept, safe, lapsed, pointer, safePtr, reader>>

LEMMA OnlyCallHolds ==
  ASSUME CatalogInv, NEW r \in Requests, NEW at \in Locked \cup {"done", "failed"}, OnlyCall(r, at),
         call[r].at # "syncVersion", call[r].at \in Locked, flock = r,
         flock' = IF at \in Locked THEN r ELSE Nothing,
         at \in {"version", "fill", "syncVersion"} => call[r].op = "install",
         at # "syncVersion",
         at = "fill" => kept[call[r].digest] = Nothing,
         at \in {"point", "swap", "syncPointer"} => Placed(r),
         at \in {"version", "fill", "point", "swap"} /\ Compares(r) => pointer.digest = call[r].expected,
         at \in {"syncPointer", "answered"} => pointer.digest = call[r].digest,
         at = "answered" /\ call[r].op = "install" => kept[call[r].digest] = call[r].from
  PROVE  /\ KeptIsDurable' /\ PointersDurable' /\ VersionsAreImmutable'
         /\ \A o \in Requests : CallHolds(o)'
         /\ \A x \in Readers : ReaderHolds(x)'
<1> USE DEF CatalogInv
<1>1. \A o \in Requests : o # r => call'[o] = call[o]
  BY DEF OnlyCall, CallGoes
<1>2. /\ call'[r].at = at /\ call'[r].op = call[r].op /\ call'[r].digest = call[r].digest
      /\ call'[r].from = call[r].from /\ call'[r].expected = call[r].expected
  BY DEF OnlyCall, CallGoes
<1>3. KeptIsDurable' /\ PointersDurable' /\ VersionsAreImmutable'
  BY <1>1, <1>2 DEF OnlyCall, KeptIsDurable, PointersDurable, VersionsAreImmutable, Durable
<1>4. ASSUME NEW o \in Requests PROVE CallHolds(o)'
  <2>1. CASE o = r
    <3>1. Placed(r) => Placed(r)'
      BY <1>2 DEF OnlyCall, Placed, Durable
    <3>2. Compares(r)' <=> Compares(r)
      BY <1>2 DEF OnlyCall, Compares
    <3>3. call[r].op # "none"
      BY DEF CallHolds, Locked
    <3> QED BY <1>2, <2>1, <3>1, <3>2, <3>3 DEF OnlyCall, CallHolds
  <2>2. CASE o # r
    <3>1. call'[o] = call[o] /\ call[o].at \notin Locked
      BY <1>1, <2>2, CatalogAssumption DEF CallHolds
    <3> QED BY <3>1 DEF CallHolds, Locked
  <2> QED BY <2>1, <2>2
<1>5. \A x \in Readers : ReaderHolds(x)'
  BY DEF OnlyCall, ReaderHolds
<1> QED BY <1>3, <1>4, <1>5
LEMMA LockHolds == ASSUME CatalogInv, NEW r \in Requests, Lock(r) PROVE CatalogInv'
<1> USE DEF CatalogInv
<1>1. /\ UNCHANGED <<family, kept, safe, lapsed, pointer, safePtr, temps, pid, seq, reader, mishaps>>
      /\ flock = Nothing /\ flock' = r
  BY DEF Lock, shelf, active, NoOneElse
<1>2. /\ call' \in [Requests -> CallRecords]
      /\ \A o \in Requests : o # r => call'[o] = call[o]
      /\ call'[r].at = "begin" /\ call'[r].op = call[r].op /\ call'[r].digest = call[r].digest
      /\ call'[r].from = call[r].from /\ call'[r].expected = call[r].expected
      /\ call[r].at \in {"idle", "failed"} /\ call[r].op # "none"
  BY DEF Lock, CatalogTypeOK, CallRecords, Locked
<1>3. CatalogTypeOK'
  BY <1>1, <1>2 DEF CatalogTypeOK
<1>4. KeptIsDurable' /\ PointersDurable' /\ VersionsAreImmutable'
  BY <1>1, <1>2 DEF KeptIsDurable, PointersDurable, VersionsAreImmutable, Durable
<1>5. ASSUME NEW o \in Requests PROVE CallHolds(o)'
  <2>1. CASE o = r
    BY <1>1, <1>2, <2>1 DEF CallHolds, Locked
  <2>2. CASE o # r
    <3>1. call'[o] = call[o] /\ call[o].at \notin Locked
      BY <1>1, <1>2, <2>2, CatalogAssumption DEF CallHolds
    <3> QED BY <3>1, <1>1 DEF CallHolds, Locked
  <2> QED BY <2>1, <2>2
<1>6. \A x \in Readers : ReaderHolds(x)'
  BY <1>1 DEF ReaderHolds
<1> QED BY <1>3, <1>4, <1>5, <1>6

LEMMA GoesType ==
  ASSUME CatalogTypeOK, NEW r \in Requests, NEW at, OnlyCall(r, at), UNCHANGED pid,
         temps' \subseteq Temps, seq' \in Nat, flock' \in Requests \cup {Nothing}
  PROVE  CatalogTypeOK'
BY DEF CatalogTypeOK, OnlyCall, CallGoes

LEMMA BeginInstallHolds == ASSUME CatalogInv, NEW r \in Requests, BeginInstall(r) PROVE CatalogInv'
<1> USE DEF CatalogInv
<1>1. PICK at \in {"answered", "refused", "version"} :
        /\ Goes(r, at)
        /\ at = "answered" => pointer.digest = call[r].digest /\ kept[call[r].digest] = call[r].from
        /\ at = "version" => (Compares(r) => pointer.digest = call[r].expected)
  BY DEF BeginInstall, AlreadyInstalled, SameVersion, StillExpected
<1>2. UNCHANGED <<family, kept, safe, lapsed, pointer, safePtr, temps, pid, seq, flock, reader>>
  BY DEF BeginInstall, shelf, active
<1>3. flock = r /\ at \in Locked /\ call[r].at = "begin" /\ call[r].op = "install"
  BY <1>1 DEF BeginInstall, CallHolds, Locked
<1>4. OnlyCall(r, at)
  BY <1>1, <1>2, <1>3, GoesIsCallGoes DEF OnlyCall
<1>5. CatalogTypeOK'
  BY <1>2, <1>4, GoesType DEF CatalogTypeOK
<1> QED BY <1>1, <1>2, <1>3, <1>4, <1>5, OnlyCallHolds DEF Locked

LEMMA BeginRollbackHolds == ASSUME CatalogInv, NEW r \in Requests, BeginRollback(r) PROVE CatalogInv'
<1> USE DEF CatalogInv
<1>1. PICK at \in {"answered", "refused", "point"} :
        /\ Goes(r, at)
        /\ at = "answered" => pointer.digest = call[r].digest
        /\ at = "point" => pointer.digest = call[r].expected /\ Readable(call[r].digest)
  BY DEF BeginRollback, RolledBackAlready, StillExpected
<1>2. UNCHANGED <<family, kept, safe, lapsed, pointer, safePtr, temps, pid, seq, flock, reader>>
  BY DEF BeginRollback, shelf, active
<1>3. flock = r /\ at \in Locked /\ call[r].at = "begin" /\ call[r].op = "rollback"
  BY <1>1 DEF BeginRollback, CallHolds, Locked
<1>4. OnlyCall(r, at)
  BY <1>1, <1>2, <1>3, GoesIsCallGoes DEF OnlyCall
<1>5. at = "point" => Placed(r)
  <2>1. \A o \in Requests : call[o].at # "syncVersion"
    BY <1>3 DEF CallHolds, Locked
  <2> QED BY <1>1, <1>3, <2>1, CatalogAssumption DEF Placed, Readable, KeptIsDurable
<1>6. CatalogTypeOK'
  BY <1>2, <1>4, GoesType DEF CatalogTypeOK
<1> QED BY <1>1, <1>2, <1>3, <1>4, <1>5, <1>6, OnlyCallHolds DEF Locked
LEMMA TempNames == ASSUME CatalogTypeOK, NEW of \in {"install", "active"} PROVE TempName(of) \in Temps
BY DEF CatalogTypeOK, TempName, Temps

LEMMA MakeVersionHolds == ASSUME CatalogInv, NEW r \in Requests, MakeVersion(r) PROVE CatalogInv'
<1> USE DEF CatalogInv
<1>1. UNCHANGED <<family, kept, safe, lapsed, pointer, safePtr, pid, flock, reader>>
  BY DEF MakeVersion, shelf, active
<1>2. flock = r /\ call[r].at = "version" /\ call[r].op = "install"
      /\ call[r].digest \in Versions
  BY DEF MakeVersion, CallHolds, Locked
<1>3. PICK at \in {"point", "refused", "fill"} :
        /\ Goes(r, at)
        /\ at = "point" => kept[call[r].digest] = call[r].from /\ kept[call[r].digest] # Nothing
        /\ at = "fill" => kept[call[r].digest] = Nothing
  BY DEF MakeVersion, SameVersion
<1>4. OnlyCall(r, at)
  BY <1>1, <1>3, GoesIsCallGoes DEF OnlyCall, Locked
<1>5. seq' \in Nat /\ temps' \subseteq Temps
  BY TempNames DEF MakeVersion, CatalogTypeOK
<1>6. CatalogTypeOK'
  BY <1>1, <1>4, <1>5, GoesType DEF CatalogTypeOK
<1>7. at = "point" => Placed(r)
  <2>1. \A o \in Requests : call[o].at # "syncVersion"
    BY <1>2 DEF CallHolds, Locked
  <2> QED BY <1>2, <1>3, <2>1, CatalogAssumption DEF Placed, KeptIsDurable
<1>8. at \in {"fill", "point"} /\ Compares(r) => pointer.digest = call[r].expected
  BY <1>2 DEF CallHolds
<1> QED BY <1>1, <1>2, <1>3, <1>4, <1>6, <1>7, <1>8, OnlyCallHolds DEF Locked

LEMMA WritePointerHolds == ASSUME CatalogInv, NEW r \in Requests, WritePointer(r) PROVE CatalogInv'
<1> USE DEF CatalogInv
<1>1. UNCHANGED <<family, kept, safe, lapsed, pointer, safePtr, pid, flock, reader>>
  BY DEF WritePointer, shelf, active
<1>2. /\ flock = r /\ call[r].at = "point" /\ Placed(r)
      /\ Compares(r) => pointer.digest = call[r].expected
  BY DEF WritePointer, CallHolds, Locked
<1>3. PICK at \in {"swap", "refused"} :
        Goes(r, at)
  BY DEF WritePointer
<1>4. OnlyCall(r, at)
  BY <1>1, <1>3, GoesIsCallGoes DEF OnlyCall, Locked
<1>5. seq' \in Nat /\ temps' \subseteq Temps
  BY TempNames DEF WritePointer, CatalogTypeOK
<1>6. CatalogTypeOK'
  BY <1>1, <1>4, <1>5, GoesType DEF CatalogTypeOK
<1> QED BY <1>1, <1>2, <1>3, <1>4, <1>6, OnlyCallHolds DEF Locked

LEMMA DropLockHolds == ASSUME CatalogInv, NEW r \in Requests, DropLock(r) PROVE CatalogInv'
<1> USE DEF CatalogInv
<1>1. UNCHANGED <<family, kept, safe, lapsed, pointer, safePtr, temps, pid, seq, reader>>
      /\ flock' = Nothing
  BY DEF DropLock, shelf, active
<1>2. flock = r /\ call[r].at \in {"answered", "refused"}
  BY DEF DropLock, CallHolds, Locked
<1>3. PICK at \in {"done", "failed"} : Goes(r, at)
  BY DEF DropLock
<1>4. OnlyCall(r, at)
  BY <1>1, <1>3, GoesIsCallGoes DEF OnlyCall
<1>5. CatalogTypeOK'
  BY <1>1, <1>4, GoesType DEF CatalogTypeOK
<1> QED BY <1>1, <1>2, <1>3, <1>4, <1>5, OnlyCallHolds DEF Locked
\* The requests that do not hold the lock are not at work.
LEMMA OthersRest ==
  ASSUME CatalogInv, NEW r \in Requests, flock = r, NEW o \in Requests, o # r
  PROVE  call[o].at \notin Locked
BY DEF CatalogInv, CallHolds

LEMMA RestingHolds ==
  ASSUME NEW o \in Requests, CallHolds(o), call[o].at \notin Locked, call'[o] = call[o]
  PROVE  CallHolds(o)'
BY DEF CallHolds, Locked

LEMMA RenameVersionHolds == ASSUME CatalogInv, NEW r \in Requests, RenameVersion(r) PROVE CatalogInv'
<1> USE DEF CatalogInv
<1>1. UNCHANGED <<family, safe, lapsed, pointer, safePtr, pid, seq, flock, reader>>
  BY DEF RenameVersion, active
<1>2. /\ flock = r /\ call[r].at = "fill" /\ call[r].op = "install"
      /\ call[r].digest \in Versions /\ call[r].from \in Proposals /\ kept[call[r].digest] = Nothing
      /\ Compares(r) => pointer.digest = call[r].expected
  BY DEF RenameVersion, CallHolds, Locked
<1>3. temps' \subseteq Temps
  BY DEF RenameVersion, CatalogTypeOK
<1>4. CASE Goes(r, "refused") /\ UNCHANGED kept
  <2>1. OnlyCall(r, "refused")
    BY <1>1, <1>4, GoesIsCallGoes DEF OnlyCall, Locked
  <2>2. CatalogTypeOK'
    BY <1>1, <1>3, <2>1, GoesType DEF CatalogTypeOK
  <2> QED BY <1>1, <1>2, <2>1, <2>2, OnlyCallHolds DEF Locked
<1>5. CASE Goes(r, "syncVersion") /\ kept' = [kept EXCEPT ![call[r].digest] = call[r].from]
  <2>1. CallGoes(r, "syncVersion")
    BY <1>5, GoesIsCallGoes DEF Locked
  <2>2. /\ kept' \in [Versions -> Source] /\ kept'[call[r].digest] = call[r].from
        /\ \A d \in Versions : d # call[r].digest => kept'[d] = kept[d]
    BY <1>2, <1>5 DEF CatalogTypeOK, Source
  <2>3. CatalogTypeOK'
    BY <1>1, <1>3, <2>1, <2>2 DEF CatalogTypeOK, CallGoes
  <2>4. KeptIsDurable'
    <3> SUFFICES ASSUME NEW d \in Versions, kept'[d] # Nothing
                 PROVE  Durable(d)' \/ \E o \in Requests : call'[o].at = "syncVersion" /\ call'[o].digest = d
      BY DEF KeptIsDurable
    <3>1. CASE d = call[r].digest
      BY <3>1, <2>1 DEF CallGoes
    <3>2. CASE d # call[r].digest
      <4>1. \A o \in Requests : call[o].at # "syncVersion"
        BY <1>2, OthersRest DEF Locked
      <4> QED BY <1>1, <2>2, <3>2, <4>1 DEF KeptIsDurable, Durable
    <3> QED BY <3>1, <3>2
  <2>5. safe[call[r].digest] = Nothing
    BY <1>2 DEF VersionsAreImmutable
  <2>6. PointersDurable' /\ VersionsAreImmutable'
    BY <1>1, <1>2, <2>2, <2>5, CatalogAssumption DEF PointersDurable, VersionsAreImmutable, Durable
  <2>7. ASSUME NEW o \in Requests PROVE CallHolds(o)'
    <3>1. CASE o = r
      <4>1. Compares(r)' <=> Compares(r)
        BY <1>1, <2>1 DEF Compares, CallGoes
      <4> QED BY <1>1, <1>2, <2>1, <2>2, <3>1, <4>1 DEF CallHolds, CallGoes, Locked
    <3>2. CASE o # r
      BY <1>2, <2>1, <3>2, OthersRest, RestingHolds DEF CallGoes
    <3> QED BY <3>1, <3>2
  <2>8. \A x \in Readers : ReaderHolds(x)'
    BY <1>1, <1>2, <2>2, CatalogAssumption DEF ReaderHolds
  <2> QED BY <2>3, <2>4, <2>6, <2>7, <2>8
<1> QED BY <1>4, <1>5 DEF RenameVersion

LEMMA SyncVersionsHolds == ASSUME CatalogInv, NEW r \in Requests, SyncVersions(r) PROVE CatalogInv'
<1> USE DEF CatalogInv
<1>1. UNCHANGED <<family, kept, pointer, safePtr, temps, pid, seq, flock, reader>>
  BY DEF SyncVersions, active
<1>2. /\ flock = r /\ call[r].at = "syncVersion" /\ call[r].op = "install"
      /\ call[r].digest \in Versions /\ call[r].from \in Proposals
      /\ kept[call[r].digest] = call[r].from
      /\ Compares(r) => pointer.digest = call[r].expected
  BY DEF SyncVersions, CallHolds, Locked
<1>3. PICK at \in {"point", "refused"} :
        /\ Goes(r, at)
        /\ \/ at = "point" /\ safe' = kept /\ lapsed' = lapsed
           \/ at = "refused" /\ safe' = safe /\ lapsed' = lapsed \cup {call[r].digest}
  BY DEF SyncVersions
<1>4. CallGoes(r, at)
  BY <1>3, GoesIsCallGoes DEF Locked
<1>5. CatalogTypeOK'
  BY <1>1, <1>2, <1>3, <1>4 DEF CatalogTypeOK, CallGoes
<1>6. \A d \in Versions : Durable(d) => Durable(d)'
  BY <1>1, <1>3, CatalogAssumption DEF Durable, VersionsAreImmutable
<1>7. KeptIsDurable'
  <2>1. \A o \in Requests : call[o].at = "syncVersion" => o = r
    BY <1>2, OthersRest DEF Locked
  <2>2. Durable(call[r].digest)' /\ call'[r].digest = call[r].digest
    BY <1>2, <1>3, <1>4, CatalogAssumption DEF Durable, CallGoes
  <2> QED BY <1>1, <1>6, <2>1, <2>2 DEF KeptIsDurable
<1>8. PointersDurable' /\ VersionsAreImmutable'
  BY <1>1, <1>3, <1>6 DEF PointersDurable, VersionsAreImmutable, CatalogTypeOK
<1>9. ASSUME NEW o \in Requests PROVE CallHolds(o)'
  <2>1. CASE o = r
    <3>1. Compares(r)' <=> Compares(r)
      BY <1>1, <1>4 DEF Compares, CallGoes
    <3>2. Durable(call[r].digest)' /\ call'[r].digest = call[r].digest
      BY <1>2, <1>3, <1>4, CatalogAssumption DEF Durable, CallGoes
    <3>3. Placed(r)'
      BY <1>1, <1>2, <1>4, <3>2, CatalogAssumption DEF Placed, CallGoes, Durable
    <3> QED BY <1>1, <1>2, <1>3, <1>4, <2>1, <3>1, <3>3 DEF CallHolds, CallGoes, Locked
  <2>2. CASE o # r
    BY <1>2, <1>4, <2>2, OthersRest, RestingHolds DEF CallGoes
  <2> QED BY <2>1, <2>2
<1>10. \A x \in Readers : ReaderHolds(x)'
  BY <1>1, <1>3 DEF ReaderHolds
<1> QED BY <1>5, <1>7, <1>8, <1>9, <1>10

LEMMA SwapPointerHolds == ASSUME CatalogInv, NEW r \in Requests, SwapPointer(r) PROVE CatalogInv'
<1> USE DEF CatalogInv
<1>1. UNCHANGED <<family, kept, safe, lapsed, safePtr, pid, seq, flock, reader>>
  BY DEF SwapPointer, shelf
<1>2. flock = r /\ call[r].at = "swap" /\ Placed(r)
  BY DEF SwapPointer, CallHolds, Locked
<1>3. temps' \subseteq Temps
  BY DEF SwapPointer, CatalogTypeOK
<1>4. CASE Goes(r, "refused") /\ UNCHANGED pointer
  <2>1. OnlyCall(r, "refused")
    BY <1>1, <1>4, GoesIsCallGoes DEF OnlyCall, Locked
  <2>2. CatalogTypeOK'
    BY <1>1, <1>3, <2>1, GoesType DEF CatalogTypeOK
  <2> QED BY <1>1, <1>2, <2>1, <2>2, OnlyCallHolds DEF Locked
<1>5. CASE /\ Goes(r, "syncPointer")
           /\ pointer' = [digest |-> call[r].digest, there |-> TRUE,
                          from |-> IF family = "addendum" /\ call[r].op = "rollback"
                                   THEN call[r].expected ELSE Nothing]
  <2>1. CallGoes(r, "syncPointer")
    BY <1>5, GoesIsCallGoes DEF Locked
  <2>2. call[r].digest \in Digest /\ call[r].expected \in Digest /\ Nothing \in Digest
    BY DEF CatalogTypeOK, CallRecords, Digest
  <2>3. pointer' \in Pointers /\ pointer'.digest = call[r].digest
    BY <1>5, <2>2 DEF Pointers
  <2>4. CatalogTypeOK'
    BY <1>1, <1>3, <2>1, <2>3 DEF CatalogTypeOK, CallGoes
  <2>5. KeptIsDurable' /\ VersionsAreImmutable'
    <3>1. \A o \in Requests : call[o].at # "syncVersion"
      BY <1>2, OthersRest DEF Locked
    <3> QED BY <1>1, <3>1 DEF KeptIsDurable, VersionsAreImmutable, Durable
  <2>6. PointersDurable'
    BY <1>1, <1>2, <2>3 DEF PointersDurable, Durable, Placed
  <2>7. ASSUME NEW o \in Requests PROVE CallHolds(o)'
    <3>1. CASE o = r
      <4>1. Placed(r)'
        BY <1>1, <1>2, <2>1 DEF Placed, CallGoes, Durable
      <4>2. call[r].op # "none" /\ (call[r].op = "install" => call[r].digest \in Versions /\ call[r].from \in Proposals)
        BY <1>2 DEF CallHolds
      <4> QED BY <1>1, <1>2, <2>1, <2>3, <3>1, <4>1, <4>2 DEF CallHolds, CallGoes, Locked
    <3>2. CASE o # r
      BY <1>2, <2>1, <3>2, OthersRest, RestingHolds DEF CallGoes
    <3> QED BY <3>1, <3>2
  <2>8. \A x \in Readers : ReaderHolds(x)'
    BY <1>1 DEF ReaderHolds
  <2> QED BY <2>4, <2>5, <2>6, <2>7, <2>8
<1> QED BY <1>4, <1>5 DEF SwapPointer
LEMMA SyncPointerHolds == ASSUME CatalogInv, NEW r \in Requests, SyncPointer(r) PROVE CatalogInv'
<1> USE DEF CatalogInv
<1>1. UNCHANGED <<family, kept, safe, lapsed, pointer, temps, pid, seq, flock, reader>>
  BY DEF SyncPointer, shelf
<1>2. /\ flock = r /\ call[r].at = "syncPointer" /\ Placed(r) /\ call[r].op # "none"
      /\ call[r].op = "install" => call[r].digest \in Versions /\ call[r].from \in Proposals
      /\ pointer.digest = call[r].digest
  BY DEF SyncPointer, CallHolds, Locked
<1>3. PICK at \in {"answered", "refused"} : Goes(r, at) /\ safePtr' \in {pointer, safePtr}
  BY DEF SyncPointer
<1>4. CallGoes(r, at)
  BY <1>3, GoesIsCallGoes DEF Locked
<1>5. CatalogTypeOK'
  BY <1>1, <1>3, <1>4 DEF CatalogTypeOK, CallGoes
<1>6. KeptIsDurable' /\ VersionsAreImmutable'
  <2>1. \A o \in Requests : call[o].at # "syncVersion"
    BY <1>2, OthersRest DEF Locked
  <2> QED BY <1>1, <2>1 DEF KeptIsDurable, VersionsAreImmutable, Durable
<1>7. PointersDurable'
  BY <1>1, <1>3 DEF PointersDurable, Durable
<1>8. ASSUME NEW o \in Requests PROVE CallHolds(o)'
  <2>1. CASE o = r
    BY <1>1, <1>2, <1>4, <2>1 DEF CallHolds, CallGoes, Locked, Placed
  <2>2. CASE o # r
    BY <1>2, <1>4, <2>2, OthersRest, RestingHolds DEF CallGoes
  <2> QED BY <2>1, <2>2
<1>9. \A x \in Readers : ReaderHolds(x)'
  BY <1>1 DEF ReaderHolds
<1> QED BY <1>5, <1>6, <1>7, <1>8, <1>9

LEMMA ReadHolds ==
  ASSUME CatalogInv, NEW x \in Readers, ReadPointer(x) \/ ReadVersion(x) \/ ListVersions(x)
  PROVE  CatalogInv'
<1> USE DEF CatalogInv
<1>1. UNCHANGED <<family, kept, safe, lapsed, pointer, safePtr, temps, pid, seq, flock, call>>
  BY DEF ReadPointer, ReadVersion, ListVersions, shelf, active
<1>2. /\ reader' \in [Readers -> [at : {"idle", "read", "found", "lost", "blind"}, saw : Digest]]
      /\ \A y \in Readers : y # x => reader'[y] = reader[y]
  BY DEF ReadPointer, ReadVersion, ListVersions, CatalogTypeOK, Pointers
<1>3. ReaderHolds(x)'
  <2>1. CASE ReadPointer(x)
    <3>1. reader'[x] = [at |-> "read", saw |-> pointer.digest] /\ pointer.digest \in Versions
      BY <2>1 DEF ReadPointer, CatalogTypeOK, Pointers, Digest
    <3> QED BY <1>1, <3>1 DEF ReaderHolds, PointersDurable
  <2>2. CASE ReadVersion(x)
    <3>1. /\ reader'[x].saw = reader[x].saw /\ reader[x].at = "read"
          /\ reader'[x].at = IF kept[reader[x].saw] # Nothing THEN "found" ELSE "lost"
      BY <2>2 DEF ReadVersion, CatalogTypeOK
    <3> QED BY <1>1, <3>1 DEF ReaderHolds
  <2>3. CASE ListVersions(x)
    <3>1. reader'[x].at \in {"blind", "idle"}
      BY <2>3 DEF ListVersions, CatalogTypeOK
    <3> QED BY <3>1 DEF ReaderHolds
  <2> QED BY <2>1, <2>2, <2>3
<1>4. \A y \in Readers : ReaderHolds(y)'
  BY <1>1, <1>2, <1>3 DEF ReaderHolds
<1>5. CatalogTypeOK'
  BY <1>1, <1>2 DEF CatalogTypeOK
<1>6. KeptIsDurable' /\ PointersDurable' /\ VersionsAreImmutable'
  BY <1>1 DEF KeptIsDurable, PointersDurable, VersionsAreImmutable, Durable
<1>7. \A r \in Requests : CallHolds(r)'
  BY <1>1 DEF CallHolds, Placed, Compares, Durable
<1> QED BY <1>4, <1>5, <1>6, <1>7

LEMMA DeathHolds == ASSUME CatalogInv, ProcessDeath \/ PowerLoss PROVE CatalogInv'
<1> USE DEF CatalogInv
<1>1. Died
  BY DEF ProcessDeath, PowerLoss
<1>2. /\ flock' = Nothing /\ family' = family /\ pid' \in Nat /\ seq' = 1
      /\ reader' = [x \in Readers |-> Resting]
  BY <1>1, CatalogAssumption DEF Died
<1>3. /\ call' \in [Requests -> CallRecords]
      /\ \A r \in Requests : /\ call'[r].at \in {"idle", "done", "failed"}
                             /\ call[r].at = "idle" => call'[r].at = "idle"
                             /\ call'[r].op = call[r].op /\ call'[r].digest = call[r].digest
                             /\ call'[r].from = call[r].from
  <2>1. call' = [r \in Requests |->
               [call[r] EXCEPT !.at = IF @ \in {"idle", "done"} THEN @ ELSE "failed"]]
    BY <1>1 DEF Died
  <2> QED BY <2>1 DEF CatalogTypeOK, CallRecords, Locked
<1>4. /\ lapsed' \subseteq Versions /\ lapsed \subseteq lapsed'
      /\ \A r \in Requests : call[r].at = "syncVersion" => call[r].digest \in lapsed'
  <2>1. lapsed' = lapsed \cup {call[r].digest : r \in {q \in Requests : call[q].at = "syncVersion"}}
    BY <1>1 DEF Died
  <2>2. \A r \in Requests : call[r].at = "syncVersion" => call[r].digest \in Versions
    BY DEF CallHolds
  <2> QED BY <2>1, <2>2 DEF CatalogTypeOK
<1>5. /\ temps' \subseteq Temps /\ pointer' \in {pointer, safePtr} /\ safePtr' \in {pointer', safePtr}
      /\ kept' \in [Versions -> Source] /\ safe' \in [Versions -> Source]
      /\ \A d \in Versions : /\ kept'[d] \in {kept[d], safe[d]} /\ safe'[d] \in {safe[d], kept'[d]}
                             /\ safe'[d] # Nothing => kept'[d] = safe'[d]
                             /\ safe[d] # Nothing => kept'[d] = safe[d] /\ safe'[d] = safe[d]
                             /\ kept'[d] # safe'[d] => kept'[d] = kept[d] /\ safe'[d] = safe[d]
  <2>1. CASE ProcessDeath
    BY <2>1 DEF ProcessDeath, active, CatalogTypeOK, VersionsAreImmutable
  <2>2. CASE PowerLoss
    <3>1. PICK D \in SUBSET Versions :
            kept' = [d \in Versions |-> IF d \in D THEN safe[d] ELSE kept[d]]
      BY <2>2 DEF PowerLoss
    <3>2. safe' = kept' /\ pointer' \in {pointer, safePtr} /\ safePtr' = pointer' /\ temps' \subseteq temps
      BY <2>2 DEF PowerLoss
    <3> QED BY <3>1, <3>2 DEF CatalogTypeOK, VersionsAreImmutable
  <2> QED BY <2>1, <2>2
<1>6. CatalogTypeOK'
  <2>1. reader' \in [Readers -> [at : {"idle", "read", "found", "lost", "blind"}, saw : Digest]]
    BY <1>2 DEF Resting, Digest
  <2> QED BY <1>2, <1>3, <1>4, <1>5, <2>1 DEF CatalogTypeOK
<1>7. \A d \in Versions : Durable(d) => Durable(d)'
  BY <1>4, <1>5 DEF Durable
<1>8. KeptIsDurable'
  BY <1>4, <1>5, <1>7 DEF KeptIsDurable, Durable
<1>9. PointersDurable' /\ VersionsAreImmutable'
  BY <1>4, <1>5, <1>7 DEF PointersDurable, VersionsAreImmutable, Durable, CatalogTypeOK
<1>10. \A r \in Requests : CallHolds(r)'
  BY <1>3 DEF CallHolds, Locked
<1>11. \A x \in Readers : ReaderHolds(x)'
  BY <1>2 DEF ReaderHolds, Resting
<1> QED BY <1>6, <1>8, <1>9, <1>10, <1>11

LEMMA CatalogStutters == ASSUME CatalogInv, UNCHANGED catalogVars PROVE CatalogInv'
BY DEF catalogVars, CatalogInv, CatalogTypeOK, KeptIsDurable, PointersDurable, VersionsAreImmutable,
       CallHolds, ReaderHolds, Placed, Compares, Durable

\* The catalogue of a managed asset (managed.rs, mode_addendum.rs, persona_addendum.rs), for
\* any number of concurrent calls, retries, file errors, deaths and losses of power: the
\* active pointer always names a version that is there and durable, unless its directory was
\* never synced; a durable version is never written again; between a comparison and the
\* rename nobody else moves the pointer; a success is true when it is answered; and a reader
\* that takes no lock finds the version its pointer named.
THEOREM CatalogIsSafe == CatalogSpec => []CatalogSafe
<1>1. CatalogInv /\ [CatalogNext]_catalogVars => CatalogInv'
  <2> SUFFICES ASSUME CatalogInv, [CatalogNext]_catalogVars PROVE CatalogInv'
    OBVIOUS
  <2>1. ASSUME NEW r \in Requests,
               \/ Review(r) \/ Lock(r) \/ BeginInstall(r) \/ BeginRollback(r) \/ MakeVersion(r)
               \/ RenameVersion(r) \/ SyncVersions(r) \/ WritePointer(r) \/ SwapPointer(r)
               \/ SyncPointer(r) \/ DropLock(r)
        PROVE  CatalogInv'
    BY <2>1, ReviewHolds, LockHolds, BeginInstallHolds, BeginRollbackHolds, MakeVersionHolds,
       RenameVersionHolds, SyncVersionsHolds, WritePointerHolds, SwapPointerHolds, SyncPointerHolds,
       DropLockHolds
  <2> QED BY <2>1, ReadHolds, DeathHolds, CatalogStutters DEF CatalogNext
<1> QED BY <1>1, CatalogStarts, CatalogInvSafe, PTL DEF CatalogSpec
=============================================================================
