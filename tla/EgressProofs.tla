---------------------------- MODULE EgressProofs ----------------------------
(***************************************************************************)
(* Proofs about EgressRuntime for any set of overlapping calls, any number *)
(* of policy generations, versions and handle tokens, and any limits;      *)
(* about EvolutionReview for any number of reviews, appliers, detectors    *)
(* and addenda; and about DriveStore for any number of calls, documents,   *)
(* proposals and runs.  All three carry out what was decided, once,        *)
(* whatever changed between the decision and the effect.                   *)
(***************************************************************************)
EXTENDS EgressRuntime, EvolutionReview, DriveStore, FiniteSetTheorems, WellFoundedInduction,
        TLAPS

-----------------------------------------------------------------------------
(* The inductive invariant.                                                *)

CallSet == [pc : {"idle", "approving", "approved", "prepared", "sealing",
                  "begun", "audited", "reserved", "settling", "finishing"},
            kind : {"get", "mutation"}, shown : Snapshots, snap : Snapshots,
            outcome : CallErrors \cup {"ok", "refused", "redirect"}, hops : 0..1]

Unsent == {"begun", "audited", "reserved"}
Answers == {"ok", "refused", "redirect", "budget"}
Unheard == {"transport", "timeout", "audit", "durability"}

\* A mutation between the insertion of its row and its receipt.
Carries(p) == p.kind = "mutation" /\ p.pc \in Unsent \cup {"settling", "finishing"}
IdOf(c) == EffectOf(calls[c].snap)

\* Where a call of either kind can be, and what a prepared mutation is bound to.
Fits(p) ==
    /\ p.kind = "get" => p.pc \in {"idle", "audited", "reserved", "settling"}
    /\ Carries(p) \/ p.pc \in {"prepared", "sealing"} =>
         p.snap = p.shown /\ p.snap.dest \in Versions

\* What the call that carries an effect knows of it: n transmissions so far, the
\* status s of its row, and whether (a) the peer's answer was read.
Ahead(p, n, s, a) ==
    /\ s \in {"started", "uncertain"}
    /\ p.pc \in Unsent => n = 0
    /\ p.pc = "settling" => p.outcome \in Answers \cup {"transport", "timeout"}
                            /\ (p.outcome \in Answers => a)
    /\ p.pc = "finishing" => n = 0 \/ a \/ p.outcome \in Unheard

CallOK(c) ==
    /\ Fits(calls[c])
    /\ Carries(calls[c]) => Ahead(calls[c], sent[IdOf(c)], effects[IdOf(c)], IdOf(c) \in answered)

\* A row is inserted before anything is sent for it.
EffectOK(i) ==
    /\ sent[i] <= 1
    /\ effects[i] = "none" => sent[i] = 0
    /\ sent[i] > 0 /\ i \notin answered => effects[i] \in {"started", "uncertain"}

\* The insertion lets one call through.
OneCarrier ==
    \A c, d \in Calls :
        Carries(calls[c]) /\ Carries(calls[d]) /\ IdOf(c) = IdOf(d) => c = d

RowsInv ==
    /\ \A c \in Calls : CallOK(c)
    /\ \A i \in EffectIds : EffectOK(i)
    /\ OneCarrier

EgInv == EgTypeOK /\ RowsInv /\ NeverOverdrawn

-----------------------------------------------------------------------------
(* What the updates of a step mean.                                        *)

RulesSet == [gen : 1..MaxPolicies, dest : 0..MaxVersion, secret : 0..MaxVersion,
             revDest : SUBSET Versions, revSecret : SUBSET Versions]
Stored == {"none", "started", "succeeded", "failed", "uncertain"}

\* The bounds are numbers.
LEMMA Bounds ==
  /\ MaxVersion \in Nat \ {0} /\ MaxPolicies \in Nat \ {0} /\ MaxTokens \in Nat \ {0}
  /\ MaxStarts \in Nat \ {0} /\ RequestCap \in Nat /\ ResponseCap \in Nat
  /\ IsFiniteSet(Calls)
BY EgressConstants

\* Only c's entry changes.
Moves(c) == calls' \in [Calls -> CallSet] /\ \A d \in Calls \ {c} : calls'[d] = calls[d]

\* A call's record keeps everything but the fields named.
Same(p, q) == p.kind = q.kind /\ p.snap = q.snap /\ p.shown = q.shown

\* The type invariant in the names used here.
LEMMA Typing ==
  EgTypeOK <=>
    /\ rules \in RulesSet
    /\ handles \in [1..MaxTokens -> 0..MaxVersion] /\ tokens \in 0..MaxTokens
    /\ outlet \in {"open", "ended", "cleared"}
    /\ effects \in [EffectIds -> Stored]
    /\ usage \in [requests : Nat, response : Nat, reserved : Nat]
    /\ calls \in [Calls -> CallSet]
    /\ starts \in 0..MaxStarts /\ sent \in [EffectIds -> Nat] /\ answered \subseteq EffectIds
BY DEF EgTypeOK, RulesSet, Stored, CallSet

\* The resting record is a record of a call.
LEMMA RestTyped ==
  /\ NoSnapshot \in Snapshots /\ NoExchange \in CallSet
  /\ NoExchange.pc = "idle" /\ NoExchange.kind = "get"
<1>1. NoSnapshot \in Snapshots
  BY Bounds DEF NoSnapshot, Snapshots
<1> QED BY <1>1 DEF NoExchange, CallSet

\* Replacing one entry by another record.
LEMMA PutMeans ==
  ASSUME calls \in [Calls -> CallSet], NEW c \in Calls, NEW x \in CallSet,
         calls' = [calls EXCEPT ![c] = x]
  PROVE  Moves(c) /\ calls'[c] = x
BY DEF Moves

Pcs == {"idle", "approving", "approved", "prepared", "sealing", "begun", "audited",
        "reserved", "settling", "finishing"}

\* A call that goes on keeps its kind, its snapshots and its outcome.
LEMMA GoMeans ==
  ASSUME calls \in [Calls -> CallSet], NEW c \in Calls, NEW pc \in Pcs, Go(c, pc)
  PROVE  /\ Moves(c) /\ calls'[c].pc = pc /\ Same(calls'[c], calls[c])
         /\ calls'[c].outcome = calls[c].outcome
<1>1. calls' = [calls EXCEPT ![c] = [calls[c] EXCEPT !.pc = pc]]
  BY DEF Go, CallSet
<1>2. [calls[c] EXCEPT !.pc = pc] \in CallSet
  BY DEF CallSet, Pcs
<1>3. Moves(c) /\ calls'[c] = [calls[c] EXCEPT !.pc = pc]
  BY <1>1, <1>2, PutMeans
<1> QED BY <1>3 DEF CallSet, Same

\* A call that ends rests.
LEMMA EndMeans ==
  ASSUME calls \in [Calls -> CallSet], NEW c \in Calls, End(c)
  PROVE  Moves(c) /\ calls'[c] = NoExchange
BY RestTyped, PutMeans DEF End

\* A call that fails rests when it reads and has a receipt to write when it changes.
LEMMA FailsMeans ==
  ASSUME calls \in [Calls -> CallSet], NEW c \in Calls,
         NEW e \in CallErrors \cup {"ok", "refused", "redirect"}, Fails(c, e)
  PROVE  /\ Moves(c)
         /\ calls[c].kind = "get" => calls'[c] = NoExchange
         /\ calls[c].kind = "mutation" =>
              /\ calls'[c].pc = "finishing" /\ calls'[c].outcome = e
              /\ Same(calls'[c], calls[c])
<1>1. CASE calls[c].kind = "get"
  <2>1. calls' = [calls EXCEPT ![c] = NoExchange]
    BY <1>1 DEF Fails
  <2> QED BY <1>1, <2>1, RestTyped, PutMeans
<1>2. CASE calls[c].kind # "get"
  <2> DEFINE x == [calls[c] EXCEPT !.pc = "finishing", !.outcome = e]
  <2>1. calls' = [calls EXCEPT ![c] = x]
    BY <1>2 DEF Fails
  <2>2. x \in CallSet /\ x.pc = "finishing" /\ x.outcome = e /\ Same(x, calls[c])
    BY DEF CallSet, Same
  <2> HIDE DEF x
  <2>3. Moves(c) /\ calls'[c] = x
    BY <2>1, <2>2, PutMeans
  <2> QED BY <1>2, <2>2, <2>3
<1> QED BY <1>1, <1>2

\* What a call in progress is bound to is an effect id.
LEMMA IdTyped ==
  ASSUME calls \in [Calls -> CallSet], NEW c \in Calls, calls[c].snap.dest \in Versions
  PROVE  IdOf(c) \in EffectIds
BY DEF CallSet, Snapshots, IdOf, EffectOf, EffectIds

\* A snapshot of the policy is a snapshot.
LEMMA SnapshotTyped ==
  ASSUME EgTypeOK, NEW t \in 0..MaxTokens
  PROVE  /\ Snapshot(t) \in Snapshots /\ Snapshot(t).token = t
         /\ DestinationAllowed(rules) => Snapshot(t).dest \in Versions
BY DEF EgTypeOK, Snapshot, Snapshots, DestinationAllowed

-----------------------------------------------------------------------------
(* What a step does to the calls, in the terms of the invariant.           *)

\* The effects are left alone and the call that moves carries nothing new.
Quiet(c) ==
    /\ Moves(c) /\ UNCHANGED <<effects, sent, answered>>
    /\ CallOK(c)'
    /\ Carries(calls'[c]) => Carries(calls[c]) /\ calls'[c].snap = calls[c].snap

\* A quiet step keeps what ties the rows to the calls.
LEMMA QuietStep ==
  ASSUME EgTypeOK, RowsInv, NEW c \in Calls, Quiet(c)
  PROVE  RowsInv'
<1>1. \A d \in Calls \ {c} : calls'[d] = calls[d]
  BY DEF Quiet, Moves
<1>2. ASSUME NEW d \in Calls PROVE CallOK(d)'
  <2>1. CASE d = c
    BY <2>1 DEF Quiet
  <2>2. CASE d # c
    BY <1>1, <2>2 DEF RowsInv, CallOK, IdOf, Quiet
  <2> QED BY <2>1, <2>2
<1>3. \A i \in EffectIds : EffectOK(i)'
  BY DEF RowsInv, EffectOK, Quiet
<1>4. \A d \in Calls : Carries(calls'[d]) => Carries(calls[d]) /\ IdOf(d)' = IdOf(d)
  BY <1>1 DEF Quiet, IdOf
<1>5. OneCarrier'
  BY <1>4 DEF RowsInv, OneCarrier
<1> QED BY <1>2, <1>3, <1>5 DEF RowsInv

\* An effect changes; no other call carries it, or its row only becomes uncertain.
LEMMA RowStep ==
  ASSUME EgTypeOK, RowsInv, NEW c \in Calls, NEW i \in EffectIds, Moves(c),
         effects' \in [EffectIds -> Stored], sent' \in [EffectIds -> Nat],
         \A k \in EffectIds \ {i} :
            effects'[k] = effects[k] /\ sent'[k] = sent[k] /\ (k \in answered' <=> k \in answered),
         EffectOK(i)', CallOK(c)', Carries(calls'[c]) => IdOf(c)' = i,
         \A d \in Calls \ {c} : Carries(calls[d]) /\ IdOf(d) = i =>
            /\ sent'[i] = sent[i] /\ (i \in answered' <=> i \in answered)
            /\ effects'[i] \in {"started", "uncertain"} /\ ~Carries(calls'[c])
  PROVE  RowsInv'
<1>1. calls \in [Calls -> CallSet] /\ \A d \in Calls \ {c} : calls'[d] = calls[d]
  BY Typing DEF Moves
<1>2. ASSUME NEW d \in Calls PROVE CallOK(d)'
  <2>1. CASE d = c
    BY <2>1
  <2>2. CASE d # c
    <3>1. calls'[d] = calls[d] /\ IdOf(d)' = IdOf(d)
      BY <1>1, <2>2 DEF IdOf
    <3>2. CallOK(d)
      BY DEF RowsInv
    <3>3. CASE ~Carries(calls[d])
      BY <3>1, <3>2, <3>3 DEF CallOK
    <3>4. CASE Carries(calls[d])
      <4>1. IdOf(d) \in EffectIds
        BY <1>1, <3>2, <3>4, IdTyped DEF CallOK, Fits
      <4>2. CASE IdOf(d) = i
        BY <2>2, <3>1, <3>2, <3>4, <4>2 DEF CallOK, Ahead
      <4>3. CASE IdOf(d) # i
        BY <3>1, <3>2, <3>4, <4>1, <4>3 DEF CallOK, Ahead
      <4> QED BY <4>2, <4>3
    <3> QED BY <3>3, <3>4
  <2> QED BY <2>1, <2>2
<1>3. ASSUME NEW k \in EffectIds PROVE EffectOK(k)'
  BY DEF RowsInv, EffectOK
<1>4. OneCarrier'
  <2> SUFFICES ASSUME NEW a \in Calls, NEW b \in Calls, Carries(calls'[a]), Carries(calls'[b]),
                      IdOf(a)' = IdOf(b)'
               PROVE  a = b
    BY DEF OneCarrier
  <2>1. CASE a # c /\ b # c
    BY <1>1, <2>1 DEF IdOf, RowsInv, OneCarrier
  <2>2. CASE a = c /\ b # c
    <3>1. calls'[b] = calls[b] /\ IdOf(b)' = IdOf(b)
      BY <1>1, <2>2 DEF IdOf
    <3> QED BY <2>2, <3>1
  <2>3. CASE b = c /\ a # c
    <3>1. calls'[a] = calls[a] /\ IdOf(a)' = IdOf(a)
      BY <1>1, <2>3 DEF IdOf
    <3> QED BY <2>3, <3>1
  <2> QED BY <2>1, <2>2, <2>3
<1> QED BY <1>2, <1>3, <1>4 DEF RowsInv

-----------------------------------------------------------------------------
(* The budget.                                                             *)

\* A call between its reservation and its settlement.
Holding(p) == p.pc \in {"reserved", "settling"}
Holders == {c \in Calls : Holding(calls[c])}

UsageSet == [requests : Nat, response : Nat, reserved : Nat]

\* The limits with the holders counted.
LEMMA Overdrawn ==
  NeverOverdrawn <=> /\ usage.requests <= RequestCap
                     /\ usage.response + usage.reserved <= ResponseCap
                     /\ outlet # "cleared" => Cardinality(Holders) <= usage.reserved
BY DEF NeverOverdrawn, Holders, Holding

\* There are finitely many holders; one more or one less is counted as such.
LEMMA Holding1 ==
  ASSUME NEW c \in Calls, Moves(c)
  PROVE  /\ IsFiniteSet(Holders) /\ Cardinality(Holders) \in Nat /\ Cardinality(Holders') \in Nat
         /\ (Holding(calls'[c]) <=> Holding(calls[c])) => Holders' = Holders
         /\ ~Holding(calls[c]) /\ Holding(calls'[c]) =>
              Cardinality(Holders') = Cardinality(Holders) + 1
         /\ Holding(calls[c]) /\ ~Holding(calls'[c]) =>
              Cardinality(Holders') = Cardinality(Holders) - 1
<1>1. IsFiniteSet(Holders) /\ Cardinality(Holders) \in Nat
  <2>1. Holders \in SUBSET Calls
    BY DEF Holders
  <2> QED BY <2>1, Bounds, FS_Subset, FS_CardinalityType
<1>2. IsFiniteSet(Holders') /\ Cardinality(Holders') \in Nat
  <2>1. Holders' \in SUBSET Calls
    BY DEF Holders
  <2> QED BY <2>1, Bounds, FS_Subset, FS_CardinalityType
<1>3. (Holding(calls'[c]) <=> Holding(calls[c])) => Holders' = Holders
  BY DEF Holders, Moves
<1>4. ASSUME ~Holding(calls[c]), Holding(calls'[c])
      PROVE  Cardinality(Holders') = Cardinality(Holders) + 1
  <2>1. Holders' = Holders \cup {c} /\ c \notin Holders
    BY <1>4 DEF Holders, Moves
  <2> QED BY <1>1, <2>1, FS_AddElement
<1>5. ASSUME Holding(calls[c]), ~Holding(calls'[c])
      PROVE  Cardinality(Holders') = Cardinality(Holders) - 1
  <2>1. Holders' = Holders \ {c} /\ c \in Holders
    BY <1>5 DEF Holders, Moves
  <2> QED BY <1>1, <2>1, FS_RemoveElement
<1> QED BY <1>1, <1>2, <1>3, <1>4, <1>5

\* A call that reserves nothing keeps the limits.
LEMMA BudgetKept ==
  ASSUME EgTypeOK, NeverOverdrawn, NEW c \in Calls, Moves(c), UNCHANGED <<usage, outlet>>,
         Holding(calls'[c]) => Holding(calls[c])
  PROVE  NeverOverdrawn'
<1>1. Cardinality(Holders) \in Nat /\ Cardinality(Holders') \in Nat
      /\ Cardinality(Holders') <= Cardinality(Holders)
  BY Holding1
<1>2. usage \in UsageSet
  BY DEF EgTypeOK, UsageSet
<1>3. usage'.requests <= RequestCap /\ usage'.response + usage'.reserved <= ResponseCap
  BY Overdrawn
<1>4. outlet' # "cleared" => Cardinality(Holders') <= usage'.reserved
  BY <1>1, <1>2, Overdrawn DEF UsageSet
<1> QED BY <1>3, <1>4, Overdrawn DEF NeverOverdrawn, Holders, Holding

-----------------------------------------------------------------------------
(* One step of one call.                                                   *)

\* The step leaves the effects and the budget alone.
LEMMA CalmStep ==
  ASSUME EgInv, NEW c \in Calls, Quiet(c), UNCHANGED <<offline, effects, usage>>,
         starts' \in 0..MaxStarts, Holding(calls'[c]) => Holding(calls[c])
  PROVE  EgInv'
<1>1. EgTypeOK /\ RowsInv /\ NeverOverdrawn
  BY DEF EgInv
<1>2. RowsInv'
  BY <1>1, QuietStep
<1>3. NeverOverdrawn'
  BY <1>1, BudgetKept DEF Quiet, offline
<1>4. EgTypeOK'
  BY <1>1 DEF EgTypeOK, offline, Quiet, Moves, CallSet
<1> QED BY <1>2, <1>3, <1>4 DEF EgInv

\* The step changes the effect i and leaves the budget alone.
LEMMA EffectStep ==
  ASSUME EgInv, NEW c \in Calls, Moves(c), RowsInv',
         UNCHANGED <<rules, handles, tokens, outlet, usage, starts>>,
         effects' \in [EffectIds -> Stored], sent' \in [EffectIds -> Nat],
         answered' \subseteq EffectIds, Holding(calls'[c]) => Holding(calls[c])
  PROVE  EgInv'
<1>1. NeverOverdrawn'
  BY BudgetKept DEF EgInv
<1>2. EgTypeOK'
  BY DEF EgInv, EgTypeOK, Moves, CallSet, Stored
<1> QED BY <1>1, <1>2 DEF EgInv

\* One step of one call keeps the invariant: a case for each await of the handler.
LEMMA CallSteps ==
  ASSUME EgInv, NEW c \in Calls, EgCall(c)
  PROVE  EgInv'
<1>1. EgTypeOK /\ RowsInv /\ NeverOverdrawn /\ CallOK(c)
  BY DEF EgInv, RowsInv
<1>2. /\ calls \in [Calls -> CallSet] /\ calls[c] \in CallSet /\ rules \in RulesSet
      /\ effects \in [EffectIds -> Stored] /\ sent \in [EffectIds -> Nat]
      /\ answered \subseteq EffectIds /\ starts \in 0..MaxStarts /\ usage \in UsageSet
      /\ handles \in [1..MaxTokens -> 0..MaxVersion]
  BY <1>1, Typing DEF UsageSet
<1>3. \A pc \in Pcs : Go(c, pc) => /\ Moves(c) /\ calls'[c].pc = pc /\ Same(calls'[c], calls[c])
                                   /\ calls'[c].outcome = calls[c].outcome
  BY <1>2, GoMeans
<1>4. End(c) => Moves(c) /\ calls'[c].pc = "idle" /\ calls'[c].kind = "get"
  BY <1>2, EndMeans, RestTyped
<1>5. \A e \in CallErrors \cup {"ok", "refused", "redirect"} : Fails(c, e) =>
         /\ Moves(c)
         /\ calls[c].kind = "get" => calls'[c].pc = "idle" /\ calls'[c].kind = "get"
         /\ calls[c].kind = "mutation" =>
              calls'[c].pc = "finishing" /\ calls'[c].outcome = e /\ Same(calls'[c], calls[c])
  BY <1>2, FailsMeans, RestTyped
<1>6. End(c) /\ UNCHANGED <<offline, effects, usage, starts>> => EgInv'
  <2> SUFFICES ASSUME End(c), UNCHANGED <<offline, effects, usage, starts>> PROVE EgInv'
    OBVIOUS
  <2>1. Quiet(c)
    BY <1>4 DEF Quiet, offline, CallOK, Fits, Carries, Unsent
  <2> QED BY <1>2, <1>4, <2>1, CalmStep DEF Holding
<1>7. ASSUME NEW t \in 0..MaxTokens, StartGet(c, t) PROVE EgInv'
  <2> DEFINE x == [NoExchange EXCEPT !.pc = "audited", !.snap = Snapshot(t)]
  <2>1. Snapshot(t) \in Snapshots
    BY <1>1, SnapshotTyped
  <2>2. x \in CallSet /\ x.pc = "audited" /\ x.kind = "get"
    BY <2>1, RestTyped DEF NoExchange, CallSet
  <2>3. calls' = [calls EXCEPT ![c] = x] /\ UNCHANGED <<offline, effects, usage>>
        /\ starts < MaxStarts /\ starts' = starts + 1
    BY <1>7 DEF StartGet
  <2> HIDE DEF x
  <2>4. Moves(c) /\ calls'[c] = x
    BY <1>2, <2>2, <2>3, PutMeans
  <2>5. Quiet(c)
    BY <2>2, <2>3, <2>4 DEF Quiet, offline, CallOK, Fits, Carries, Unsent
  <2>6. starts' \in 0..MaxStarts
    BY <1>2, <2>3, Bounds
  <2> QED BY <2>2, <2>3, <2>4, <2>5, <2>6, CalmStep DEF Holding
<1>8. ASSUME NEW t \in 0..MaxTokens, StartMutation(c, t) PROVE EgInv'
  <2> DEFINE x == [NoExchange EXCEPT !.pc = "approving", !.kind = "mutation",
                                     !.shown = Snapshot(t)]
  <2>1. Snapshot(t) \in Snapshots
    BY <1>1, SnapshotTyped
  <2>2. x \in CallSet /\ x.pc = "approving" /\ x.kind = "mutation"
    BY <2>1, RestTyped DEF NoExchange, CallSet
  <2>3. calls' = [calls EXCEPT ![c] = x] /\ UNCHANGED <<offline, effects, usage>>
        /\ starts < MaxStarts /\ starts' = starts + 1
    BY <1>8 DEF StartMutation
  <2> HIDE DEF x
  <2>4. Moves(c) /\ calls'[c] = x
    BY <1>2, <2>2, <2>3, PutMeans
  <2>5. Quiet(c)
    BY <2>2, <2>3, <2>4 DEF Quiet, offline, CallOK, Fits, Carries, Unsent
  <2>6. starts' \in 0..MaxStarts
    BY <1>2, <2>3, Bounds
  <2> QED BY <2>2, <2>3, <2>4, <2>5, <2>6, CalmStep DEF Holding
<1>9. CASE DecideMutation(c)
  <2>1. UNCHANGED <<offline, effects, usage, starts>> /\ calls[c].pc = "approving"
    BY <1>9 DEF DecideMutation, At
  <2>2. CASE Go(c, "approved")
    <3>1. Moves(c) /\ calls'[c].pc = "approved" /\ Same(calls'[c], calls[c])
      BY <1>3, <2>2 DEF Pcs
    <3>2. Quiet(c)
      BY <1>1, <2>1, <3>1 DEF Quiet, offline, CallOK, Fits, Carries, Unsent, Same
    <3> QED BY <1>2, <2>1, <3>1, <3>2, CalmStep DEF Holding
  <2> QED BY <1>6, <1>9, <2>1, <2>2 DEF DecideMutation
<1>10. CASE Reprepare(c)
  <2> DEFINE after == Snapshot(calls[c].shown.token)
             x == [calls[c] EXCEPT !.pc = "prepared", !.snap = after]
  <2>1. UNCHANGED <<offline, effects, usage, starts>> /\ calls[c].pc = "approved"
    BY <1>10 DEF Reprepare, At
  <2>2. CASE /\ DestinationAllowed(rules) /\ SameSnapshot(calls[c].shown, after)
             /\ calls' = [calls EXCEPT ![c].pc = "prepared", ![c].snap = after]
    <3>1. after \in Snapshots /\ after.dest \in Versions /\ after = calls[c].shown
      <4>1. calls[c].shown.token \in 0..MaxTokens
        BY <1>2 DEF CallSet, Snapshots
      <4> QED BY <1>1, <2>2, <4>1, SnapshotTyped DEF SameSnapshot
    <3>2. calls' = [calls EXCEPT ![c] = x]
      BY <1>2, <2>2 DEF CallSet
    <3> HIDE DEF after
    <3>3. x \in CallSet /\ x.pc = "prepared" /\ x.kind = calls[c].kind /\ x.snap = after
          /\ x.shown = calls[c].shown
      BY <1>2, <3>1 DEF CallSet
    <3> HIDE DEF x
    <3>4. Moves(c) /\ calls'[c] = x
      BY <1>2, <3>2, <3>3, PutMeans
    <3>5. Quiet(c)
      BY <1>1, <2>1, <3>1, <3>3, <3>4 DEF Quiet, offline, CallOK, Fits, Carries, Unsent
    <3> QED BY <1>2, <2>1, <3>3, <3>4, <3>5, CalmStep DEF Holding
  <2> QED BY <1>6, <1>10, <2>1, <2>2 DEF Reprepare
<1>11. CASE BeginMutation(c)
  <2>1. UNCHANGED <<offline, usage, starts>> /\ calls[c].pc = "prepared"
    BY <1>11 DEF BeginMutation, At
  <2>2. PICK id \in EffectIds :
          /\ id = IdOf(c) /\ calls[c].kind = "mutation"
          /\ calls[c].snap = calls[c].shown /\ calls[c].snap.dest \in Versions
    BY <1>1, <1>2, <2>1, IdTyped DEF CallOK, Fits, CallSet
  <2>3. CASE effects[id] = "none" /\ effects' = [effects EXCEPT ![id] = "started"] /\ Go(c, "begun")
    <3>1. Moves(c) /\ calls'[c].pc = "begun" /\ Same(calls'[c], calls[c]) /\ IdOf(c)' = id
      BY <1>3, <2>2, <2>3 DEF Pcs, Same, IdOf
    <3>2. /\ effects' \in [EffectIds -> Stored] /\ effects'[id] = "started"
          /\ \A k \in EffectIds \ {id} : effects'[k] = effects[k]
      BY <1>2, <2>2, <2>3 DEF Stored
    <3>3. sent[id] = 0
      BY <1>1, <2>2, <2>3 DEF RowsInv, EffectOK
    <3>4. UNCHANGED <<sent, answered>>
      BY <2>1 DEF offline
    <3>5. EffectOK(id)'
      BY <3>2, <3>3, <3>4 DEF EffectOK
    <3>6. CallOK(c)'
      <4>1. Fits(calls'[c])
        BY <2>2, <3>1 DEF Fits, Same
      <4>2. Ahead(calls'[c], sent'[id], effects'[id], id \in answered')
        BY <3>1, <3>2, <3>3, <3>4 DEF Ahead, Unsent
      <4> QED BY <3>1, <4>1, <4>2 DEF CallOK
    <3>7. \A d \in Calls : Carries(calls[d]) => IdOf(d) # id
      BY <1>1, <2>3 DEF RowsInv, CallOK, Ahead
    <3>8. RowsInv'
      BY <1>1, <1>2, <2>2, <3>1, <3>2, <3>4, <3>5, <3>6, <3>7, RowStep
    <3> QED BY <1>2, <2>1, <3>1, <3>2, <3>4, <3>8, EffectStep DEF Holding, offline
  <2>4. CASE (Go(c, "sealing") \/ End(c)) /\ UNCHANGED effects
    <3>1. CASE Go(c, "sealing")
      <4>1. Moves(c) /\ calls'[c].pc = "sealing" /\ Same(calls'[c], calls[c])
        BY <1>3, <3>1 DEF Pcs
      <4>2. Quiet(c)
        BY <2>1, <2>2, <2>4, <4>1 DEF Quiet, offline, CallOK, Fits, Carries, Unsent, Same
      <4> QED BY <1>2, <2>1, <2>4, <4>1, <4>2, CalmStep DEF Holding
    <3> QED BY <1>6, <2>1, <2>4, <3>1
  <2> QED BY <1>11, <2>2, <2>3, <2>4 DEF BeginMutation, Created, IdOf
<1>12. CASE SealFound(c)
  <2>1. UNCHANGED <<offline, usage, starts>> /\ calls[c].pc = "sealing" /\ End(c)
    BY <1>12 DEF SealFound, At
  <2>2. PICK id \in EffectIds :
          /\ id = IdOf(c)
          /\ effects' = [effects EXCEPT ![id] = SealedAs(effects[id], "uncertain")]
    BY <1>1, <1>2, <1>12, <2>1, IdTyped DEF CallOK, Fits, SealFound, IdOf
  <2>3. Moves(c) /\ calls'[c].pc = "idle" /\ calls'[c].kind = "get"
    BY <1>4, <2>1
  <2>4. /\ effects' \in [EffectIds -> Stored]
        /\ effects'[id] = IF effects[id] = "started" THEN "uncertain" ELSE effects[id]
        /\ \A k \in EffectIds \ {id} : effects'[k] = effects[k]
    BY <1>2, <2>2 DEF Stored, SealedAs
  <2>5. UNCHANGED <<sent, answered>>
    BY <2>1 DEF offline
  <2>6. EffectOK(id)'
    BY <1>1, <2>2, <2>4, <2>5 DEF RowsInv, EffectOK
  <2>7. CallOK(c)' /\ ~Carries(calls'[c])
    BY <2>3 DEF CallOK, Fits, Carries
  <2>8. \A d \in Calls : Carries(calls[d]) /\ IdOf(d) = id => effects[id] \in {"started", "uncertain"}
    BY <1>1 DEF RowsInv, CallOK, Ahead
  <2>9. RowsInv'
    BY <1>1, <1>2, <2>2, <2>3, <2>4, <2>5, <2>6, <2>7, <2>8, RowStep
  <2> QED BY <1>2, <2>1, <2>3, <2>4, <2>5, <2>9, EffectStep DEF Holding, offline
<1>13. ASSUME NEW e \in CallErrors \cup {"ok", "refused", "redirect"}, Fails(c, e),
              UNCHANGED <<offline, effects, usage, starts>>, Carries(calls[c]) \/ calls[c].kind = "get",
              calls[c].kind = "mutation" =>
                 sent[IdOf(c)] = 0 \/ IdOf(c) \in answered \/ e \in Unheard
       PROVE  EgInv'
  <2>1. CASE calls[c].kind = "get"
    <3>1. Moves(c) /\ calls'[c].pc = "idle" /\ calls'[c].kind = "get"
      BY <1>5, <1>13, <2>1
    <3>2. Quiet(c)
      BY <1>13, <3>1 DEF Quiet, offline, CallOK, Fits, Carries, Unsent
    <3> QED BY <1>2, <1>13, <3>1, <3>2, CalmStep DEF Holding
  <2>2. CASE calls[c].kind = "mutation"
    <3>1. Moves(c) /\ calls'[c].pc = "finishing" /\ calls'[c].outcome = e /\ Same(calls'[c], calls[c])
      BY <1>5, <1>13, <2>2
    <3>2. IdOf(c)' = IdOf(c) /\ Carries(calls[c])
      BY <1>13, <2>2, <3>1 DEF IdOf, Same
    <3>3. Fits(calls'[c])
      BY <1>1, <2>2, <3>1, <3>2 DEF CallOK, Fits, Same
    <3>4. Ahead(calls'[c], sent[IdOf(c)], effects[IdOf(c)], IdOf(c) \in answered)
      BY <1>1, <1>13, <2>2, <3>1, <3>2 DEF CallOK, Ahead, Unsent
    <3>5. Quiet(c)
      BY <1>13, <3>1, <3>2, <3>3, <3>4 DEF Quiet, offline, CallOK, Same
    <3> QED BY <1>2, <1>13, <3>1, <3>5, CalmStep DEF Holding
  <2> QED BY <1>2, <2>1, <2>2 DEF CallSet
<1>14. CASE ResolveAndAudit(c)
  <2>1. UNCHANGED <<offline, effects, usage, starts>> /\ calls[c].pc = "begun"
    BY <1>14 DEF ResolveAndAudit, At
  <2>2. calls[c].kind = "mutation" /\ Carries(calls[c]) /\ sent[IdOf(c)] = 0
    BY <1>1, <1>2, <2>1 DEF CallOK, Fits, CallSet, Carries, Unsent, Ahead
  <2>3. CASE Fails(c, "denied") \/ Fails(c, "audit")
    BY <1>13, <2>1, <2>2, <2>3 DEF CallErrors
  <2>4. CASE Go(c, "audited")
    <3>1. Moves(c) /\ calls'[c].pc = "audited" /\ Same(calls'[c], calls[c])
      BY <1>3, <2>4 DEF Pcs
    <3>2. IdOf(c)' = IdOf(c)
      BY <3>1 DEF IdOf, Same
    <3>3. Fits(calls'[c])
      BY <1>1, <2>2, <3>1 DEF CallOK, Fits, Same
    <3>4. Ahead(calls'[c], sent[IdOf(c)], effects[IdOf(c)], IdOf(c) \in answered)
      BY <1>1, <2>2, <3>1 DEF CallOK, Ahead, Unsent
    <3>5. Quiet(c)
      BY <2>1, <2>2, <3>1, <3>2, <3>3, <3>4 DEF Quiet, offline, CallOK, Same
    <3> QED BY <1>2, <2>1, <3>1, <3>5, CalmStep DEF Holding
  <2> QED BY <1>14, <2>3, <2>4 DEF ResolveAndAudit
<1>15. CASE ReserveBudget(c)
  <2>1. UNCHANGED <<offline, effects, starts>> /\ calls[c].pc = "audited"
    BY <1>15 DEF ReserveBudget, At
  <2>2. Carries(calls[c]) \/ calls[c].kind = "get"
    BY <1>2, <2>1 DEF Carries, Unsent, CallSet
  <2>3. calls[c].kind = "mutation" => sent[IdOf(c)] = 0
    BY <1>1, <2>1, <2>2 DEF CallOK, Ahead, Unsent, Carries
  <2>4. CASE (Fails(c, "budget") \/ Fails(c, "durability")) /\ UNCHANGED usage
    BY <1>13, <2>1, <2>2, <2>3, <2>4 DEF CallErrors
  <2>5. CASE outlet = "open" /\ WithinLimits /\ usage' = UsageReserved /\ Go(c, "reserved")
    <3>1. Moves(c) /\ calls'[c].pc = "reserved" /\ Same(calls'[c], calls[c])
      BY <1>3, <2>5 DEF Pcs
    <3>2. IdOf(c)' = IdOf(c) /\ (Carries(calls'[c]) <=> calls[c].kind = "mutation")
      BY <3>1 DEF IdOf, Same, Carries, Unsent
    <3>3. Fits(calls'[c])
      BY <1>1, <1>2, <2>1, <2>2, <3>1, <3>2 DEF CallOK, Fits, Same, CallSet
    <3>4. Carries(calls'[c]) =>
            Ahead(calls'[c], sent[IdOf(c)], effects[IdOf(c)], IdOf(c) \in answered)
      BY <1>1, <1>2, <2>2, <2>3, <3>1, <3>2 DEF CallOK, Ahead, Unsent, CallSet
    <3>5. Quiet(c)
      BY <1>2, <2>1, <2>2, <3>1, <3>2, <3>3, <3>4 DEF Quiet, offline, CallOK, Same, CallSet
    <3>6. RowsInv'
      BY <1>1, <3>5, QuietStep
    <3>7. /\ usage' \in UsageSet /\ usage'.requests = usage.requests + 1
          /\ usage'.reserved = usage.reserved + 1 /\ usage'.response = usage.response
      <4>1. usage' = [requests |-> usage.requests + 1, response |-> usage.response,
                      reserved |-> usage.reserved + 1]
        BY <1>2, <2>5 DEF UsageReserved, UsageSet
      <4> QED BY <1>2, <4>1 DEF UsageSet
    <3>8. NeverOverdrawn'
      <4>1. usage.requests < RequestCap /\ usage.response + usage.reserved + 1 <= ResponseCap
        BY <2>5 DEF WithinLimits
      <4>2. Cardinality(Holders') = Cardinality(Holders) + 1 /\ Cardinality(Holders) \in Nat
        BY <2>1, <3>1, Holding1 DEF Holding
      <4>3. Cardinality(Holders) <= usage.reserved
        BY <1>1, <2>5, Overdrawn
      <4>4. Cardinality(Holders') <= usage'.reserved
        BY <1>2, <3>7, <4>2, <4>3 DEF UsageSet
      <4>5. usage'.requests <= RequestCap /\ usage'.response + usage'.reserved <= ResponseCap
        BY <1>2, <3>7, <4>1, Bounds DEF UsageSet
      <4> QED BY <4>4, <4>5 DEF NeverOverdrawn, Holders, Holding
    <3>9. EgTypeOK'
      BY <1>1, <2>1, <3>1, <3>7 DEF EgTypeOK, offline, Moves, CallSet, UsageSet
    <3> QED BY <3>6, <3>8, <3>9 DEF EgInv
  <2> QED BY <1>15, <2>4, <2>5 DEF ReserveBudget
<1>16. CASE PerformHop(c)
  <2>1. PICK outcome \in Answers \cup {"transport", "timeout"}, left \in BOOLEAN :
          LET id == EffectOf(calls[c].snap)
              reaches == calls[c].kind = "mutation"
          IN  /\ outcome \in Answers => left
              /\ calls' = [calls EXCEPT ![c].pc = "settling", ![c].outcome = outcome]
              /\ sent' = [sent EXCEPT ![id] = IF reaches /\ left THEN @ + 1 ELSE @]
              /\ answered' = IF reaches /\ outcome \in Answers
                             THEN answered \cup {id} ELSE answered
    BY <1>16 DEF PerformHop, Answers
  <2>2. calls[c].pc = "reserved" /\ UNCHANGED <<rules, handles, tokens, outlet, effects, usage, starts>>
    BY <1>16 DEF PerformHop, At
  <2> DEFINE x == [calls[c] EXCEPT !.pc = "settling", !.outcome = outcome]
  <2>3. calls' = [calls EXCEPT ![c] = x]
    BY <1>2, <2>1 DEF CallSet
  <2>4. x \in CallSet /\ x.pc = "settling" /\ x.outcome = outcome /\ Same(x, calls[c])
    BY <1>2 DEF CallSet, Same, CallErrors, Answers
  <2> HIDE DEF x
  <2>5. Moves(c) /\ calls'[c] = x
    BY <1>2, <2>3, <2>4, PutMeans
  <2>6. CASE calls[c].kind = "get"
    <3>1. UNCHANGED <<sent, answered>>
      BY <1>2, <2>1, <2>6
    <3>2. Quiet(c)
      BY <2>2, <2>4, <2>5, <2>6, <3>1 DEF Quiet, CallOK, Fits, Carries, Same
    <3> QED BY <1>2, <2>2, <2>4, <2>5, <3>1, <3>2, CalmStep DEF Holding, offline
  <2>7. CASE calls[c].kind = "mutation"
    <3>1. Carries(calls[c])
      BY <2>2, <2>7 DEF Carries, Unsent
    <3>2. PICK id \in EffectIds : id = IdOf(c)
      BY <1>1, <1>2, <3>1, IdTyped DEF CallOK, Fits
    <3>3. sent[id] = 0 /\ effects[id] \in {"started", "uncertain"}
      BY <1>1, <2>2, <3>1, <3>2 DEF CallOK, Ahead, Unsent
    <3>4. /\ sent' \in [EffectIds -> Nat] /\ sent'[id] \in {0, 1}
          /\ \A k \in EffectIds \ {id} : sent'[k] = sent[k]
      BY <1>2, <2>1, <3>2, <3>3 DEF IdOf
    <3>5. /\ answered' \subseteq EffectIds /\ (outcome \in Answers => id \in answered')
          /\ \A k \in EffectIds \ {id} : k \in answered' <=> k \in answered
      BY <1>2, <2>1, <2>7, <3>2 DEF IdOf
    <3>6. EffectOK(id)'
      BY <2>2, <3>3, <3>4 DEF EffectOK
    <3>7. IdOf(c)' = id /\ Carries(calls'[c])
      BY <2>4, <2>5, <2>7, <3>2 DEF IdOf, Same, Carries
    <3>8. CallOK(c)'
      <4>1. Fits(calls'[c])
        BY <1>1, <2>4, <2>5, <2>7, <3>1 DEF CallOK, Fits, Same
      <4>2. Ahead(calls'[c], sent'[id], effects'[id], id \in answered')
        BY <2>2, <2>4, <2>5, <3>3, <3>5 DEF Ahead, Unsent
      <4> QED BY <3>7, <4>1, <4>2 DEF CallOK
    <3>9. \A d \in Calls \ {c} : Carries(calls[d]) => IdOf(d) # id
      BY <1>1, <3>1, <3>2 DEF RowsInv, OneCarrier
    <3>10. RowsInv'
      BY <1>1, <1>2, <2>2, <2>5, <3>4, <3>5, <3>6, <3>7, <3>8, <3>9, RowStep
    <3> QED BY <1>2, <2>2, <2>5, <3>4, <3>5, <3>10, EffectStep DEF Holding
  <2> QED BY <1>2, <2>6, <2>7 DEF CallSet
<1>17. CASE SettleBudget(c)
  <2>1. UNCHANGED <<offline, effects, starts>> /\ calls[c].pc = "settling"
    BY <1>17 DEF SettleBudget, At
  <2>2. (Carries(calls[c]) \/ calls[c].kind = "get")
        /\ calls[c].outcome \in CallErrors \cup {"ok", "refused", "redirect"}
    BY <1>2, <2>1 DEF Carries, CallSet
  <2>3. calls[c].kind = "mutation" =>
          /\ calls[c].outcome \in Answers \cup {"transport", "timeout"}
          /\ calls[c].outcome \in Answers => IdOf(c) \in answered
    BY <1>1, <2>1, <2>2 DEF CallOK, Ahead, Carries
  <2>4. CASE Fails(c, "durability") /\ UNCHANGED usage
    BY <1>13, <2>1, <2>2, <2>4 DEF CallErrors, Unheard
  <2>5. CASE outlet # "cleared" /\ ~(Fails(c, "durability") /\ UNCHANGED usage)
    <3>1. PICK bytes \in {0, 1} : usage' = UsageSettled(bytes)
      BY <1>17, <2>5 DEF SettleBudget, UsageRowThere
    <3>2. /\ Moves(c) /\ RowsInv' /\ ~Holding(calls'[c])
      <4>1. CASE calls' = [calls EXCEPT ![c].pc = "audited", ![c].hops = 1] /\ FollowsRedirect(c)
        <5> DEFINE x == [calls[c] EXCEPT !.pc = "audited", !.hops = 1]
        <5>1. calls' = [calls EXCEPT ![c] = x]
          BY <1>2, <4>1 DEF CallSet
        <5>2. x \in CallSet /\ x.pc = "audited" /\ x.kind = calls[c].kind
          <6>1. 1 \in 0..1
            OBVIOUS
          <6> QED BY <1>2, <6>1 DEF CallSet
        <5> HIDE DEF x
        <5>3. Moves(c) /\ calls'[c] = x /\ x.kind = "get"
          BY <1>2, <4>1, <5>1, <5>2, PutMeans DEF FollowsRedirect
        <5>4. Quiet(c)
          BY <2>1, <5>2, <5>3 DEF Quiet, offline, CallOK, Fits, Carries
        <5> QED BY <1>1, <5>2, <5>3, <5>4, QuietStep DEF Holding
      <4>2. ASSUME NEW e \in CallErrors \cup {"ok", "refused", "redirect"}, Fails(c, e),
                   e = calls[c].outcome \/ (e = "denied" /\ calls[c].outcome = "redirect")
            PROVE  Moves(c) /\ RowsInv' /\ ~Holding(calls'[c])
        <5>1. CASE calls[c].kind = "get"
          <6>1. Moves(c) /\ calls'[c].pc = "idle" /\ calls'[c].kind = "get"
            BY <1>5, <4>2, <5>1
          <6>2. Quiet(c)
            BY <2>1, <6>1 DEF Quiet, offline, CallOK, Fits, Carries, Unsent
          <6> QED BY <1>1, <6>1, <6>2, QuietStep DEF Holding
        <5>2. CASE calls[c].kind = "mutation"
          <6>1. /\ Moves(c) /\ calls'[c].pc = "finishing" /\ calls'[c].outcome = e
                /\ Same(calls'[c], calls[c])
            BY <1>5, <4>2, <5>2
          <6>2. IdOf(c)' = IdOf(c) /\ Carries(calls[c])
            BY <2>2, <5>2, <6>1 DEF IdOf, Same
          <6>3. Fits(calls'[c])
            BY <1>1, <5>2, <6>1, <6>2 DEF CallOK, Fits, Same
          <6>4. IdOf(c) \in answered \/ e \in Unheard
            BY <2>3, <4>2, <5>2 DEF Answers, Unheard
          <6>5. Ahead(calls'[c], sent[IdOf(c)], effects[IdOf(c)], IdOf(c) \in answered)
            BY <1>1, <6>1, <6>2, <6>4 DEF CallOK, Ahead, Unsent
          <6>6. Quiet(c)
            BY <2>1, <6>1, <6>2, <6>3, <6>5 DEF Quiet, offline, CallOK, Same
          <6> QED BY <1>1, <6>1, <6>6, QuietStep DEF Holding
        <5> QED BY <1>2, <5>1, <5>2 DEF CallSet
      <4>3. CASE calls[c].outcome = "redirect"
        <5>1. \/ calls' = [calls EXCEPT ![c].pc = "audited", ![c].hops = 1] /\ FollowsRedirect(c)
              \/ Fails(c, "denied")
          BY <1>17, <2>5, <4>3 DEF SettleBudget, UsageRowThere
        <5>2. "denied" \in CallErrors \cup {"ok", "refused", "redirect"}
          BY DEF CallErrors
        <5> QED BY <4>1, <4>2, <4>3, <5>1, <5>2
      <4>4. CASE calls[c].outcome # "redirect"
        <5>1. Fails(c, calls[c].outcome)
          BY <1>17, <2>5, <4>4 DEF SettleBudget, UsageRowThere
        <5> QED BY <2>2, <4>2, <5>1
      <4> QED BY <4>3, <4>4
    <3>3. /\ Cardinality(Holders') = Cardinality(Holders) - 1
          /\ Cardinality(Holders) \in Nat /\ Cardinality(Holders') \in Nat
      BY <2>1, <3>2, Holding1 DEF Holding
    <3>4. Cardinality(Holders) <= usage.reserved
      BY <1>1, <2>5, Overdrawn
    <3>5. usage' = [requests |-> usage.requests, response |-> usage.response + bytes,
                    reserved |-> usage.reserved - 1]
      BY <1>2, <3>1 DEF UsageSettled, UsageSet
    <3>6. /\ usage' \in UsageSet /\ usage'.requests = usage.requests
          /\ usage'.response + usage'.reserved <= usage.response + usage.reserved
          /\ usage'.reserved = usage.reserved - 1
      BY <1>2, <3>3, <3>4, <3>5, SMTT(30) DEF UsageSet
    <3>7. NeverOverdrawn'
      <4>1. usage.requests <= RequestCap /\ usage.response + usage.reserved <= ResponseCap
        BY <1>1, Overdrawn
      <4>2. Cardinality(Holders') <= usage'.reserved
        BY <1>2, <3>3, <3>4, <3>6 DEF UsageSet
      <4>3. usage'.requests <= RequestCap /\ usage'.response + usage'.reserved <= ResponseCap
        BY <1>2, <3>6, <4>1, Bounds DEF UsageSet
      <4> QED BY <4>2, <4>3 DEF NeverOverdrawn, Holders, Holding
    <3>8. EgTypeOK'
      BY <1>1, <2>1, <3>2, <3>6 DEF EgTypeOK, offline, Moves, CallSet, UsageSet
    <3> QED BY <3>2, <3>7, <3>8 DEF EgInv
  <2> QED BY <1>17, <2>4, <2>5 DEF SettleBudget, UsageRowThere
<1>18. CASE FinishMutation(c)
  <2>1. UNCHANGED <<offline, usage, starts>> /\ calls[c].pc = "finishing" /\ End(c)
    BY <1>18 DEF FinishMutation, At
  <2>2. Carries(calls[c])
    BY <1>1, <1>2, <2>1 DEF CallOK, Fits, Carries, CallSet
  <2>3. PICK id \in EffectIds :
          /\ id = IdOf(c)
          /\ effects' = [effects EXCEPT ![id] = SealedAs(effects[id], FinalStatus(calls[c].outcome))]
    BY <1>1, <1>2, <1>18, <2>2, IdTyped DEF CallOK, Fits, FinishMutation, IdOf
  <2>4. Moves(c) /\ calls'[c].pc = "idle" /\ calls'[c].kind = "get"
    BY <1>4, <2>1
  <2>5. /\ FinalStatus(calls[c].outcome) \in {"succeeded", "uncertain", "failed"}
        /\ calls[c].outcome \in Unheard => FinalStatus(calls[c].outcome) = "uncertain"
    BY DEF FinalStatus, Unheard
  <2>6. /\ effects' \in [EffectIds -> Stored]
        /\ effects'[id] = IF effects[id] = "started" THEN FinalStatus(calls[c].outcome)
                          ELSE effects[id]
        /\ \A k \in EffectIds \ {id} : effects'[k] = effects[k]
    BY <1>2, <2>3, <2>5 DEF Stored, SealedAs
  <2>7. UNCHANGED <<sent, answered>>
    BY <2>1 DEF offline
  <2>8. /\ effects[id] \in {"started", "uncertain"}
        /\ sent[id] = 0 \/ id \in answered \/ calls[c].outcome \in Unheard
    BY <1>1, <2>1, <2>2, <2>3 DEF CallOK, Ahead
  <2>9. EffectOK(id)'
    BY <1>1, <2>5, <2>6, <2>7, <2>8 DEF RowsInv, EffectOK
  <2>10. CallOK(c)' /\ ~Carries(calls'[c])
    BY <2>4 DEF CallOK, Fits, Carries
  <2>11. \A d \in Calls \ {c} : Carries(calls[d]) => IdOf(d) # id
    BY <1>1, <2>2, <2>3 DEF RowsInv, OneCarrier
  <2>12. RowsInv'
    BY <1>1, <1>2, <2>4, <2>6, <2>7, <2>9, <2>10, <2>11, RowStep
  <2> QED BY <1>2, <2>1, <2>4, <2>6, <2>7, <2>12, EffectStep DEF Holding, offline
<1> QED BY <1>7, <1>8, <1>9, <1>10, <1>11, <1>12, <1>14, <1>15, <1>16, <1>17, <1>18 DEF EgCall

-----------------------------------------------------------------------------
\* The operator, the handles and the end of the session do not touch a call.
LEMMA AroundSteps ==
  ASSUME EgInv, UNCHANGED <<calls, effects, sent, answered, starts>>,
         \/ Operate \/ IssueSecretHandle \/ (\E t \in 1..MaxTokens : ExpireHandle(t))
         \/ EndEgressSession \/ ClearEgressSession
  PROVE  EgInv'
<1>1. EgTypeOK /\ RowsInv /\ NeverOverdrawn
  BY DEF EgInv
<1>2. RowsInv'
  BY <1>1 DEF RowsInv, CallOK, EffectOK, OneCarrier, IdOf
<1>3. rules \in RulesSet /\ handles \in [1..MaxTokens -> 0..MaxVersion] /\ tokens \in 0..MaxTokens
  BY <1>1, Typing
<1>4. CASE \E d, s \in 0..MaxVersion : Replace(d, s)
  <2>1. PICK d \in 0..MaxVersion, s \in 0..MaxVersion : Replace(d, s)
    BY <1>4
  <2>2. rules' \in RulesSet /\ handles' \in [1..MaxTokens -> 0..MaxVersion]
    BY <1>3, <2>1, Bounds DEF Replace, RulesSet
  <2>3. UNCHANGED <<tokens, outlet, usage>>
    BY <2>1 DEF Replace
  <2> QED BY <1>1, <1>2, <2>2, <2>3 DEF EgInv, EgTypeOK, RulesSet, NeverOverdrawn
<1>5. CASE RevokeDestination \/ RevokeSecret
  <2>1. rules' \in RulesSet
    BY <1>3, <1>5 DEF RevokeDestination, RevokeSecret, RulesSet, Versions
  <2>2. UNCHANGED <<handles, tokens, outlet, usage>>
    BY <1>5 DEF RevokeDestination, RevokeSecret
  <2> QED BY <1>1, <1>2, <2>1, <2>2 DEF EgInv, EgTypeOK, RulesSet, NeverOverdrawn
<1>6. CASE IssueSecretHandle
  <2>1. tokens' \in 0..MaxTokens /\ handles' \in [1..MaxTokens -> 0..MaxVersion]
    BY <1>3, <1>6, Bounds DEF IssueSecretHandle, RulesSet, Versions
  <2>2. UNCHANGED <<rules, outlet, usage>>
    BY <1>6 DEF IssueSecretHandle
  <2> QED BY <1>1, <1>2, <2>1, <2>2 DEF EgInv, EgTypeOK, NeverOverdrawn
<1>7. CASE \E t \in 1..MaxTokens : ExpireHandle(t)
  <2>1. handles' \in [1..MaxTokens -> 0..MaxVersion]
    BY <1>3, <1>7, Bounds DEF ExpireHandle
  <2>2. UNCHANGED <<rules, tokens, outlet, usage>>
    BY <1>7 DEF ExpireHandle
  <2> QED BY <1>1, <1>2, <2>1, <2>2 DEF EgInv, EgTypeOK, NeverOverdrawn
<1>8. CASE EndEgressSession
  BY <1>1, <1>2, <1>8 DEF EndEgressSession, EgInv, EgTypeOK, NeverOverdrawn
<1>9. CASE ClearEgressSession
  <2>1. handles' \in [1..MaxTokens -> 0..MaxVersion]
    BY <1>3, <1>9, Bounds DEF ClearEgressSession
  <2>2. UNCHANGED <<rules, tokens>> /\ outlet' = "cleared"
        /\ usage' = [requests |-> 0, response |-> 0, reserved |-> 0]
    BY <1>9 DEF ClearEgressSession
  <2>3. NeverOverdrawn'
    BY <2>2, Bounds DEF NeverOverdrawn
  <2> QED BY <1>1, <1>2, <2>1, <2>2, <2>3 DEF EgInv, EgTypeOK
<1> QED BY <1>4, <1>5, <1>6, <1>7, <1>8, <1>9 DEF Operate

\* A restart forgets the calls and keeps the rows and the usage.
LEMMA CrashStep == EgInv /\ CrashEgress => EgInv'
<1> SUFFICES ASSUME EgInv, CrashEgress PROVE EgInv'
  OBVIOUS
<1>1. EgTypeOK /\ RowsInv /\ NeverOverdrawn
  BY DEF EgInv
<1>2. UNCHANGED <<tokens, outlet, effects, usage, starts, sent, answered>>
      /\ calls' = [c \in Calls |-> NoExchange]
  BY DEF CrashEgress
<1>3. \A c \in Calls : calls'[c] = NoExchange /\ ~Carries(calls'[c]) /\ Fits(calls'[c])
                       /\ ~Holding(calls'[c])
  BY <1>2, RestTyped DEF Carries, Fits, Holding
<1>4. RowsInv'
  <2>1. \A c \in Calls : CallOK(c)'
    BY <1>3 DEF CallOK
  <2>2. \A i \in EffectIds : EffectOK(i)'
    BY <1>1, <1>2 DEF RowsInv, EffectOK
  <2>3. OneCarrier'
    BY <1>3 DEF OneCarrier
  <2> QED BY <2>1, <2>2, <2>3 DEF RowsInv
<1>5. NeverOverdrawn'
  <2>1. Holders' = {}
    BY <1>3 DEF Holders
  <2>2. Cardinality(Holders') <= usage'.reserved
    BY <1>1, <1>2, <2>1, FS_EmptySet DEF EgTypeOK
  <2> QED BY <1>1, <1>2, <2>2 DEF NeverOverdrawn, Holders, Holding
<1>6. rules' \in RulesSet /\ handles' \in [1..MaxTokens -> 0..MaxVersion]
  <2>1. rules \in RulesSet /\ handles \in [1..MaxTokens -> 0..MaxVersion]
    BY <1>1, Typing
  <2>2. {} \in SUBSET Versions /\ 0 \in 0..MaxVersion
    BY Bounds
  <2>3. rules' \in RulesSet
    BY <2>1, <2>2 DEF CrashEgress, RulesSet
  <2>4. handles' \in [1..MaxTokens -> 0..MaxVersion]
    BY <2>1, <2>2 DEF CrashEgress
  <2> QED BY <2>3, <2>4
<1>7. EgTypeOK'
  BY <1>1, <1>2, <1>6, RestTyped DEF EgTypeOK, RulesSet, CallSet
<1> QED BY <1>4, <1>5, <1>7 DEF EgInv

\* Whatever calls of a turn overlap, whatever the operator replaces or revokes and
\* wherever the process dies: a mutation is transmitted at most once, what its peer
\* may have applied unheard is never filed as failed, it runs under the snapshot
\* its prompt showed, and the session stays within its limits.
THEOREM EgressIsSafe == EgSpec => []EgressSafe
<1>1. EgInit => EgInv
  <2> SUFFICES ASSUME EgInit PROVE EgInv
    OBVIOUS
  <2>1. \A c \in Calls : calls[c] = NoExchange /\ ~Carries(calls[c]) /\ Fits(calls[c])
                         /\ ~Holding(calls[c])
    BY RestTyped DEF EgInit, Carries, Fits, Holding
  <2>2. RowsInv
    BY <2>1 DEF EgInit, RowsInv, CallOK, EffectOK, OneCarrier
  <2>3. Cardinality(Holders) = 0
    <3>1. Holders = {}
      BY <2>1 DEF Holders
    <3> QED BY <3>1, FS_EmptySet
  <2>4. NeverOverdrawn
    BY <2>3, Bounds, Overdrawn DEF EgInit
  <2>5. EgTypeOK
    BY Bounds, RestTyped DEF EgInit, EgTypeOK, CallSet, Versions
  <2> QED BY <2>2, <2>4, <2>5 DEF EgInv
<1>2. EgInv /\ [EgNext]_egVars => EgInv'
  <2> SUFFICES ASSUME EgInv, [EgNext]_egVars PROVE EgInv'
    OBVIOUS
  <2>1. CASE UNCHANGED egVars
    BY <2>1 DEF egVars, EgInv, EgTypeOK, RowsInv, NeverOverdrawn, CallOK, EffectOK, OneCarrier, IdOf
  <2>2. CASE \E c \in Calls : EgCall(c)
    BY <2>2, CallSteps
  <2>3. CASE CrashEgress
    BY <2>3, CrashStep
  <2>4. CASE \/ Operate \/ IssueSecretHandle \/ (\E t \in 1..MaxTokens : ExpireHandle(t))
             \/ EndEgressSession \/ ClearEgressSession
    <3>1. UNCHANGED <<calls, effects, sent, answered, starts>>
      BY <2>4 DEF Operate, Replace, RevokeDestination, RevokeSecret, IssueSecretHandle,
                  ExpireHandle, EndEgressSession, ClearEgressSession
    <3> QED BY <2>4, <3>1, AroundSteps
  <2> QED BY <2>1, <2>2, <2>3, <2>4 DEF EgNext
<1>3. EgInv => EgressSafe
  <2> SUFFICES ASSUME EgInv PROVE EgressSafe
    OBVIOUS
  <2>1. NeverResent /\ UnheardIsUncertain
    BY DEF EgInv, RowsInv, EffectOK, NeverResent, UnheardIsUncertain
  <2>2. SentAsShown
    <3> SUFFICES ASSUME NEW c \in Calls, calls[c].kind = "mutation",
                        ~(calls[c].pc \in {"idle", "approving", "approved"})
                 PROVE  calls[c].snap = calls[c].shown
      BY DEF SentAsShown
    <3>1. calls[c] \in CallSet /\ Fits(calls[c])
      BY Typing DEF EgInv, RowsInv, CallOK
    <3> QED BY <3>1 DEF CallSet, Fits, Carries, Unsent
  <2> QED BY <2>1, <2>2 DEF EgInv, EgressSafe
<1> QED BY <1>1, <1>2, <1>3, PTL DEF EgSpec

-----------------------------------------------------------------------------
(* Reviewed changes of the persona.                                        *)

ReviewAuthors == {"nobody", "owner", "auto", "rollback"}
BoxStates == {"none", "blocked", "pending", "claimed", "applied", "failed"}
ApplierStages == {"idle", "check", "install", "close", "complete", "fail"}

Box == [status : BoxStates, tries : 0..MaxEffectTries]
Claim == [pc : ApplierStages, of : 0..MaxReviews, epoch : 0..MaxEffectTries]

\* Rows and candidates are records; keys and bases are any values.
IsRow(r) ==
  /\ r = [by |-> r.by, key |-> r.key, base |-> r.base, status |-> r.status, cooled |-> r.cooled]
  /\ r.by \in ReviewAuthors /\ r.status \in {"none", "pending"} \cup ReviewVerdicts

IsCandidate(c) ==
  /\ c = [pc |-> c.pc, key |-> c.key, base |-> c.base]
  /\ c.pc \in {"idle", "active", "look", "insert"}
  /\ c.pc # "idle" => c.key \in Preferences

ReviewTyped ==
  /\ tier \in Tiers
  /\ review = [i \in Reviews |-> review[i]] /\ \A i \in Reviews : IsRow(review[i])
  /\ verdict \in [Reviews -> {"none", "pending"} \cup ReviewVerdicts]
  /\ outbox \in [Reviews -> Box]
  /\ applier \in [Appliers -> Claim]
  /\ detector = [d \in Detectors |-> detector[d]] /\ \A d \in Detectors : IsCandidate(detector[d])
  /\ keyLock \in [Preferences -> Detectors \cup {NoDigest}]

\* The version that review i asks for.
VersionOfReview(i, r) == [digest |-> ContentDigest(r), source |-> i]

\* A row, its request v, its effect b and what the audits and versions say of it.
RowHolds(i, r, v, b, aud, vs) ==
  /\ r.by = "nobody" => v = "none"
  /\ r.by = "auto" => r.status # "none"
  /\ r.status \in ReviewVerdicts => r.status = v
  /\ v = "none" => b.status = "none"
  /\ v = "pending" => b.status = "blocked"
  /\ v # "none" => <<i, "attempt">> \in aud
  /\ v \in ReviewVerdicts => <<i, v>> \in aud
  /\ b.status = "applied" =>
       /\ v \in ReviewVerdicts
       /\ <<i, "applied">> \in aud
       /\ r.by # "rollback" => r.status = v
       /\ r.by # "rollback" /\ v = "approved" => VersionOfReview(i, r) \in vs

\* A lease holder works on a decided request; it installs only what was approved
\* under a tier that permits it, and closes it once the version is there.
ApplierHolds(a, rv, vd, vs, tr) ==
  a.pc # "idle" =>
    /\ a.of \in Reviews /\ rv[a.of].by # "nobody" /\ vd[a.of] \in ReviewVerdicts
    /\ a.pc \in {"check", "install"} => vd[a.of] = "approved"
    /\ a.pc = "install" =>
         /\ TierDecision[tr] # "denied"
         /\ rv[a.of].by = "rollback" => rv[a.of].key \in {v.digest : v \in vs} \cup {NoDigest}
    /\ a.pc \in {"close", "complete"} /\ rv[a.of].by # "rollback" /\ vd[a.of] = "approved" =>
         VersionOfReview(a.of, rv[a.of]) \in vs
    /\ a.pc = "complete" /\ rv[a.of].by # "rollback" => rv[a.of].status = vd[a.of]

OpenAuto(r, k) == r.by = "auto" /\ r.key = k /\ r.status \in {"pending", "approved"}

\* A candidate about to be inserted holds the lock of its key, and no automatic
\* proposal with that key is open.
DetectorHolds(d, c, locks, rv) ==
  c.pc = "insert" => locks[c.key] = d /\ \A i \in Reviews : ~OpenAuto(rv[i], c.key)

\* No two automatic proposals with one key are open.
OneOpenIn(rv) == \A i, j \in Reviews :
  OpenAuto(rv[i], rv[j].key) /\ OpenAuto(rv[j], rv[j].key) => i = j

IdsInOrder == \E n \in 0..MaxReviews : Used = 1..n

ReviewInv ==
  /\ ReviewTyped /\ IdsInOrder /\ OneOpenIn(review) /\ PointerIsInstalled
  /\ \A i \in Reviews : RowHolds(i, review[i], verdict[i], outbox[i], audits, versions)
  /\ \A w \in Appliers : ApplierHolds(applier[w], review, verdict, versions, tier)
  /\ \A d \in Detectors : DetectorHolds(d, detector[d], keyLock, review)

\* The active pointer moves only as reviewed.
MovesAsReviewed ==
  pointer'.active # pointer.active =>
       /\ StillReachable
       /\ \E i \in Used :
            /\ verdict[i] = "approved" /\ review[i].base = pointer.active
            /\ pointer'.active = IF review[i].by = "rollback" THEN review[i].key
                                 ELSE ContentDigest(review[i])

\* What a step may do to the rows without disturbing a lease holder.
ReviewGrows ==
  /\ \A i \in Reviews : review[i].by # "nobody" =>
       /\ review'[i].by = review[i].by /\ review'[i].key = review[i].key
       /\ review'[i].base = review[i].base
       /\ verdict[i] \in ReviewVerdicts /\ review[i].status = verdict[i] =>
            review'[i].status = review[i].status
  /\ \A i \in Reviews : verdict[i] \in ReviewVerdicts => verdict'[i] = verdict[i]
  /\ versions \subseteq versions' /\ tier' = tier

\* The values of the statuses differ.
LEMMA ReviewStatuses ==
    /\ ReviewVerdicts \subseteq {"approved", "denied", "timed_out"} /\ "approved" \in ReviewVerdicts
    /\ "none" \notin ReviewVerdicts /\ "pending" \notin ReviewVerdicts
    /\ MaxReviews \in Nat /\ MaxEffectTries \in Nat
  BY ReviewAssumption

\* The version a review asks for depends on its base and its key alone.
LEMMA SameVersion ==
    ASSUME NEW i, NEW r, NEW q, q.base = r.base, q.key = r.key
    PROVE  VersionOfReview(i, q) = VersionOfReview(i, r)
  BY DEF VersionOfReview, ContentDigest

\* What holds of a lease holder goes on holding while it waits.
LEMMA AppliersWait ==
    ASSUME ReviewInv, ReviewGrows, NEW w \in Appliers
    PROVE  ApplierHolds(applier[w], review', verdict', versions', tier')
  <1> DEFINE a == applier[w]
             i == a.of
  <1>1. ApplierHolds(a, review, verdict, versions, tier)
    BY DEF ReviewInv
  <1> SUFFICES ASSUME a.pc # "idle"
               PROVE  ApplierHolds(a, review', verdict', versions', tier')
    BY DEF ApplierHolds
  <1>2. i \in Reviews /\ review[i].by # "nobody" /\ verdict[i] \in ReviewVerdicts
    BY <1>1 DEF ApplierHolds
  <1>3. /\ review'[i].by = review[i].by /\ review'[i].key = review[i].key
        /\ review'[i].base = review[i].base /\ verdict'[i] = verdict[i]
        /\ review[i].status = verdict[i] => review'[i].status = review[i].status
        /\ versions \subseteq versions' /\ tier' = tier
    BY <1>2 DEF ReviewGrows
  <1>4. VersionOfReview(i, review'[i]) = VersionOfReview(i, review[i])
    BY <1>3, SameVersion
  <1>5. {v.digest : v \in versions} \subseteq {v.digest : v \in versions'}
    BY <1>3
  <1> HIDE DEF a, i
  <1>6. a.of = i
    BY DEF i
  <1> QED
    BY <1>1, <1>2, <1>3, <1>4, <1>5, <1>6 DEF ApplierHolds

\* A step of one lease holder leaves the others as they were.
LEMMA ApplierMoves ==
    ASSUME ReviewInv, ReviewGrows, NEW w \in Appliers, NEW a \in Claim,
           applier' = [applier EXCEPT ![w] = a],
           ApplierHolds(a, review', verdict', versions', tier')
    PROVE  /\ applier' \in [Appliers -> Claim]
           /\ \A x \in Appliers : ApplierHolds(applier'[x], review', verdict', versions', tier')
  <1>1. applier \in [Appliers -> Claim]
    BY DEF ReviewInv, ReviewTyped
  <1>2. \A x \in Appliers : applier'[x] = IF x = w THEN a ELSE applier[x]
    BY <1>1
  <1> QED
    BY <1>1, <1>2, AppliersWait

\* What holds of a row goes on holding while audits and versions are added.
LEMMA RowsWait ==
    ASSUME ReviewInv, NEW i \in Reviews, review'[i] = review[i], verdict'[i] = verdict[i],
           outbox'[i] = outbox[i], audits \subseteq audits', versions \subseteq versions'
    PROVE  RowHolds(i, review'[i], verdict'[i], outbox'[i], audits', versions')
  <1>1. RowHolds(i, review[i], verdict[i], outbox[i], audits, versions)
    BY DEF ReviewInv
  <1> QED
    BY <1>1 DEF RowHolds

\* No row opens: then no key has two open proposals, and whoever is about to
\* insert one still may.
LEMMA NothingOpens ==
    ASSUME ReviewInv,
           \A i \in Reviews : \A k : OpenAuto(review'[i], k) => OpenAuto(review[i], k)
    PROVE  /\ OneOpenIn(review')
           /\ \A d \in Detectors : DetectorHolds(d, detector[d], keyLock, review')
  <1>1. OneOpenIn(review')
    <2> SUFFICES ASSUME NEW i \in Reviews, NEW j \in Reviews,
                        OpenAuto(review'[i], review'[j].key), OpenAuto(review'[j], review'[j].key)
                 PROVE  i = j
      BY DEF OneOpenIn
    <2>1. OpenAuto(review[i], review'[j].key) /\ OpenAuto(review[j], review'[j].key)
      OBVIOUS
    <2>2. review[j].key = review'[j].key
      BY <2>1 DEF OpenAuto
    <2> QED
      BY <2>1, <2>2 DEF ReviewInv, OneOpenIn
  <1>2. ASSUME NEW d \in Detectors
        PROVE  DetectorHolds(d, detector[d], keyLock, review')
    BY DEF ReviewInv, DetectorHolds
  <1> QED
    BY <1>1, <1>2

\* Ids are given out in order, so the next one is new.
LEMMA NextIsNew ==
    ASSUME ReviewInv, NextId \in Reviews
    PROVE  /\ review[NextId].by = "nobody" /\ verdict[NextId] = "none"
           /\ outbox[NextId].status = "none"
           /\ Used \cup {NextId} = 1..NextId /\ NextId \in 0..MaxReviews
  <1>1. PICK n \in 0..MaxReviews : Used = 1..n
    BY DEF ReviewInv, IdsInOrder
  <1>2. MaxReviews \in Nat
    BY ReviewStatuses
  <1>3. Cardinality(Used) = n
    BY <1>1, <1>2, FS_Interval
  <1>4. NextId = n + 1
    BY <1>3 DEF NextId
  <1>5. NextId \notin Used /\ Used \cup {NextId} = 1..NextId
    BY <1>1, <1>2, <1>4
  <1>6. review[NextId].by = "nobody"
    BY <1>5 DEF Used
  <1>7. RowHolds(NextId, review[NextId], verdict[NextId], outbox[NextId], audits, versions)
    BY DEF ReviewInv
  <1> QED
    BY <1>2, <1>4, <1>5, <1>6, <1>7 DEF RowHolds, Reviews

\* A row is written under the next id.
LEMMA RowAdded ==
    ASSUME ReviewInv, NextId \in Reviews, NEW row, IsRow(row), row.by # "nobody",
           review' = [review EXCEPT ![NextId] = row]
    PROVE  /\ IdsInOrder'
           /\ review' = [i \in Reviews |-> review'[i]] /\ \A i \in Reviews : IsRow(review'[i])
           /\ review'[NextId] = row
           /\ \A i \in Reviews : i # NextId => review'[i] = review[i]
           /\ \A i \in Reviews : review[i].by # "nobody" => review'[i] = review[i]
  <1> DEFINE id == NextId
  <1>1. review = [i \in Reviews |-> review[i]] /\ \A i \in Reviews : IsRow(review[i])
    BY DEF ReviewInv, ReviewTyped
  <1>2. /\ review[id].by = "nobody"
        /\ Used \cup {id} = 1..id /\ id \in 0..MaxReviews
    BY NextIsNew
  <1>3. review' = [review EXCEPT ![id] = row] /\ id \in Reviews
    OBVIOUS
  <1> HIDE DEF id
  <1>4. \A i \in Reviews : review'[i] = IF i = id THEN row ELSE review[i]
    BY <1>1, <1>3
  <1>5. review' = [i \in Reviews |-> review'[i]]
    BY <1>1, <1>3
  <1>6. Used' = Used \cup {id}
    BY <1>3, <1>4 DEF Used
  <1>7. IdsInOrder'
    BY <1>2, <1>6 DEF IdsInOrder
  <1> QED
    BY <1>1, <1>2, <1>4, <1>5, <1>7 DEF id

\* A step that leaves the files alone moves no pointer.
LEMMA AddendaStay ==
    ASSUME ReviewInv, UNCHANGED addenda
    PROVE  PointerIsInstalled' /\ MovesAsReviewed
  <1>1. pointer' = pointer /\ versions' = versions
    BY DEF addenda
  <1> QED
    BY <1>1 DEF ReviewInv, PointerIsInstalled, Installed, MovesAsReviewed

\* A lease holder's next stage.
LEMMA Proceeds ==
    ASSUME ReviewInv, NEW w \in Appliers, NEW pc \in ApplierStages, Proceed(w, pc)
    PROVE  \E a \in Claim : /\ a.pc = pc /\ a.of = applier[w].of /\ a.epoch = applier[w].epoch
                            /\ applier' = [applier EXCEPT ![w] = a]
  <1> DEFINE a == [applier[w] EXCEPT !.pc = pc]
  <1>1. applier \in [Appliers -> Claim]
    BY DEF ReviewInv, ReviewTyped
  <1>2. a \in Claim /\ a.pc = pc /\ a.of = applier[w].of /\ a.epoch = applier[w].epoch
    BY <1>1 DEF Claim
  <1>3. applier' = [applier EXCEPT ![w] = a]
    BY <1>1 DEF Proceed
  <1> QED
    BY <1>2, <1>3

\* Who holds nothing is bound by nothing.
LEMMA HoldsNothing ==
    /\ Unclaimed \in Claim
    /\ \A rv, vd, vs, tr : ApplierHolds(Unclaimed, rv, vd, vs, tr)
  <1>1. Unclaimed \in Claim /\ Unclaimed.pc = "idle"
    BY ReviewStatuses DEF Unclaimed, Claim, ApplierStages
  <1> QED
    BY <1>1 DEF ApplierHolds

\* A step of a lease holder that leaves the rows alone.
LEMMA ApplierAlone ==
    ASSUME ReviewInv, NEW w \in Appliers, NEW a \in Claim,
           applier' = [applier EXCEPT ![w] = a], UNCHANGED <<frame, storeRows>>,
           versions \subseteq versions', ApplierHolds(a, review, verdict, versions', tier),
           PointerIsInstalled'
    PROVE  ReviewInv'
  <1>1. UNCHANGED <<tier, detector, keyLock, review, verdict, outbox, audits>>
    BY DEF frame, storeRows
  <1>2. ReviewGrows
    BY <1>1 DEF ReviewGrows
  <1>3. /\ applier' \in [Appliers -> Claim]
        /\ \A x \in Appliers : ApplierHolds(applier'[x], review', verdict', versions', tier')
    BY <1>1, <1>2, ApplierMoves
  <1>4. ReviewTyped'
    BY <1>1, <1>3 DEF ReviewInv, ReviewTyped
  <1>5. IdsInOrder' /\ OneOpenIn(review')
    BY <1>1 DEF ReviewInv, IdsInOrder, Used
  <1>6. \A i \in Reviews : RowHolds(i, review'[i], verdict'[i], outbox'[i], audits', versions')
    BY <1>1, RowsWait
  <1>7. \A d \in Detectors : DetectorHolds(d, detector'[d], keyLock', review')
    BY <1>1 DEF ReviewInv
  <1> QED
    BY <1>3, <1>4, <1>5, <1>6, <1>7 DEF ReviewInv

\* An effect is checked: the policy of today, the base or the target.
LEMMA CheckStep ==
    ASSUME ReviewInv, NEW w \in Appliers, Check(w)
    PROVE  ReviewInv' /\ MovesAsReviewed
  <1> DEFINE i == applier[w].of
             r == review[i]
             ok == /\ StillReachable
                   /\ \/ r.by = "rollback" /\ r.key \in Installed \cup {NoDigest}
                      \/ r.by # "rollback" /\ pointer.active \in {r.base, ContentDigest(r)}
             pc == IF ok THEN "install" ELSE "fail"
  <1>1. /\ applier[w].pc = "check" /\ Proceed(w, pc) /\ UNCHANGED <<frame, addenda, storeRows>>
    BY DEF Check, ApplierAt
  <1>2. pc \in ApplierStages /\ pc \in {"install", "fail"}
    BY DEF ApplierStages
  <1>3. ApplierHolds(applier[w], review, verdict, versions, tier)
    BY DEF ReviewInv
  <1>4. /\ i \in Reviews /\ review[i].by # "nobody" /\ verdict[i] \in ReviewVerdicts
        /\ verdict[i] = "approved"
    BY <1>1, <1>3 DEF ApplierHolds
  <1>5. pc = "install" =>
          /\ TierDecision[tier] # "denied"
          /\ review[i].by = "rollback" => review[i].key \in {v.digest : v \in versions} \cup {NoDigest}
    BY DEF StillReachable, Installed
  <1> HIDE DEF pc
  <1>6. PICK a \in Claim : /\ a.pc = pc /\ a.of = i /\ applier' = [applier EXCEPT ![w] = a]
    BY <1>1, <1>2, Proceeds
  <1> HIDE DEF i
  <1>7. ApplierHolds(a, review, verdict, versions, tier)
    BY <1>2, <1>4, <1>5, <1>6 DEF ApplierHolds
  <1>8. versions' = versions
    BY <1>1 DEF addenda
  <1>9. PointerIsInstalled' /\ MovesAsReviewed
    BY <1>1, AddendaStay
  <1> QED
    BY <1>1, <1>6, <1>7, <1>8, <1>9, ApplierAlone

\* A reviewed change is installed over the base that was reviewed.
LEMMA InstallStep ==
    ASSUME ReviewInv, NEW w \in Appliers, InstallVersion(w)
    PROVE  ReviewInv' /\ MovesAsReviewed
  <1> DEFINE i == applier[w].of
             v == [digest |-> ContentDigest(review[i]), source |-> i]
  <1>1. /\ applier[w].pc = "install" /\ review[i].by # "rollback"
        /\ UNCHANGED <<frame, storeRows>>
    BY DEF InstallVersion, ApplierAt
  <1>2. \/ /\ pointer.active # v.digest /\ PointsAt(review[i].base)
           /\ Publish(v)
           /\ \/ /\ SetPointer(v.digest, NoDigest)
                 /\ Proceed(w, "close")
              \/ Leave(w) /\ UNCHANGED pointer
        \/ /\ pointer.active = v.digest /\ v \in versions
           /\ Proceed(w, "close")
           /\ UNCHANGED addenda
        \/ Proceed(w, "fail") /\ UNCHANGED addenda
    BY DEF InstallVersion
  <1>3. ApplierHolds(applier[w], review, verdict, versions, tier)
    BY DEF ReviewInv
  <1>4. /\ i \in Reviews /\ review[i].by # "nobody" /\ verdict[i] \in ReviewVerdicts
        /\ verdict[i] = "approved" /\ StillReachable
    BY <1>1, <1>3 DEF ApplierHolds, StillReachable
  <1>5. v = VersionOfReview(i, review[i]) /\ v.digest = ContentDigest(review[i])
    BY DEF VersionOfReview
  <1>6. i \in Used
    BY <1>4 DEF Used
  <1> HIDE DEF v, i
  <1>7. ASSUME NEW pc \in {"close", "fail"}, Proceed(w, pc), pc = "close" => v \in versions',
               versions \subseteq versions', PointerIsInstalled'
        PROVE  ReviewInv'
    <2>1. PICK a \in Claim : a.pc = pc /\ a.of = i /\ applier' = [applier EXCEPT ![w] = a]
      BY <1>7, Proceeds DEF i, ApplierStages
    <2>2. ApplierHolds(a, review, verdict, versions', tier)
      BY <1>4, <1>5, <1>7, <2>1 DEF ApplierHolds
    <2> QED
      BY <1>1, <1>7, <2>1, <2>2, ApplierAlone
  <1>8. CASE /\ pointer.active # v.digest /\ PointsAt(review[i].base)
             /\ Publish(v)
             /\ \/ /\ SetPointer(v.digest, NoDigest)
                   /\ Proceed(w, "close")
                \/ Leave(w) /\ UNCHANGED pointer
    <2>1. /\ versions' = versions \cup {v}
          /\ \A old \in versions : old.digest = v.digest => old = v
      BY <1>8 DEF Publish
    <2>2. \A x, y \in versions' : x.digest = y.digest => x = y
      BY <2>1 DEF ReviewInv, PointerIsInstalled
    <2>3. Installed' = Installed \cup {v.digest}
      BY <2>1 DEF Installed
    <2>4. CASE SetPointer(v.digest, NoDigest) /\ Proceed(w, "close")
      <3>1. pointer'.active = v.digest
        BY <2>4 DEF SetPointer
      <3>2. PointerIsInstalled'
        BY <2>2, <2>3, <3>1 DEF PointerIsInstalled
      <3>3. MovesAsReviewed
        BY <1>1, <1>4, <1>5, <1>6, <1>8, <3>1 DEF MovesAsReviewed, PointsAt
      <3>4. ReviewInv'
        BY <1>7, <2>1, <2>4, <3>2
      <3> QED
        BY <3>3, <3>4
    <2>5. CASE Leave(w) /\ UNCHANGED pointer
      <3>1. PointerIsInstalled'
        BY <2>2, <2>3, <2>5 DEF PointerIsInstalled, ReviewInv
      <3>2. ReviewInv'
        BY <1>1, <2>1, <2>5, <3>1, HoldsNothing, ApplierAlone DEF Leave
      <3> QED
        BY <2>5, <3>2 DEF MovesAsReviewed
    <2> QED
      BY <1>8, <2>4, <2>5
  <1>9. CASE \/ /\ pointer.active = v.digest /\ v \in versions
                /\ Proceed(w, "close")
                /\ UNCHANGED addenda
             \/ Proceed(w, "fail") /\ UNCHANGED addenda
    <2>1. versions' = versions
      BY <1>9 DEF addenda
    <2>2. PointerIsInstalled' /\ MovesAsReviewed
      BY <1>9, AddendaStay
    <2> QED
      BY <1>7, <1>9, <2>1, <2>2
  <1> QED
    BY <1>2, <1>8, <1>9

\* A rollback moves the pointer from the base it was asked for.
LEMMA RollBackStep ==
    ASSUME ReviewInv, NEW w \in Appliers, RollBack(w)
    PROVE  ReviewInv' /\ MovesAsReviewed
  <1> DEFINE i == applier[w].of
  <1>1. /\ applier[w].pc = "install" /\ review[i].by = "rollback"
        /\ UNCHANGED <<frame, storeRows>> /\ versions' = versions
    BY DEF RollBack, ApplierAt
  <1>2. \/ /\ Proceed(w, "close") \/ Proceed(w, "fail")
           /\ pointer' = pointer
        \/ PointsAt(review[i].base) /\ SetPointer(review[i].key, review[i].base) /\ Proceed(w, "close")
    BY DEF RollBack
  <1>3. ApplierHolds(applier[w], review, verdict, versions, tier)
    BY DEF ReviewInv
  <1>4. /\ i \in Reviews /\ review[i].by # "nobody" /\ verdict[i] \in ReviewVerdicts
        /\ verdict[i] = "approved" /\ StillReachable
        /\ review[i].key \in {v.digest : v \in versions} \cup {NoDigest}
    BY <1>1, <1>3 DEF ApplierHolds, StillReachable
  <1>5. i \in Used
    BY <1>4 DEF Used
  <1> HIDE DEF i
  <1>6. PICK a \in Claim : /\ a.pc \in {"close", "fail"} /\ a.of = i
                           /\ applier' = [applier EXCEPT ![w] = a]
    BY <1>2, Proceeds DEF i, ApplierStages
  <1>7. ApplierHolds(a, review, verdict, versions', tier)
    BY <1>1, <1>4, <1>6 DEF ApplierHolds
  <1>8. PointerIsInstalled' /\ MovesAsReviewed
    <2>1. CASE pointer' = pointer
      BY <1>1, <2>1, AddendaStay DEF addenda
    <2>2. CASE PointsAt(review[i].base) /\ SetPointer(review[i].key, review[i].base)
      <3>1. pointer'.active = review[i].key /\ pointer.active = review[i].base
        BY <2>2 DEF SetPointer, PointsAt
      <3>2. Installed' = Installed /\ review[i].key \in Installed \cup {NoDigest}
        BY <1>1, <1>4 DEF Installed
      <3>3. PointerIsInstalled'
        BY <1>1, <3>1, <3>2 DEF PointerIsInstalled, ReviewInv
      <3> QED
        BY <1>1, <1>4, <1>5, <3>1, <3>3 DEF MovesAsReviewed
    <2> QED
      BY <1>2, <2>1, <2>2
  <1> QED
    BY <1>1, <1>6, <1>7, <1>8, ApplierAlone

\* A step that writes one row, its request or its effect.
LEMMA RowMoves ==
    ASSUME ReviewInv, NEW i \in Reviews,
           \A j \in Reviews : j # i => /\ review'[j] = review[j] /\ verdict'[j] = verdict[j]
                                       /\ outbox'[j] = outbox[j],
           audits \subseteq audits', versions \subseteq versions',
           RowHolds(i, review'[i], verdict'[i], outbox'[i], audits', versions')
    PROVE  \A j \in Reviews : RowHolds(j, review'[j], verdict'[j], outbox'[j], audits', versions')
  <1> SUFFICES ASSUME NEW j \in Reviews
               PROVE  RowHolds(j, review'[j], verdict'[j], outbox'[j], audits', versions')
    OBVIOUS
  <1>1. CASE j = i
    BY <1>1
  <1>2. CASE j # i
    BY <1>2, RowsWait
  <1> QED
    BY <1>1, <1>2

\* A step of a lease holder that writes the effect it works on.
LEMMA EffectMoves ==
    ASSUME ReviewInv, NEW w \in Appliers, NEW a \in Claim, NEW i \in Reviews, NEW b \in Box,
           applier' = [applier EXCEPT ![w] = a], outbox' = [outbox EXCEPT ![i] = b],
           UNCHANGED <<frame, addenda, review, verdict>>, audits \subseteq audits',
           ApplierHolds(a, review, verdict, versions, tier),
           RowHolds(i, review[i], verdict[i], b, audits', versions)
    PROVE  ReviewInv' /\ MovesAsReviewed
  <1>1. UNCHANGED <<tier, detector, keyLock, review, verdict, pointer, versions>>
    BY DEF frame, addenda
  <1>2. outbox \in [Reviews -> Box]
    BY DEF ReviewInv, ReviewTyped
  <1>3. outbox' \in [Reviews -> Box] /\ \A j \in Reviews : outbox'[j] = IF j = i THEN b ELSE outbox[j]
    BY <1>2
  <1>4. ReviewGrows
    BY <1>1 DEF ReviewGrows
  <1>5. /\ applier' \in [Appliers -> Claim]
        /\ \A x \in Appliers : ApplierHolds(applier'[x], review', verdict', versions', tier')
    BY <1>1, <1>4, ApplierMoves
  <1>6. ReviewTyped'
    BY <1>1, <1>3, <1>5 DEF ReviewInv, ReviewTyped
  <1>7. IdsInOrder' /\ OneOpenIn(review')
    BY <1>1 DEF ReviewInv, IdsInOrder, Used
  <1>8. \A j \in Reviews : RowHolds(j, review'[j], verdict'[j], outbox'[j], audits', versions')
    BY <1>1, <1>3, RowMoves
  <1>9. \A d \in Detectors : DetectorHolds(d, detector'[d], keyLock', review')
    BY <1>1 DEF ReviewInv
  <1>10. PointerIsInstalled' /\ MovesAsReviewed
    BY AddendaStay
  <1> QED
    BY <1>5, <1>6, <1>7, <1>8, <1>9, <1>10 DEF ReviewInv

\* An effect is claimed, by the first or by another lease holder.
LEMMA ClaimReviewStep ==
    ASSUME ReviewInv, NEW w \in Appliers, NEW i \in Used, ClaimReview(w, i)
    PROVE  ReviewInv' /\ MovesAsReviewed
  <1> DEFINE pc == IF verdict[i] # "approved" THEN "close" ELSE "check"
             a == [pc |-> pc, of |-> i, epoch |-> outbox[i].tries + 1]
             b == [status |-> "claimed", tries |-> outbox[i].tries + 1]
  <1>1. i \in Reviews /\ review[i].by # "nobody"
    BY DEF Used
  <1>2. outbox[i] \in Box /\ verdict[i] \in {"none", "pending"} \cup ReviewVerdicts
    BY <1>1 DEF ReviewInv, ReviewTyped
  <1>3. /\ outbox[i].status \in {"pending", "claimed"} /\ outbox[i].tries < MaxEffectTries
        /\ applier' = [applier EXCEPT ![w] = a]
        /\ UNCHANGED <<frame, addenda, review, verdict, audits>>
    BY DEF ClaimReview
  <1>4. outbox' = [outbox EXCEPT ![i] = b]
    BY <1>1 DEF ClaimReview, ReviewInv, ReviewTyped
  <1>5. outbox[i].tries + 1 \in 0..MaxEffectTries /\ i \in 0..MaxReviews
    BY <1>1, <1>2, <1>3, ReviewStatuses DEF Box, Reviews
  <1>6. b \in Box /\ b.status = "claimed"
    BY <1>5 DEF Box, BoxStates
  <1>7. pc \in ApplierStages /\ pc \in {"close", "check"} /\ (pc = "check" <=> verdict[i] = "approved")
    BY DEF ApplierStages
  <1> HIDE DEF pc
  <1>8. a \in Claim /\ a.pc = pc /\ a.of = i
    BY <1>5, <1>7 DEF Claim
  <1>9. RowHolds(i, review[i], verdict[i], outbox[i], audits, versions)
    BY <1>1 DEF ReviewInv
  <1>10. verdict[i] \in ReviewVerdicts
    BY <1>2, <1>3, <1>9 DEF RowHolds
  <1> HIDE DEF a, b
  <1>11. RowHolds(i, review[i], verdict[i], b, audits', versions)
    BY <1>3, <1>6, <1>9, <1>10, ReviewStatuses DEF RowHolds
  <1>12. ApplierHolds(a, review, verdict, versions, tier)
    BY <1>1, <1>7, <1>8, <1>10 DEF ApplierHolds
  <1> QED
    BY <1>1, <1>3, <1>4, <1>6, <1>8, <1>11, <1>12, EffectMoves

\* An effect ends, if the lease still holds.
LEMMA EndStep ==
    ASSUME ReviewInv, NEW w \in Appliers, CompleteReview(w) \/ FailReview(w)
    PROVE  ReviewInv' /\ MovesAsReviewed
  <1> DEFINE i == applier[w].of
  <1>1. applier[w].pc \in {"complete", "fail"} /\ Leave(w) /\ UNCHANGED <<frame, addenda, review, verdict>>
    BY DEF CompleteReview, FailReview, ApplierAt
  <1>2. ApplierHolds(applier[w], review, verdict, versions, tier)
    BY DEF ReviewInv
  <1>3. i \in Reviews /\ verdict[i] \in ReviewVerdicts
    BY <1>1, <1>2 DEF ApplierHolds
  <1>4. outbox \in [Reviews -> Box] /\ outbox[i] \in Box
    BY <1>3 DEF ReviewInv, ReviewTyped
  <1>5. RowHolds(i, review[i], verdict[i], outbox[i], audits, versions)
    BY <1>3 DEF ReviewInv
  <1>6. applier' = [applier EXCEPT ![w] = Unclaimed]
    BY <1>1 DEF Leave
  <1>7. CASE UNCHANGED <<outbox, audits>>
    <2>1. outbox' = [outbox EXCEPT ![i] = outbox[i]]
      BY <1>3, <1>4, <1>7
    <2> QED
      BY <1>1, <1>3, <1>4, <1>5, <1>6, <1>7, <2>1, HoldsNothing, EffectMoves
  <1>8. CASE CompleteReview(w) /\ HoldsReview(w)
    <2> DEFINE b == [outbox[i] EXCEPT !.status = "applied"]
    <2>1. /\ outbox' = [outbox EXCEPT ![i] = b]
          /\ audits' = audits \cup {<<i, "applied">>} /\ applier[w].pc = "complete"
      BY <1>3, <1>4, <1>8 DEF CompleteReview, Audit, ApplierAt
    <2>2. b \in Box /\ b.status = "applied"
      BY <1>4 DEF Box, BoxStates
    <2> HIDE DEF b
    <2>3. /\ review[i].by # "rollback" => review[i].status = verdict[i]
          /\ review[i].by # "rollback" /\ verdict[i] = "approved" =>
               VersionOfReview(i, review[i]) \in versions
      BY <1>2, <2>1 DEF ApplierHolds
    <2>4. <<i, "applied">> \in audits'
      BY <2>1
    <2>5. RowHolds(i, review[i], verdict[i], b, audits', versions)
      BY <1>3, <1>5, <2>1, <2>2, <2>3, <2>4, ReviewStatuses DEF RowHolds
    <2>6. audits \subseteq audits'
      BY <2>1
    <2> QED
      BY <1>1, <1>3, <1>6, <2>1, <2>2, <2>5, <2>6, HoldsNothing, EffectMoves
  <1>9. CASE FailReview(w) /\ HoldsReview(w)
    <2> DEFINE st == IF outbox[i].tries < MaxEffectTries THEN "pending" ELSE "failed"
               b == [outbox[i] EXCEPT !.status = st]
    <2>1. /\ outbox' = [outbox EXCEPT ![i] = b]
          /\ audits' = audits \cup {<<i, "failure", outbox[i].tries>>}
      BY <1>3, <1>4, <1>9 DEF FailReview, Audit
    <2>2. st \in {"pending", "failed"}
      OBVIOUS
    <2> HIDE DEF st
    <2>3. b \in Box /\ b.status = st
      BY <1>4, <2>2 DEF Box, BoxStates
    <2> HIDE DEF b
    <2>4. audits \subseteq audits'
      BY <2>1
    <2>5. RowHolds(i, review[i], verdict[i], b, audits', versions)
      BY <1>3, <1>5, <2>2, <2>3, <2>4, ReviewStatuses DEF RowHolds
    <2> QED
      BY <1>1, <1>3, <1>6, <2>1, <2>3, <2>4, <2>5, HoldsNothing, EffectMoves
  <1> QED
    BY <1>7, <1>8, <1>9 DEF CompleteReview, FailReview

\* Rows are written field by field.
WithStatus(r, st) == [r EXCEPT !.status = st, !.cooled = FALSE]
WithCooled(r) == [r EXCEPT !.cooled = TRUE]

\* A row with another status is a row.
LEMMA StatusWritten ==
    ASSUME NEW r, IsRow(r), NEW st \in {"none", "pending"} \cup ReviewVerdicts
    PROVE  /\ IsRow(WithStatus(r, st)) /\ WithStatus(r, st).status = st
           /\ WithStatus(r, st).by = r.by /\ WithStatus(r, st).key = r.key
           /\ WithStatus(r, st).base = r.base
  <1>1. r = [by |-> r.by, key |-> r.key, base |-> r.base, status |-> r.status, cooled |-> r.cooled]
    BY DEF IsRow
  <1> DEFINE o == [r EXCEPT !.status = st]
             q == WithStatus(r, st)
  <1>2. o = [by |-> r.by, key |-> r.key, base |-> r.base, status |-> st, cooled |-> r.cooled]
    BY <1>1
  <1>3. q = [o EXCEPT !.cooled = FALSE]
    BY DEF WithStatus
  <1> HIDE DEF o, q
  <1>4. q = [by |-> r.by, key |-> r.key, base |-> r.base, status |-> st, cooled |-> FALSE]
    BY <1>2, <1>3
  <1>5. IsRow(q) /\ q.by = r.by /\ q.key = r.key /\ q.base = r.base /\ q.status = st
    BY <1>4 DEF IsRow
  <1> QED
    BY <1>5 DEF q

\* A row that cooled down is the row it was.
LEMMA CooledWritten ==
    ASSUME NEW r, IsRow(r)
    PROVE  /\ IsRow(WithCooled(r)) /\ WithCooled(r).status = r.status
           /\ WithCooled(r).by = r.by /\ WithCooled(r).key = r.key
           /\ WithCooled(r).base = r.base
  <1>1. r = [by |-> r.by, key |-> r.key, base |-> r.base, status |-> r.status, cooled |-> r.cooled]
    BY DEF IsRow
  <1> DEFINE q == WithCooled(r)
             o == [by |-> r.by, key |-> r.key, base |-> r.base, status |-> r.status, cooled |-> r.cooled]
  <1>0. q = [o EXCEPT !.cooled = TRUE]
    BY <1>1, Zenon DEF WithCooled
  <1>2. q = [by |-> r.by, key |-> r.key, base |-> r.base, status |-> r.status, cooled |-> TRUE]
    <2> HIDE DEF q
    <2> QED
      BY <1>0
  <1> HIDE DEF q
  <1>3. IsRow(q) /\ q.by = r.by /\ q.key = r.key /\ q.base = r.base /\ q.status = r.status
    BY <1>2 DEF IsRow
  <1> QED
    BY <1>3 DEF q

\* The row of a decided request takes the verdict: nothing opens by that.
LEMMA CloseStep ==
    ASSUME ReviewInv, NEW w \in Appliers, CloseReview(w)
    PROVE  ReviewInv' /\ MovesAsReviewed
  <1> DEFINE i == applier[w].of
             q == WithStatus(review[i], verdict[i])
  <1>1. /\ applier[w].pc = "close" /\ Proceed(w, "complete")
        /\ UNCHANGED <<frame, addenda, verdict, outbox, audits>>
        /\ IF review[i].by = "rollback" THEN review' = review ELSE review' = [review EXCEPT ![i] = q]
    BY DEF CloseReview, ApplierAt, WithStatus
  <1>2. ApplierHolds(applier[w], review, verdict, versions, tier)
    BY DEF ReviewInv
  <1>3. /\ i \in Reviews /\ review[i].by # "nobody" /\ verdict[i] \in ReviewVerdicts
        /\ review[i].by # "rollback" /\ verdict[i] = "approved" =>
             VersionOfReview(i, review[i]) \in versions
    BY <1>1, <1>2 DEF ApplierHolds
  <1>4. review = [j \in Reviews |-> review[j]] /\ \A j \in Reviews : IsRow(review[j])
    BY DEF ReviewInv, ReviewTyped
  <1>5. IsRow(q) /\ q.by = review[i].by /\ q.key = review[i].key /\ q.base = review[i].base
          /\ q.status = verdict[i]
    <2>1. IsRow(review[i]) /\ verdict[i] \in {"none", "pending"} \cup ReviewVerdicts
      BY <1>3, <1>4
    <2> QED
      BY <2>1, StatusWritten
  <1>6. PICK a \in Claim : a.pc = "complete" /\ a.of = i /\ applier' = [applier EXCEPT ![w] = a]
    BY <1>1, Proceeds DEF ApplierStages
  <1> HIDE DEF i, q
  <1>7. /\ review' = [j \in Reviews |-> review'[j]]
        /\ \A j \in Reviews : j # i => review'[j] = review[j]
        /\ review'[i] = IF review[i].by = "rollback" THEN review[i] ELSE q
    BY <1>1, <1>3, <1>4
  <1>8. /\ \A j \in Reviews : IsRow(review'[j])
        /\ \A j \in Reviews : review'[j].by = review[j].by /\ review'[j].key = review[j].key
                              /\ review'[j].base = review[j].base
    BY <1>4, <1>5, <1>7
  <1>9. UNCHANGED <<tier, detector, keyLock, verdict, outbox, audits, pointer, versions>>
    BY <1>1 DEF frame, addenda
  <1>10. ReviewGrows
    <2>1. ASSUME NEW j \in Reviews, verdict[j] \in ReviewVerdicts, review[j].status = verdict[j]
          PROVE  review'[j].status = review[j].status
      BY <1>5, <1>7, <2>1
    <2> QED
      BY <1>8, <1>9, <2>1 DEF ReviewGrows
  <1>11. review'[i].by # "rollback" => review'[i].status = verdict[i]
    BY <1>5, <1>7, <1>8
  <1>12. VersionOfReview(i, review'[i]) = VersionOfReview(i, review[i])
    BY <1>3, <1>8, SameVersion
  <1>13. ApplierHolds(a, review', verdict', versions', tier')
    BY <1>3, <1>6, <1>8, <1>9, <1>11, <1>12 DEF ApplierHolds
  <1>14. /\ applier' \in [Appliers -> Claim]
         /\ \A x \in Appliers : ApplierHolds(applier'[x], review', verdict', versions', tier')
    BY <1>6, <1>10, <1>13, ApplierMoves
  <1>15. RowHolds(i, review[i], verdict[i], outbox[i], audits, versions)
    BY <1>3 DEF ReviewInv
  <1>16. RowHolds(i, review'[i], verdict'[i], outbox'[i], audits', versions')
    <2>1. CASE review[i].by = "rollback"
      BY <1>7, <1>9, <1>15, <2>1
    <2>2. CASE review[i].by # "rollback"
      BY <1>3, <1>5, <1>7, <1>9, <1>12, <1>15, <2>2, ReviewStatuses DEF RowHolds
    <2> QED
      BY <2>1, <2>2
  <1>17. \A j \in Reviews : RowHolds(j, review'[j], verdict'[j], outbox'[j], audits', versions')
    BY <1>3, <1>7, <1>9, <1>16, RowMoves
  <1>18. \A j \in Reviews : \A k : OpenAuto(review'[j], k) => OpenAuto(review[j], k)
    <2> SUFFICES ASSUME NEW k, OpenAuto(review'[i], k) PROVE OpenAuto(review[i], k)
      BY <1>7
    <2>1. review[i].by = "auto" /\ review[i].key = k
      BY <1>3, <1>8 DEF OpenAuto
    <2>2. verdict[i] \in {"pending", "approved"} /\ verdict[i] = "approved"
      BY <1>3, <1>11, <2>1, <1>8, ReviewStatuses DEF OpenAuto
    <2>3. review[i].status = "pending" \/ review[i].status = verdict[i]
      BY <1>3, <1>4, <1>15, <2>1 DEF RowHolds, IsRow
    <2> QED
      BY <2>1, <2>2, <2>3 DEF OpenAuto
  <1>19. /\ OneOpenIn(review')
         /\ \A d \in Detectors : DetectorHolds(d, detector'[d], keyLock', review')
    BY <1>9, <1>18, NothingOpens
  <1>20. ReviewTyped'
    BY <1>7, <1>8, <1>9, <1>14 DEF ReviewInv, ReviewTyped
  <1>21. IdsInOrder'
    <2>1. Used' = Used
      BY <1>8 DEF Used
    <2> QED
      BY <2>1 DEF ReviewInv, IdsInOrder
  <1>22. PointerIsInstalled' /\ MovesAsReviewed
    BY <1>1, AddendaStay
  <1> QED
    BY <1>14, <1>17, <1>19, <1>20, <1>21, <1>22 DEF ReviewInv

\* A row cools down.
LEMMA CoolStep ==
    ASSUME ReviewInv, NEW i \in Reviews, CoolDown(i)
    PROVE  ReviewInv' /\ MovesAsReviewed
  <1> DEFINE q == WithCooled(review[i])
  <1>1. review = [j \in Reviews |-> review[j]] /\ \A j \in Reviews : IsRow(review[j])
    BY DEF ReviewInv, ReviewTyped
  <1>2. /\ review' = [review EXCEPT ![i] = q]
        /\ UNCHANGED <<tier, verdict, outbox, audits, addenda, detector, applier, keyLock>>
    BY <1>1 DEF CoolDown, WithCooled
  <1>3. IsRow(q) /\ q.by = review[i].by /\ q.key = review[i].key /\ q.base = review[i].base
          /\ q.status = review[i].status
    BY <1>1, CooledWritten
  <1> HIDE DEF q
  <1>4. /\ review' = [j \in Reviews |-> review'[j]]
        /\ \A j \in Reviews : j # i => review'[j] = review[j]
        /\ review'[i] = q
    BY <1>1, <1>2
  <1>5. /\ \A j \in Reviews : IsRow(review'[j])
        /\ \A j \in Reviews :
             /\ review'[j].by = review[j].by /\ review'[j].key = review[j].key
             /\ review'[j].base = review[j].base /\ review'[j].status = review[j].status
    BY <1>1, <1>3, <1>4
  <1>6. versions' = versions
    BY <1>2 DEF addenda
  <1>7. ReviewGrows
    BY <1>2, <1>5, <1>6 DEF ReviewGrows
  <1>8. \A x \in Appliers : ApplierHolds(applier'[x], review', verdict', versions', tier')
    BY <1>2, <1>7, AppliersWait
  <1>9. VersionOfReview(i, review'[i]) = VersionOfReview(i, review[i])
    BY <1>5, SameVersion
  <1>10. RowHolds(i, review'[i], verdict'[i], outbox'[i], audits', versions')
    <2>1. RowHolds(i, review[i], verdict[i], outbox[i], audits, versions)
      BY DEF ReviewInv
    <2> QED
      BY <1>2, <1>5, <1>6, <1>9, <2>1 DEF RowHolds
  <1>11. \A j \in Reviews : RowHolds(j, review'[j], verdict'[j], outbox'[j], audits', versions')
    BY <1>2, <1>4, <1>6, <1>10, RowMoves
  <1>12. \A j \in Reviews : \A k : OpenAuto(review'[j], k) => OpenAuto(review[j], k)
    BY <1>5 DEF OpenAuto
  <1>13. /\ OneOpenIn(review')
         /\ \A d \in Detectors : DetectorHolds(d, detector'[d], keyLock', review')
    BY <1>2, <1>12, NothingOpens
  <1>14. ReviewTyped'
    BY <1>2, <1>4, <1>5 DEF ReviewInv, ReviewTyped
  <1>15. IdsInOrder'
    <2>1. Used' = Used
      BY <1>5 DEF Used
    <2> QED
      BY <2>1 DEF ReviewInv, IdsInOrder
  <1>16. PointerIsInstalled' /\ MovesAsReviewed
    BY <1>2, AddendaStay
  <1> QED
    BY <1>8, <1>11, <1>13, <1>14, <1>15, <1>16 DEF ReviewInv

\* The owner or the clock decides a request, once.
LEMMA DecideReviewStep ==
    ASSUME ReviewInv, NEW i \in Reviews, NEW st \in ReviewVerdicts, DecideReview(i, st)
    PROVE  ReviewInv' /\ MovesAsReviewed
  <1> DEFINE b == [outbox[i] EXCEPT !.status = "pending"]
  <1>1. /\ outbox \in [Reviews -> Box] /\ outbox[i] \in Box
        /\ verdict \in [Reviews -> {"none", "pending"} \cup ReviewVerdicts]
    BY DEF ReviewInv, ReviewTyped
  <1>2. /\ verdict[i] = "pending" /\ verdict' = [verdict EXCEPT ![i] = st]
        /\ outbox' = [outbox EXCEPT ![i] = b] /\ audits' = audits \cup {<<i, st>>}
        /\ UNCHANGED <<tier, review, addenda, detector, applier, keyLock>>
    BY <1>1 DEF DecideReview, Audit
  <1>3. b \in Box /\ b.status = "pending"
    BY <1>1 DEF Box, BoxStates
  <1> HIDE DEF b
  <1>4. /\ outbox' \in [Reviews -> Box] /\ outbox'[i] = b
        /\ \A j \in Reviews : j # i => outbox'[j] = outbox[j]
        /\ verdict' \in [Reviews -> {"none", "pending"} \cup ReviewVerdicts] /\ verdict'[i] = st
        /\ \A j \in Reviews : j # i => verdict'[j] = verdict[j]
    BY <1>1, <1>2, <1>3
  <1>5. versions' = versions
    BY <1>2 DEF addenda
  <1>6. ReviewGrows
    BY <1>2, <1>4, <1>5, ReviewStatuses DEF ReviewGrows
  <1>7. \A x \in Appliers : ApplierHolds(applier'[x], review', verdict', versions', tier')
    BY <1>2, <1>6, AppliersWait
  <1>8. RowHolds(i, review'[i], verdict'[i], outbox'[i], audits', versions')
    <2>1. RowHolds(i, review[i], verdict[i], outbox[i], audits, versions)
      BY DEF ReviewInv
    <2>2. audits \subseteq audits' /\ <<i, st>> \in audits'
      BY <1>2
    <2> QED
      BY <1>2, <1>3, <1>4, <2>1, <2>2, ReviewStatuses DEF RowHolds
  <1>9. \A j \in Reviews : RowHolds(j, review'[j], verdict'[j], outbox'[j], audits', versions')
    <2>1. audits \subseteq audits'
      BY <1>2
    <2> QED
      BY <1>2, <1>4, <1>5, <1>8, <2>1, RowMoves
  <1>10. ReviewTyped' /\ IdsInOrder' /\ OneOpenIn(review')
    BY <1>2, <1>4 DEF ReviewInv, ReviewTyped, IdsInOrder, Used
  <1>11. \A d \in Detectors : DetectorHolds(d, detector'[d], keyLock', review')
    BY <1>2 DEF ReviewInv
  <1>12. PointerIsInstalled' /\ MovesAsReviewed
    BY <1>2, AddendaStay
  <1> QED
    BY <1>7, <1>9, <1>10, <1>11, <1>12 DEF ReviewInv

\* The row a proposal begins with.
LEMMA FreshProposal ==
    ASSUME NEW by \in ReviewAuthors, NEW key, NEW base
    PROVE  LET r == ReviewRow(by, key, base)
           IN IsRow(r) /\ r.by = by /\ r.key = key /\ r.base = base /\ r.status = "pending"
  BY DEF ReviewRow, IsRow

\* A proposal is given a request, a blocked effect and an audit.
LEMMA AskMoves ==
    ASSUME ReviewInv, NEW i \in Reviews, NEW row, row.by # "nobody", row.status = "pending",
           verdict[i] = "none", Ask(i, row), versions' = versions,
           review'[i] = row, \A j \in Reviews : j # i => review'[j] = review[j]
    PROVE  /\ verdict' \in [Reviews -> {"none", "pending"} \cup ReviewVerdicts]
           /\ outbox' \in [Reviews -> Box]
           /\ \A j \in Reviews : verdict[j] \in ReviewVerdicts => verdict'[j] = verdict[j]
           /\ \A j \in Reviews : RowHolds(j, review'[j], verdict'[j], outbox'[j], audits', versions')
  <1> DEFINE b == [outbox[i] EXCEPT !.status = "blocked"]
  <1>1. /\ outbox \in [Reviews -> Box] /\ outbox[i] \in Box
        /\ verdict \in [Reviews -> {"none", "pending"} \cup ReviewVerdicts]
    BY DEF ReviewInv, ReviewTyped
  <1>2. /\ verdict' = [verdict EXCEPT ![i] = "pending"] /\ outbox' = [outbox EXCEPT ![i] = b]
        /\ audits' = audits \cup {<<i, "attempt">>}
    BY <1>1 DEF Ask, Audit
  <1>3. b \in Box /\ b.status = "blocked"
    BY <1>1 DEF Box, BoxStates
  <1> HIDE DEF b
  <1>4. /\ outbox' \in [Reviews -> Box] /\ outbox'[i] = b
        /\ \A j \in Reviews : j # i => outbox'[j] = outbox[j]
        /\ verdict' \in [Reviews -> {"none", "pending"} \cup ReviewVerdicts]
        /\ verdict'[i] = "pending"
        /\ \A j \in Reviews : j # i => verdict'[j] = verdict[j]
    BY <1>1, <1>2, <1>3
  <1>5. audits \subseteq audits' /\ <<i, "attempt">> \in audits'
    BY <1>2
  <1>6. RowHolds(i, review'[i], verdict'[i], outbox'[i], audits', versions')
    BY <1>3, <1>4, <1>5, ReviewStatuses DEF RowHolds
  <1>7. \A j \in Reviews : RowHolds(j, review'[j], verdict'[j], outbox'[j], audits', versions')
    BY <1>4, <1>5, <1>6, RowMoves
  <1> QED
    BY <1>4, <1>7, ReviewStatuses

\* A row that opens nothing is written under the next id.
LEMMA ProposalAdded ==
    ASSUME ReviewInv, NextId \in Reviews, NEW row, IsRow(row), row.by \notin {"nobody", "auto"},
           review' = [review EXCEPT ![NextId] = row],
           UNCHANGED <<tier, addenda, detector, applier, keyLock>>,
           verdict' \in [Reviews -> {"none", "pending"} \cup ReviewVerdicts],
           outbox' \in [Reviews -> Box],
           \A j \in Reviews : verdict[j] \in ReviewVerdicts => verdict'[j] = verdict[j],
           \A j \in Reviews : RowHolds(j, review'[j], verdict'[j], outbox'[j], audits', versions')
    PROVE  ReviewInv' /\ MovesAsReviewed
  <1>1. /\ IdsInOrder'
        /\ review' = [i \in Reviews |-> review'[i]] /\ \A i \in Reviews : IsRow(review'[i])
        /\ review'[NextId] = row
        /\ \A i \in Reviews : i # NextId => review'[i] = review[i]
        /\ \A i \in Reviews : review[i].by # "nobody" => review'[i] = review[i]
    BY RowAdded
  <1>2. versions' = versions
    BY DEF addenda
  <1>3. ReviewGrows
    BY <1>1, <1>2 DEF ReviewGrows
  <1>4. \A x \in Appliers : ApplierHolds(applier'[x], review', verdict', versions', tier')
    BY <1>3, AppliersWait
  <1>5. \A i \in Reviews : \A k : OpenAuto(review'[i], k) => OpenAuto(review[i], k)
    BY <1>1 DEF OpenAuto
  <1>6. /\ OneOpenIn(review')
        /\ \A d \in Detectors : DetectorHolds(d, detector'[d], keyLock', review')
    BY <1>5, NothingOpens
  <1>7. ReviewTyped'
    BY <1>1 DEF ReviewInv, ReviewTyped
  <1>8. PointerIsInstalled' /\ MovesAsReviewed
    BY AddendaStay
  <1> QED
    BY <1>1, <1>4, <1>6, <1>7, <1>8 DEF ReviewInv

\* The owner proposes; the request follows, or comes with a rollback.
LEMMA OwnerStep ==
    ASSUME ReviewInv, ProposeDenied \/ (\E k \in Preferences : ProposeReview(k))
                      \/ (\E t : ProposeRollback(t))
    PROVE  ReviewInv' /\ MovesAsReviewed
  <1> DEFINE id == NextId
  <1>1. id \in Reviews /\ UNCHANGED <<tier, addenda, detector, applier, keyLock>>
    BY DEF ProposeDenied, ProposeReview, ProposeRollback
  <1>2. /\ verdict[id] = "none" /\ outbox[id].status = "none" /\ review[id].by = "nobody"
    BY <1>1, NextIsNew
  <1>3. /\ verdict \in [Reviews -> {"none", "pending"} \cup ReviewVerdicts]
        /\ outbox \in [Reviews -> Box]
    BY DEF ReviewInv, ReviewTyped
  <1>4. versions' = versions
    BY <1>1 DEF addenda
  <1>5. ASSUME NEW row, IsRow(row), row.by = "owner", row.status \in {"none", "pending"},
               review' = [review EXCEPT ![id] = row], UNCHANGED <<verdict, outbox>>,
               audits \subseteq audits'
        PROVE  ReviewInv' /\ MovesAsReviewed
    <2>1. /\ review'[id] = row
          /\ \A i \in Reviews : i # id => review'[i] = review[i]
      BY <1>1, <1>5, RowAdded
    <2>2. RowHolds(id, review'[id], verdict'[id], outbox'[id], audits', versions')
      BY <1>2, <1>5, <2>1, ReviewStatuses DEF RowHolds
    <2> HIDE DEF id
    <2>3. \A j \in Reviews : RowHolds(j, review'[j], verdict'[j], outbox'[j], audits', versions')
      BY <1>1, <1>4, <1>5, <2>1, <2>2, RowMoves
    <2> QED
      BY <1>1, <1>3, <1>5, <2>3, ProposalAdded DEF id
  <1>6. CASE ProposeDenied
    <2> DEFINE row == [NoReview EXCEPT !.by = "owner"]
    <2>1. IsRow(row) /\ row.by = "owner" /\ row.status = "none"
      <3> DEFINE n == NoReview
      <3>1. IsRow(n) /\ n.status = "none"
        BY DEF NoReview, IsRow, ReviewAuthors
      <3>2. row = [n EXCEPT !.by = "owner"]
        OBVIOUS
      <3> HIDE DEF n, row
      <3>3. row = [by |-> "owner", key |-> n.key, base |-> n.base, status |-> "none",
                   cooled |-> n.cooled]
        BY <3>1, <3>2 DEF IsRow
      <3> QED
        BY <3>3 DEF IsRow, ReviewAuthors
    <2>2. review' = [review EXCEPT ![id] = row] /\ UNCHANGED <<verdict, outbox>> /\ audits \subseteq audits'
      BY <1>6 DEF ProposeDenied, Audit
    <2> HIDE DEF row
    <2> QED
      BY <1>5, <2>1, <2>2
  <1>7. CASE \E k \in Preferences : ProposeReview(k)
    <2> PICK k \in Preferences : ProposeReview(k)
      BY <1>7
    <2> DEFINE row == ReviewRow("owner", k, pointer.active)
    <2>1. IsRow(row) /\ row.by = "owner" /\ row.status = "pending"
      BY FreshProposal DEF ReviewAuthors
    <2>2. review' = [review EXCEPT ![id] = row] /\ UNCHANGED <<verdict, outbox>> /\ audits \subseteq audits'
      BY DEF ProposeReview
    <2> HIDE DEF row
    <2> QED
      BY <1>5, <2>1, <2>2
  <1>8. CASE \E t : ProposeRollback(t)
    <2> PICK t : ProposeRollback(t)
      BY <1>8
    <2> DEFINE row == ReviewRow("rollback", t, pointer.active)
    <2>1. IsRow(row) /\ row.by = "rollback" /\ row.status = "pending"
      BY FreshProposal DEF ReviewAuthors
    <2>2. Ask(id, row)
      BY DEF ProposeRollback
    <2> HIDE DEF row
    <2>3. review' = [review EXCEPT ![id] = row]
      BY <2>2 DEF Ask
    <2>4. /\ review'[id] = row
          /\ \A i \in Reviews : i # id => review'[i] = review[i]
      BY <1>1, <2>1, <2>3, RowAdded
    <2> HIDE DEF id
    <2>5. /\ verdict' \in [Reviews -> {"none", "pending"} \cup ReviewVerdicts]
          /\ outbox' \in [Reviews -> Box]
          /\ \A j \in Reviews : verdict[j] \in ReviewVerdicts => verdict'[j] = verdict[j]
          /\ \A j \in Reviews : RowHolds(j, review'[j], verdict'[j], outbox'[j], audits', versions')
      BY <1>1, <1>2, <1>4, <2>1, <2>2, <2>4, AskMoves
    <2> QED
      BY <1>1, <2>1, <2>3, <2>5, ProposalAdded DEF id
  <1> QED
    BY <1>6, <1>7, <1>8

\* The request of an owner's proposal.
LEMMA EnqueueStep ==
    ASSUME ReviewInv, NEW i \in Reviews, EnqueueReview(i)
    PROVE  ReviewInv' /\ MovesAsReviewed
  <1>1. /\ review[i].by = "owner" /\ review[i].status = "pending" /\ verdict[i] = "none"
        /\ Ask(i, review[i]) /\ UNCHANGED <<tier, addenda, detector, applier, keyLock>>
    BY DEF EnqueueReview
  <1>2. review = [j \in Reviews |-> review[j]]
    BY DEF ReviewInv, ReviewTyped
  <1>3. review' = review
    BY <1>1, <1>2 DEF Ask
  <1>4. versions' = versions
    BY <1>1 DEF addenda
  <1>5. /\ verdict' \in [Reviews -> {"none", "pending"} \cup ReviewVerdicts]
        /\ outbox' \in [Reviews -> Box]
        /\ \A j \in Reviews : verdict[j] \in ReviewVerdicts => verdict'[j] = verdict[j]
        /\ \A j \in Reviews : RowHolds(j, review'[j], verdict'[j], outbox'[j], audits', versions')
    BY <1>1, <1>3, <1>4, AskMoves
  <1>6. ReviewGrows
    BY <1>1, <1>3, <1>4, <1>5 DEF ReviewGrows
  <1>7. \A x \in Appliers : ApplierHolds(applier'[x], review', verdict', versions', tier')
    BY <1>1, <1>6, AppliersWait
  <1>8. ReviewTyped' /\ IdsInOrder' /\ OneOpenIn(review')
    BY <1>1, <1>3, <1>5 DEF ReviewInv, ReviewTyped, IdsInOrder, Used
  <1>9. \A d \in Detectors : DetectorHolds(d, detector'[d], keyLock', review')
    BY <1>1, <1>3 DEF ReviewInv
  <1>10. PointerIsInstalled' /\ MovesAsReviewed
    BY <1>1, AddendaStay
  <1> QED
    BY <1>5, <1>7, <1>8, <1>9, <1>10 DEF ReviewInv

\* A step of one candidate that writes no row.
LEMMA DetectorAlone ==
    ASSUME ReviewInv, NEW d \in Detectors, NEW c, IsCandidate(c),
           detector' = [detector EXCEPT ![d] = c], UNCHANGED <<auto, storeRows>>,
           keyLock' \in [Preferences -> Detectors \cup {NoDigest}],
           DetectorHolds(d, c, keyLock', review),
           \A k \in Preferences : keyLock[k] \in Detectors => keyLock'[k] = keyLock[k]
    PROVE  ReviewInv' /\ MovesAsReviewed
  <1>1. UNCHANGED <<tier, addenda, applier, review, verdict, outbox, audits>>
    BY DEF auto, storeRows
  <1>2. detector = [x \in Detectors |-> detector[x]] /\ \A x \in Detectors : IsCandidate(detector[x])
    BY DEF ReviewInv, ReviewTyped
  <1>3. /\ detector' = [x \in Detectors |-> detector'[x]]
        /\ \A x \in Detectors : detector'[x] = IF x = d THEN c ELSE detector[x]
    BY <1>2
  <1>4. ReviewTyped'
    BY <1>1, <1>2, <1>3 DEF ReviewInv, ReviewTyped
  <1>5. ASSUME NEW x \in Detectors
        PROVE  DetectorHolds(x, detector'[x], keyLock', review')
    <2>1. CASE x = d
      BY <1>1, <1>3, <2>1
    <2>2. CASE x # d
      <3>1. DetectorHolds(x, detector[x], keyLock, review) /\ IsCandidate(detector[x])
        BY <1>2 DEF ReviewInv
      <3> QED
        BY <1>1, <1>3, <2>2, <3>1 DEF DetectorHolds, IsCandidate
    <2> QED
      BY <2>1, <2>2
  <1>6. versions' = versions
    BY <1>1 DEF addenda
  <1>7. \A j \in Reviews : RowHolds(j, review'[j], verdict'[j], outbox'[j], audits', versions')
    BY <1>1, <1>6 DEF ReviewInv
  <1>8. \A x \in Appliers : ApplierHolds(applier'[x], review', verdict', versions', tier')
    BY <1>1, <1>6 DEF ReviewInv
  <1>9. IdsInOrder' /\ OneOpenIn(review')
    BY <1>1 DEF ReviewInv, IdsInOrder, Used
  <1>10. PointerIsInstalled' /\ MovesAsReviewed
    BY <1>1, AddendaStay
  <1> QED
    BY <1>4, <1>5, <1>7, <1>8, <1>9, <1>10 DEF ReviewInv

\* A candidate at rest.
LEMMA CandidateRests ==
    IsCandidate(Resting) /\ \A d, locks, rv : DetectorHolds(d, Resting, locks, rv)
  <1>1. Resting = [pc |-> "idle", key |-> NoDigest, base |-> NoDigest]
    BY DEF Resting
  <1> QED
    BY <1>1 DEF IsCandidate, DetectorHolds

\* The next stage of a candidate.
LEMMA CandidateMoves ==
    ASSUME ReviewInv, NEW d \in Detectors, detector[d].pc # "idle",
           NEW pc \in {"active", "look", "insert"}, DetectorTo(d, pc)
    PROVE  \E c : /\ IsCandidate(c) /\ c.pc = pc /\ c.key = detector[d].key
                  /\ detector' = [detector EXCEPT ![d] = c]
  <1> DEFINE x == detector[d]
             c == [x EXCEPT !.pc = pc]
  <1>1. detector = [y \in Detectors |-> detector[y]] /\ IsCandidate(x)
    BY DEF ReviewInv, ReviewTyped
  <1>2. detector' = [detector EXCEPT ![d] = c]
    BY <1>1 DEF DetectorTo
  <1>3. x.pc # "idle"
    OBVIOUS
  <1> HIDE DEF x
  <1>4. c = [pc |-> pc, key |-> x.key, base |-> x.base]
    BY <1>1 DEF IsCandidate
  <1> HIDE DEF c
  <1>5. IsCandidate(c) /\ c.pc = pc /\ c.key = x.key
    BY <1>1, <1>3, <1>4 DEF IsCandidate
  <1> QED
    BY <1>2, <1>5 DEF x

\* A turn notices a preference, the addendum is read again, duplicates are looked
\* for under the lock of the key.
LEMMA NoticeStep ==
    ASSUME ReviewInv, NEW d \in Detectors, Detect(d) \/ SnapshotActive(d) \/ LookForDuplicate(d)
    PROVE  ReviewInv' /\ MovesAsReviewed
  <1>1. UNCHANGED <<auto, storeRows>>
    BY DEF Detect, SnapshotActive, LookForDuplicate
  <1>2. keyLock \in [Preferences -> Detectors \cup {NoDigest}]
    BY DEF ReviewInv, ReviewTyped
  <1>3. ASSUME NEW c, IsCandidate(c), c.pc # "insert", detector' = [detector EXCEPT ![d] = c],
               keyLock' = keyLock
        PROVE  ReviewInv' /\ MovesAsReviewed
    <2>1. DetectorHolds(d, c, keyLock', review)
      BY <1>3 DEF DetectorHolds
    <2> QED
      BY <1>1, <1>2, <1>3, <2>1, DetectorAlone
  <1>4. CASE Discard(d) /\ UNCHANGED keyLock
    <2>1. IsCandidate(Resting) /\ Resting.pc # "insert"
      BY CandidateRests DEF Resting
    <2> QED
      BY <1>3, <1>4, <2>1 DEF Discard
  <1>5. CASE Detect(d)
    <2>1. PICK signal \in Signals, evidence \in Matching :
            detector' = [detector EXCEPT ![d] =
              [pc |-> "active", key |-> signal.key, base |-> pointer.active]]
      BY <1>5 DEF Detect
    <2> DEFINE c == [pc |-> "active", key |-> signal.key, base |-> pointer.active]
    <2>2. signal.key \in Preferences
      BY ReviewAssumption DEF Signals
    <2>3. IsCandidate(c) /\ c.pc = "active"
      BY <2>2 DEF IsCandidate
    <2>4. keyLock' = keyLock
      BY <1>5 DEF Detect
    <2> QED
      BY <1>3, <2>1, <2>3, <2>4
  <1>6. CASE SnapshotActive(d)
    <2>1. /\ detector[d].pc = "active" /\ keyLock' = keyLock
          /\ DetectorTo(d, "look") \/ Discard(d)
      BY <1>6 DEF SnapshotActive, DetectorAt
    <2>2. CASE DetectorTo(d, "look")
      <3>1. PICK c : IsCandidate(c) /\ c.pc = "look" /\ detector' = [detector EXCEPT ![d] = c]
        BY <2>1, <2>2, CandidateMoves
      <3> QED
        BY <1>3, <2>1, <3>1
    <2> QED
      BY <1>4, <2>1, <2>2
  <1>7. CASE LookForDuplicate(d)
    <2> DEFINE k == detector[d].key
    <2>1. /\ detector[d].pc = "look" /\ keyLock[k] = NoDigest
          /\ \/ Discard(d) /\ UNCHANGED keyLock
             \/ /\ ~ \E i \in Used : Blocks(i, k)
                /\ DetectorTo(d, "insert") /\ keyLock' = [keyLock EXCEPT ![k] = d]
      BY <1>7 DEF LookForDuplicate, DetectorAt
    <2>2. CASE /\ ~ \E i \in Used : Blocks(i, k)
               /\ DetectorTo(d, "insert") /\ keyLock' = [keyLock EXCEPT ![k] = d]
      <3>1. PICK c : IsCandidate(c) /\ c.pc = "insert" /\ c.key = k
                     /\ detector' = [detector EXCEPT ![d] = c]
        BY <2>1, <2>2, CandidateMoves
      <3>2. k \in Preferences
        BY <3>1 DEF IsCandidate
      <3>3. ASSUME NEW i \in Reviews
            PROVE  ~OpenAuto(review[i], k)
        BY <2>2 DEF OpenAuto, Blocks, StillOpen, Used
      <3> HIDE DEF k
      <3>4. /\ keyLock' \in [Preferences -> Detectors \cup {NoDigest}] /\ keyLock'[k] = d
            /\ \A x \in Preferences : keyLock[x] \in Detectors => keyLock'[x] = keyLock[x]
        BY <1>2, <2>1, <2>2, <3>2, ReviewAssumption
      <3>5. DetectorHolds(d, c, keyLock', review)
        BY <3>1, <3>3, <3>4 DEF DetectorHolds
      <3> QED
        BY <1>1, <3>1, <3>4, <3>5, DetectorAlone
    <2> QED
      BY <1>4, <2>1, <2>2
  <1> QED
    BY <1>5, <1>6, <1>7

\* The bundle commits: the only open automatic proposal with its key, because the
\* lock was kept since the duplicates were looked for.
LEMMA CommitStep ==
    ASSUME ReviewInv, NEW d \in Detectors, CommitBundle(d)
    PROVE  ReviewInv' /\ MovesAsReviewed
  <1> DEFINE k == detector[d].key
             row == ReviewRow("auto", k, detector[d].base)
  <1>1. /\ detector[d].pc = "insert" /\ Discard(d) /\ keyLock' = [keyLock EXCEPT ![k] = NoDigest]
        /\ UNCHANGED auto
        /\ IF NextId \in Reviews THEN Ask(NextId, row) ELSE UNCHANGED storeRows
    BY DEF CommitBundle, DetectorAt
  <1>2. /\ detector = [x \in Detectors |-> detector[x]]
        /\ \A x \in Detectors : IsCandidate(detector[x])
        /\ keyLock \in [Preferences -> Detectors \cup {NoDigest}]
    BY DEF ReviewInv, ReviewTyped
  <1>3. \A x \in Detectors : DetectorHolds(x, detector[x], keyLock, review)
    BY DEF ReviewInv
  <1>4. k \in Preferences /\ keyLock[k] = d /\ \A i \in Reviews : ~OpenAuto(review[i], k)
    BY <1>1, <1>2, <1>3 DEF IsCandidate, DetectorHolds
  <1>5. /\ detector' = [x \in Detectors |-> detector'[x]]
        /\ \A x \in Detectors : detector'[x] = IF x = d THEN Resting ELSE detector[x]
    BY <1>1, <1>2 DEF Discard
  <1>6. /\ keyLock' \in [Preferences -> Detectors \cup {NoDigest}]
        /\ \A x \in Preferences : x # k => keyLock'[x] = keyLock[x]
    BY <1>1, <1>2, <1>4
  <1>7. UNCHANGED <<tier, addenda, applier>> /\ versions' = versions
    BY <1>1 DEF auto, addenda
  <1>8. IsRow(row) /\ row.by = "auto" /\ row.key = k /\ row.status = "pending"
    BY FreshProposal DEF ReviewAuthors
  <1> HIDE DEF row, k
  <1>9. \A x \in Detectors : IsCandidate(detector'[x])
    BY <1>2, <1>5, CandidateRests
  <1>10. ASSUME \A i \in Reviews : \A q : OpenAuto(review'[i], q) => OpenAuto(review[i], q) \/ q = k
         PROVE  \A x \in Detectors : DetectorHolds(x, detector'[x], keyLock', review')
    <2> SUFFICES ASSUME NEW x \in Detectors, x # d, detector[x].pc = "insert"
                 PROVE  /\ keyLock'[detector[x].key] = x
                        /\ \A i \in Reviews : ~OpenAuto(review'[i], detector[x].key)
      BY <1>5, CandidateRests DEF DetectorHolds
    <2>1. /\ keyLock[detector[x].key] = x /\ detector[x].key \in Preferences
          /\ \A i \in Reviews : ~OpenAuto(review[i], detector[x].key)
      BY <1>2, <1>3 DEF DetectorHolds, IsCandidate
    <2>2. detector[x].key # k
      BY <1>4, <2>1
    <2> QED
      BY <1>6, <1>10, <2>1, <2>2
  <1>11. PointerIsInstalled' /\ MovesAsReviewed
    BY <1>7, AddendaStay
  <1>12. CASE NextId \notin Reviews
    <2>1. UNCHANGED <<review, verdict, outbox, audits>>
      BY <1>1, <1>12 DEF storeRows
    <2>2. ReviewTyped' /\ IdsInOrder' /\ OneOpenIn(review')
      BY <1>5, <1>6, <1>7, <1>9, <2>1 DEF ReviewInv, ReviewTyped, IdsInOrder, Used
    <2>3. \A j \in Reviews : RowHolds(j, review'[j], verdict'[j], outbox'[j], audits', versions')
      BY <1>7, <2>1 DEF ReviewInv
    <2>4. \A x \in Appliers : ApplierHolds(applier'[x], review', verdict', versions', tier')
      BY <1>7, <2>1 DEF ReviewInv
    <2> QED
      BY <1>10, <1>11, <2>1, <2>2, <2>3, <2>4 DEF ReviewInv
  <1>13. CASE NextId \in Reviews
    <2> DEFINE id == NextId
    <2>1. id \in Reviews /\ Ask(id, row) /\ review' = [review EXCEPT ![id] = row]
      BY <1>1, <1>13 DEF Ask
    <2>2. /\ IdsInOrder'
          /\ review' = [i \in Reviews |-> review'[i]] /\ \A i \in Reviews : IsRow(review'[i])
          /\ review'[id] = row
          /\ \A i \in Reviews : i # id => review'[i] = review[i]
          /\ \A i \in Reviews : review[i].by # "nobody" => review'[i] = review[i]
      BY <1>8, <2>1, RowAdded
    <2>3. verdict[id] = "none"
      BY <2>1, NextIsNew
    <2> HIDE DEF id
    <2>4. /\ verdict' \in [Reviews -> {"none", "pending"} \cup ReviewVerdicts]
          /\ outbox' \in [Reviews -> Box]
          /\ \A j \in Reviews : verdict[j] \in ReviewVerdicts => verdict'[j] = verdict[j]
          /\ \A j \in Reviews : RowHolds(j, review'[j], verdict'[j], outbox'[j], audits', versions')
      BY <1>7, <1>8, <2>1, <2>2, <2>3, AskMoves
    <2>5. ReviewGrows
      BY <1>7, <2>2, <2>4 DEF ReviewGrows
    <2>6. \A x \in Appliers : ApplierHolds(applier'[x], review', verdict', versions', tier')
      BY <1>7, <2>5, AppliersWait
    <2>7. \A i \in Reviews : \A q : OpenAuto(review'[i], q) => OpenAuto(review[i], q) \/ q = k
      BY <1>8, <2>2 DEF OpenAuto
    <2>8. OneOpenIn(review')
      <3> SUFFICES ASSUME NEW i \in Reviews, NEW j \in Reviews,
                          OpenAuto(review'[i], review'[j].key), OpenAuto(review'[j], review'[j].key),
                          i # j
                   PROVE  FALSE
        BY DEF OneOpenIn
      <3>1. CASE i = id
        <4>1. review'[j].key = k /\ review'[j] = review[j]
          BY <1>8, <2>2, <3>1 DEF OpenAuto
        <4> QED
          BY <1>4, <4>1
      <3>2. CASE j = id
        <4>1. review'[j].key = k /\ review'[i] = review[i]
          BY <1>8, <2>2, <3>2
        <4> QED
          BY <1>4, <4>1
      <3>3. CASE i # id /\ j # id
        BY <2>2, <3>3 DEF ReviewInv, OneOpenIn
      <3> QED
        BY <3>1, <3>2, <3>3
    <2>9. ReviewTyped'
      BY <1>5, <1>6, <1>7, <1>9, <2>2, <2>4 DEF ReviewInv, ReviewTyped
    <2> QED
      BY <1>10, <1>11, <2>2, <2>4, <2>6, <2>7, <2>8, <2>9 DEF ReviewInv
  <1> QED
    BY <1>12, <1>13

\* The process comes back with nothing in hand.
LEMMA RestartStep ==
    ASSUME ReviewInv, NEW t \in Tiers, Restart(t)
    PROVE  ReviewInv' /\ MovesAsReviewed
  <1>1. /\ tier' = t /\ detector' = [d \in Detectors |-> Resting]
        /\ applier' = [w \in Appliers |-> Unclaimed]
        /\ keyLock' = [k \in Preferences |-> NoDigest]
        /\ UNCHANGED <<addenda, review, verdict, outbox, audits>> /\ versions' = versions
    BY DEF Restart, storeRows, addenda
  <1>2. ReviewTyped'
    <2>1. applier' \in [Appliers -> Claim] /\ keyLock' \in [Preferences -> Detectors \cup {NoDigest}]
      BY <1>1, HoldsNothing
    <2>2. detector' = [d \in Detectors |-> detector'[d]] /\ \A d \in Detectors : IsCandidate(detector'[d])
      BY <1>1, CandidateRests
    <2> QED
      BY <1>1, <2>1, <2>2 DEF ReviewInv, ReviewTyped
  <1>3. IdsInOrder' /\ OneOpenIn(review')
    BY <1>1 DEF ReviewInv, IdsInOrder, Used
  <1>4. \A j \in Reviews : RowHolds(j, review'[j], verdict'[j], outbox'[j], audits', versions')
    BY <1>1 DEF ReviewInv
  <1>5. \A x \in Appliers : ApplierHolds(applier'[x], review', verdict', versions', tier')
    BY <1>1, HoldsNothing
  <1>6. \A d \in Detectors : DetectorHolds(d, detector'[d], keyLock', review')
    BY <1>1, CandidateRests
  <1>7. PointerIsInstalled' /\ MovesAsReviewed
    BY <1>1, AddendaStay
  <1> QED
    BY <1>2, <1>3, <1>4, <1>5, <1>6, <1>7 DEF ReviewInv

\* The reviewed evolution keeps what it promises for any preferences, tiers, turns
\* that notice them and lease holders: a preference has one open automatic
\* proposal, what was applied was decided, audited and installed, and the active
\* addendum moves only from a reviewed base to what was approved.
THEOREM ReviewsAreCorrect == ReviewSpec => ReviewsCorrect
  <1>1. ReviewInit => ReviewInv
    <2> SUFFICES ASSUME ReviewInit PROVE ReviewInv
      OBVIOUS
    <2>1. /\ review = [i \in Reviews |-> NoReview] /\ verdict = [i \in Reviews |-> "none"]
          /\ outbox = [i \in Reviews |-> [status |-> "none", tries |-> 0]]
          /\ pointer = [active |-> NoDigest, from |-> NoDigest] /\ versions = {}
          /\ detector = [d \in Detectors |-> Resting] /\ applier = [w \in Appliers |-> Unclaimed]
          /\ keyLock = [k \in Preferences |-> NoDigest] /\ tier = "moderate"
      BY DEF ReviewInit
    <2>2. IsRow(NoReview) /\ NoReview.by = "nobody" /\ NoReview.status = "none"
      BY DEF NoReview, IsRow, ReviewAuthors
    <2>3. [status |-> "none", tries |-> 0] \in Box
      BY ReviewStatuses DEF Box, BoxStates
    <2>4. ReviewTyped
      <3>1. applier \in [Appliers -> Claim] /\ keyLock \in [Preferences -> Detectors \cup {NoDigest}]
        BY <2>1, HoldsNothing
      <3>2. detector = [d \in Detectors |-> detector[d]] /\ \A d \in Detectors : IsCandidate(detector[d])
        BY <2>1, CandidateRests
      <3> QED
        BY <2>1, <2>2, <2>3, <3>1, <3>2, ReviewAssumption DEF ReviewTyped
    <2>5. IdsInOrder
      <3>1. Used = 1..0 /\ 0 \in 0..MaxReviews
        BY <2>1, <2>2, ReviewStatuses DEF Used
      <3> QED
        BY <3>1 DEF IdsInOrder
    <2>6. OneOpenIn(review)
      BY <2>1, <2>2 DEF OneOpenIn, OpenAuto
    <2>7. PointerIsInstalled
      BY <2>1 DEF PointerIsInstalled
    <2>8. \A i \in Reviews : RowHolds(i, review[i], verdict[i], outbox[i], audits, versions)
      BY <2>1, <2>2, ReviewStatuses DEF RowHolds
    <2> QED
      BY <2>1, <2>4, <2>5, <2>6, <2>7, <2>8, HoldsNothing, CandidateRests DEF ReviewInv
  <1>2. ReviewInv /\ [ReviewNext]_reviewVars => ReviewInv' /\ MovesAsReviewed
    <2> SUFFICES ASSUME ReviewInv, [ReviewNext]_reviewVars PROVE ReviewInv' /\ MovesAsReviewed
      OBVIOUS
    <2>1. CASE UNCHANGED reviewVars
      <3>1. UNCHANGED <<tier, review, verdict, outbox, audits, pointer, versions, detector, applier, keyLock>>
        BY <2>1 DEF reviewVars, storeRows, addenda
      <3> QED
        BY <3>1 DEF ReviewInv, ReviewTyped, IdsInOrder, Used, PointerIsInstalled, Installed,
                    MovesAsReviewed
    <2>2. ASSUME NEW i \in Reviews,
                 EnqueueReview(i) \/ CoolDown(i) \/ \E s \in ReviewVerdicts : DecideReview(i, s)
          PROVE  ReviewInv' /\ MovesAsReviewed
      BY <2>2, EnqueueStep, CoolStep, DecideReviewStep
    <2>3. ASSUME NEW d \in Detectors,
                 Detect(d) \/ SnapshotActive(d) \/ LookForDuplicate(d) \/ CommitBundle(d)
          PROVE  ReviewInv' /\ MovesAsReviewed
      BY <2>3, NoticeStep, CommitStep
    <2>4. ASSUME NEW w \in Appliers,
                 \/ \E i \in Used : ClaimReview(w, i)
                 \/ Check(w) \/ InstallVersion(w) \/ RollBack(w)
                 \/ CloseReview(w) \/ CompleteReview(w) \/ FailReview(w)
          PROVE  ReviewInv' /\ MovesAsReviewed
      BY <2>4, ClaimReviewStep, CheckStep, InstallStep, RollBackStep, CloseStep, EndStep
    <2> QED
      BY <2>1, <2>2, <2>3, <2>4, OwnerStep, RestartStep DEF ReviewNext
  <1>3. ReviewInv => ReviewTypeOK /\ OneOpenCandidate /\ PointerIsInstalled /\ AppliedIsAudited
    <2> SUFFICES ASSUME ReviewInv PROVE ReviewTypeOK /\ OneOpenCandidate /\ AppliedIsAudited
      BY DEF ReviewInv
    <2>1. ReviewTypeOK
      BY DEF ReviewInv, ReviewTyped, ReviewTypeOK, IsRow, ReviewAuthors, Box, BoxStates
    <2>2. OneOpenCandidate
      BY DEF ReviewInv, OneOpenIn, OneOpenCandidate, OpenAuto, StillOpen, Used
    <2>3. AppliedIsAudited
      <3> SUFFICES ASSUME NEW i \in Used, outbox[i].status = "applied"
                   PROVE  /\ verdict[i] \in ReviewVerdicts
                          /\ {<<i, "attempt">>, <<i, verdict[i]>>, <<i, "applied">>} \subseteq audits
                          /\ review[i].by # "rollback" => review[i].status = verdict[i]
                          /\ review[i].by # "rollback" /\ verdict[i] = "approved" =>
                               [digest |-> ContentDigest(review[i]), source |-> i] \in versions
        BY DEF AppliedIsAudited
      <3>1. RowHolds(i, review[i], verdict[i], outbox[i], audits, versions)
        BY DEF ReviewInv, Used
      <3> QED
        BY <3>1, ReviewStatuses DEF RowHolds, VersionOfReview
    <2> QED
      BY <2>1, <2>2, <2>3
  <1>4. MovesAsReviewed =>
          [pointer'.active # pointer.active =>
            /\ StillReachable
            /\ \E i \in Used :
                 /\ verdict[i] = "approved" /\ review[i].base = pointer.active
                 /\ pointer'.active = IF review[i].by = "rollback" THEN review[i].key
                                      ELSE ContentDigest(review[i])]_reviewVars
    BY DEF MovesAsReviewed
  <1> QED
    BY <1>1, <1>2, <1>3, <1>4, PTL DEF ReviewSpec, ReviewsCorrect, ActivatedAsReviewed

-----------------------------------------------------------------------------
(* The drive under concurrent calls.                                       *)

DrivePaths == [dir : Dirs, copies : Seq(Nat)]
DriveEntry == [path : DrivePaths, hash : Contents, ver : Nat \ {0}]
Settled == {"applied", "denied", "failed", "stale"}
DriveProposal ==
    [status : Unsettled \cup Settled, entry : EntryIds, from : DrivePaths, to : DrivePaths,
     hash : Contents \cup {"none"}, ver : Nat \ {0}, run : 0..MaxRuns]
OrganizerRun == [status : {"queued", "running", "completed"}, ver : Nat \ {0}, fresh : BOOLEAN]

CallStages == {"idle", "ask", "read", "insert", "offer", "swap", "commitMove", "findRun",
               "insertRun", "claim", "generate", "propose", "list", "mark", "look", "commit"}
DriveTask ==
    [op : {"none", "put", "move", "tag", "apply", "organize"}, pc : CallStages,
     path : DrivePaths \cup {NoPath}, to : DrivePaths \cup {NoPath}, hash : Contents \cup {"none"},
     collision : Collisions, auto : BOOLEAN, id : 0..MaxEntries, saw : Nat,
     victim : 0..MaxEntries, victimSaw : Nat, run : 0..MaxRuns, runSaw : Nat,
     ids : SUBSET ProposalIds, todo : SUBSET Nat, verdict : {"none"} \cup Settled,
     plan : [EntryIds -> DriveProposal \cup {NoProposal}],
     snap : [ProposalIds -> DriveProposal \cup {NoProposal}]]

StoreTyped ==
    /\ entries \in [EntryIds -> DriveEntry \cup {NoEntry, GoneEntry}]
    /\ proposals \in [ProposalIds -> DriveProposal \cup {NoProposal}]
    /\ runs \in [RunIds -> OrganizerRun \cup {NoRun}]

\* What a call works on was named by its caller, or read from the store.
CallHolds(t, P) ==
    /\ t.op \in {"put", "move", "tag"} => t.path \in DrivePaths
    /\ t.op \in {"put", "move"} => t.to \in DrivePaths
    /\ t.op = "put" => t.hash \in Contents
    /\ t.pc \in {"ask", "read"} => t.op # "none"
    /\ t.pc \in {"insert", "offer"} => t.op = "put"
    /\ t.pc = "swap" => t.op \in {"put", "tag"}
    /\ t.pc = "commitMove" => t.op = "move"
    /\ t.pc \in {"offer", "swap", "commitMove"} => t.id \in EntryIds
    /\ t.pc \notin {"list", "mark", "commit"} => t.verdict = "none"
    /\ t.pc \in {"list", "mark"} => t.verdict # "applied"
    /\ t.pc = "mark" => t.verdict # "none"
    /\ \A p \in t.ids : P[p] # NoProposal

\* A claim that still fits was found on a run nobody holds; an owner that still
\* fits owns a running run.
LeaseHolds(t, R) ==
    /\ t.pc \in {"claim", "generate", "propose"} => t.run \in RunIds /\ t.runSaw <= R[t.run].ver
    /\ t.pc = "claim" /\ R[t.run].ver = t.runSaw =>
         R[t.run].status \in {"queued", "running"} /\ ~R[t.run].fresh
    /\ t.pc \in {"generate", "propose"} /\ R[t.run].ver = t.runSaw => R[t.run].status = "running"
    /\ t.pc = "propose" => /\ t.todo \subseteq EntryIds
                           /\ \A e \in t.todo : t.plan[e] \in DriveProposal
                                                  /\ t.plan[e].status = "pending" /\ t.plan[e].ver = 1

\* The proposals of a list are those of the store, or older; and an entry that was
\* found in its place and is at the version read is still there.
Stands(t, E, q) ==
    /\ E[q.entry] # NoEntry
    /\ E[q.entry].ver > 0 => t.saw <= E[q.entry].ver
    /\ E[q.entry].ver > 0 /\ t.saw = E[q.entry].ver =>
         E[q.entry].path = q.from /\ q.hash \in {"none", E[q.entry].hash}

ListHolds(t, E, P) ==
    t.pc \in {"mark", "look", "commit"} =>
      /\ t.todo \subseteq t.ids
      /\ \A p \in ProposalIds : /\ t.snap[p].ver <= P[p].ver
                                /\ t.snap[p].ver = P[p].ver => t.snap[p] = P[p]
      /\ \A p \in t.ids : t.snap[p] # NoProposal
      /\ t.pc = "commit" => /\ t.todo # {} /\ t.verdict # "none" /\ t.verdict # "denied"
                            /\ t.verdict = "applied" => Stands(t, E, t.snap[Min(t.todo)])

TaskHolds(t, E, P, R) == CallHolds(t, P) /\ LeaseHolds(t, R) /\ ListHolds(t, E, P)

RunsHold ==
    /\ \A r \in RunIds : runs[r].fresh => runs[r].status = "running"
    /\ \A r, s \in ActiveRuns : r = s

\* Two calls never own the same claim.
OwnersDiffer ==
    \A c, d \in DriveCalls :
      /\ tasks[c].pc \in {"generate", "propose"} /\ tasks[d].pc \in {"generate", "propose"}
      /\ tasks[c].run = tasks[d].run /\ tasks[c].runSaw = tasks[d].runSaw
      => c = d

DriveInv ==
    /\ StoreTyped /\ tasks \in [DriveCalls -> DriveTask] /\ begun \in 0..MaxDriveCalls
    /\ OneEntryPerPath /\ RunsHold /\ OwnersDiffer
    /\ \A c \in DriveCalls : TaskHolds(tasks[c], entries, proposals, runs)

-----------------------------------------------------------------------------
LEMMA MinHolds ==
  ASSUME NEW S \in SUBSET Nat, S # {}
  PROVE  Min(S) \in S /\ \A y \in S : Min(S) <= y
<1>1. PICK x \in S : \A y \in S : ~(<<y, x>> \in OpToRel(<, Nat))
  BY WFMin, NatLessThanWellFounded, Zenon
<1>2. \A y \in S : x <= y
  <2> SUFFICES ASSUME NEW y \in S, y < x PROVE FALSE
    OBVIOUS
  <2>1. <<y, x>> \in Nat \X Nat /\ <<y, x>>[1] < <<y, x>>[2]
    OBVIOUS
  <2>2. OpToRel(<, Nat) = {ss \in Nat \X Nat : ss[1] < ss[2]}
    BY Zenon DEF OpToRel
  <2> QED
    BY <2>1, <2>2, <1>1
<1> QED
  BY <1>2 DEF Min

LEMMA EmptyRecords ==
  /\ NoEntry.ver = 0 /\ NoEntry.path = NoPath /\ GoneEntry.ver = 0 /\ GoneEntry # NoEntry
  /\ GoneEntry.hash = "gone" /\ NoEntry \notin DriveEntry /\ GoneEntry \notin DriveEntry
  /\ NoProposal.ver = 0 /\ NoProposal.status = "none" /\ NoProposal \notin DriveProposal
  /\ NoRun.ver = 0 /\ NoRun.status = "none" /\ NoRun.fresh = FALSE /\ NoRun \notin OrganizerRun
<1>1. /\ NoEntry.ver = 0 /\ NoEntry.path = NoPath /\ GoneEntry.ver = 0 /\ GoneEntry # NoEntry
      /\ GoneEntry.hash = "gone"
  BY DEF NoEntry, GoneEntry
<1>2. NoEntry \notin DriveEntry /\ GoneEntry \notin DriveEntry
  BY <1>1 DEF DriveEntry
<1>3. /\ NoProposal.ver = 0 /\ NoProposal.status = "none" /\ NoProposal \notin DriveProposal
  BY DEF NoProposal, DriveProposal
<1>4. NoRun.ver = 0 /\ NoRun.status = "none" /\ NoRun.fresh = FALSE /\ NoRun \notin OrganizerRun
  BY DEF NoRun, OrganizerRun
<1> QED
  BY <1>1, <1>2, <1>3, <1>4

\* An id is in use exactly while its entry is typed as one.
LEMMA EntryKinds ==
  ASSUME StoreTyped, NEW e \in EntryIds
  PROVE  /\ HasEntry(e) <=> entries[e] \in DriveEntry
         /\ entries[e].ver \in Nat
         /\ ~HasEntry(e) <=> entries[e] \in {NoEntry, GoneEntry}
BY EmptyRecords DEF StoreTyped, HasEntry, DriveEntry

\* unique_path finds a copy: there are more numbers than entries.
LEMMA UniquePathTyped ==
  ASSUME StoreTyped, NEW path \in DrivePaths
  PROVE  UniquePath(path) \in DrivePaths
<1> USE DriveAssumption
<1> DEFINE copy(k) == [path EXCEPT !.copies = Append(@, k)]
           Ks == 2..(MaxEntries + 2)
           free == {k \in Ks : IdAt(copy(k)) = {}}
<1>1. ASSUME NEW k \in Nat PROVE copy(k) \in DrivePaths
  <2>1. path.copies \in Seq(Nat) /\ path.dir \in Dirs
    BY DEF DrivePaths
  <2>2. Append(path.copies, k) \in Seq(Nat)
    BY <2>1
  <2> QED
    BY <2>1, <2>2 DEF DrivePaths
<1>2. \A k, l \in Nat : copy(k) = copy(l) => k = l
  <2> SUFFICES ASSUME NEW k \in Nat, NEW l \in Nat, copy(k) = copy(l) PROVE k = l
    OBVIOUS
  <2>1. path.copies \in Seq(Nat)
    BY DEF DrivePaths
  <2>2. copy(k).copies = Append(path.copies, k) /\ copy(l).copies = Append(path.copies, l)
    BY DEF DrivePaths
  <2>3. /\ Append(path.copies, k)[Len(path.copies) + 1] = k
        /\ Append(path.copies, l)[Len(path.copies) + 1] = l
    BY <2>1
  <2> QED
    BY <2>2, <2>3
<1> HIDE DEF copy
<1>3. free # {}
  <2> SUFFICES ASSUME free = {} PROVE FALSE
    OBVIOUS
  <2> DEFINE f == [k \in Ks |-> CHOOSE e \in IdAt(copy(k)) : TRUE]
  <2>1. \A k \in Ks : f[k] \in IdAt(copy(k))
    OBVIOUS
  <2>2. f \in [Ks -> EntryIds]
    BY <2>1 DEF IdAt
  <2>3. MaxEntries \in Nat /\ Ks \subseteq Nat
    OBVIOUS
  <2>4. IsFiniteSet(Ks) /\ Cardinality(Ks) = MaxEntries + 1
    BY <2>3, FS_Interval
  <2>5. IsFiniteSet(EntryIds) /\ Cardinality(EntryIds) = MaxEntries
    BY <2>3, FS_Interval DEF EntryIds
  <2> HIDE DEF f
  <2>6. PICK x, y \in Ks : x # y /\ f[x] = f[y]
    BY <2>2, <2>3, <2>4, <2>5, FS_PigeonHole
  <2>7. entries[f[x]].path = copy(x) /\ entries[f[y]].path = copy(y)
    BY <2>1 DEF IdAt
  <2> QED
    BY <2>3, <2>6, <2>7, <1>2
<1>4. Min(free) \in free
  BY <1>3, MinHolds
<1>5. UniquePath(path) = copy(Min(free))
  BY DEF UniquePath, copy
<1> QED
  BY <1>1, <1>4, <1>5

-----------------------------------------------------------------------------
(* How the records move, and what the other calls keep.                    *)

EntriesMove ==
    \A e \in EntryIds :
      \/ entries'[e] = entries[e]
      \/ entries[e] = NoEntry /\ entries'[e] \in DriveEntry
      \/ HasEntry(e) /\ entries'[e] = GoneEntry
      \/ HasEntry(e) /\ entries'[e] \in DriveEntry /\ entries'[e].ver = entries[e].ver + 1

ProposalsMove ==
    \A p \in ProposalIds :
      \/ proposals'[p] = proposals[p]
      \/ proposals'[p] \in DriveProposal /\ proposals'[p].ver = proposals[p].ver + 1

RunsMove ==
    \A r \in RunIds :
      \/ runs'[r] = runs[r]
      \/ runs'[r] \in OrganizerRun /\ runs'[r].ver = runs[r].ver + 1
      \/ /\ runs'[r] \in OrganizerRun /\ runs'[r].ver = runs[r].ver
         /\ runs'[r].status = runs[r].status /\ ~runs'[r].fresh

StoreMoves ==
    /\ entries' \in [EntryIds -> DriveEntry \cup {NoEntry, GoneEntry}] /\ EntriesMove
    /\ proposals' \in [ProposalIds -> DriveProposal \cup {NoProposal}] /\ ProposalsMove
    /\ runs' \in [RunIds -> OrganizerRun \cup {NoRun}] /\ RunsMove

LEMMA StoreRests ==
  ASSUME StoreTyped, UNCHANGED <<entries, proposals, runs>>
  PROVE  StoreMoves
BY DEF StoreTyped, StoreMoves, EntriesMove, ProposalsMove, RunsMove

\* A document found in its place stays there, or is seen to have changed.
LEMMA StandsStill ==
  ASSUME StoreTyped, StoreMoves, NEW t \in DriveTask, NEW q, q.entry \in EntryIds, Stands(t, entries, q)
  PROVE  Stands(t, entries', q)
<1>1. PICK e \in EntryIds : e = q.entry
  OBVIOUS
<1>2. t.saw \in Nat /\ entries[e].ver \in Nat
  BY EntryKinds DEF DriveTask
<1>3. /\ entries[e] # NoEntry
      /\ entries[e].ver > 0 => t.saw <= entries[e].ver
      /\ entries[e].ver > 0 /\ t.saw = entries[e].ver =>
           entries[e].path = q.from /\ q.hash \in {"none", entries[e].hash}
  BY <1>1 DEF Stands
<1> SUFFICES /\ entries'[e] # NoEntry
             /\ entries'[e].ver > 0 => t.saw <= entries'[e].ver
             /\ entries'[e].ver > 0 /\ t.saw = entries'[e].ver =>
                  entries'[e].path = q.from /\ q.hash \in {"none", entries'[e].hash}
  BY <1>1 DEF Stands
<1>4. CASE entries'[e] = entries[e]
  BY <1>3, <1>4
<1>5. CASE entries'[e] = GoneEntry
  BY <1>5, EmptyRecords
<1>6. CASE HasEntry(e) /\ entries'[e] \in DriveEntry /\ entries'[e].ver = entries[e].ver + 1
  BY <1>2, <1>3, <1>6, EmptyRecords DEF HasEntry
<1> QED
  BY <1>3, <1>4, <1>5, <1>6 DEF StoreMoves, EntriesMove

\* What a call has read stays true, or is seen to be old.
LEMMA TaskStays ==
  ASSUME StoreTyped, StoreMoves, NEW t \in DriveTask, TaskHolds(t, entries, proposals, runs)
  PROVE  TaskHolds(t, entries', proposals', runs')
<1>1. CallHolds(t, proposals')
  <2>1. \A p \in t.ids : proposals'[p] # NoProposal
    BY EmptyRecords DEF TaskHolds, CallHolds, StoreMoves, ProposalsMove, DriveTask
  <2> QED
    BY <2>1 DEF TaskHolds, CallHolds
<1>2. LeaseHolds(t, runs')
  <2>1. \A r \in RunIds : runs[r].ver \in Nat /\ runs'[r].ver \in Nat
    BY EmptyRecords DEF StoreTyped, StoreMoves, OrganizerRun
  <2>2. t.runSaw \in Nat
    BY DEF DriveTask
  <2>3. CASE t.pc \in {"claim", "generate", "propose"}
    <3>1. t.run \in RunIds /\ t.runSaw <= runs[t.run].ver
      BY <2>3 DEF TaskHolds, LeaseHolds
    <3>2. CASE runs'[t.run] = runs[t.run]
      BY <3>1, <3>2 DEF TaskHolds, LeaseHolds
    <3>3. CASE runs'[t.run].ver = runs[t.run].ver + 1
      BY <3>1, <3>3, <2>1, <2>2 DEF TaskHolds, LeaseHolds
    <3>4. CASE /\ runs'[t.run].ver = runs[t.run].ver
               /\ runs'[t.run].status = runs[t.run].status /\ ~runs'[t.run].fresh
      BY <3>1, <3>4 DEF TaskHolds, LeaseHolds
    <3> QED
      BY <3>1, <3>2, <3>3, <3>4 DEF StoreMoves, RunsMove
  <2>4. CASE t.pc \notin {"claim", "generate", "propose"}
    BY <2>4 DEF LeaseHolds
  <2> QED
    BY <2>3, <2>4
<1>3. ListHolds(t, entries', proposals')
  <2> SUFFICES ASSUME t.pc \in {"mark", "look", "commit"} PROVE ListHolds(t, entries', proposals')
    BY DEF ListHolds
  <2>1. /\ t.todo \subseteq t.ids
        /\ \A p \in ProposalIds : /\ t.snap[p].ver <= proposals[p].ver
                                  /\ t.snap[p].ver = proposals[p].ver => t.snap[p] = proposals[p]
        /\ \A p \in t.ids : t.snap[p] # NoProposal
        /\ t.pc = "commit" => /\ t.todo # {} /\ t.verdict # "none" /\ t.verdict # "denied"
                              /\ t.verdict = "applied" => Stands(t, entries, t.snap[Min(t.todo)])
    BY DEF TaskHolds, ListHolds
  <2>2. ASSUME NEW p \in ProposalIds
        PROVE  /\ t.snap[p].ver <= proposals'[p].ver
               /\ t.snap[p].ver = proposals'[p].ver => t.snap[p] = proposals'[p]
    <3>1. t.snap[p].ver \in Nat /\ proposals[p].ver \in Nat
      BY EmptyRecords DEF DriveTask, DriveProposal, StoreTyped
    <3> QED
      BY <3>1, <2>1 DEF StoreMoves, ProposalsMove
  <2>3. ASSUME t.pc = "commit", t.verdict = "applied"
        PROVE  Stands(t, entries', t.snap[Min(t.todo)])
    <3> DEFINE q == t.snap[Min(t.todo)]
    <3>1. Min(t.todo) \in t.ids /\ t.ids \subseteq ProposalIds
      BY <2>1, <2>3, MinHolds DEF DriveTask
    <3>2. q \in DriveProposal /\ q.entry \in EntryIds
      BY <3>1, <2>1 DEF DriveTask, DriveProposal
    <3>3. Stands(t, entries, q)
      BY <2>1, <2>3
    <3> QED
      BY <3>2, <3>3, StandsStill
  <2> QED
    BY <2>1, <2>2, <2>3 DEF ListHolds
<1> QED
  BY <1>1, <1>2, <1>3 DEF TaskHolds

\* One call moves to t, and the records move.
LEMMA CallMoves ==
  ASSUME DriveInv, StoreMoves, NEW c \in DriveCalls, NEW t \in DriveTask,
         tasks' = [tasks EXCEPT ![c] = t], TaskHolds(t, entries', proposals', runs'),
         begun' \in 0..MaxDriveCalls, OneEntryPerPath', RunsHold',
         t.pc \in {"generate", "propose"} =>
           \/ /\ tasks[c].pc \in {"generate", "propose"}
              /\ t.run = tasks[c].run /\ t.runSaw = tasks[c].runSaw
           \/ t.runSaw = runs[t.run].ver + 1
  PROVE  DriveInv'
<1>1. StoreTyped'
  BY DEF StoreMoves, StoreTyped
<1>2. tasks' \in [DriveCalls -> DriveTask]
  BY DEF DriveInv
<1>3. ASSUME NEW d \in DriveCalls
      PROVE  TaskHolds(tasks'[d], entries', proposals', runs')
  <2>1. CASE d = c
    BY <2>1 DEF DriveInv
  <2>2. CASE d # c
    <3>1. tasks'[d] = tasks[d] /\ tasks[d] \in DriveTask
      BY <2>2 DEF DriveInv
    <3> QED
      BY <3>1, TaskStays DEF DriveInv
  <2> QED
    BY <2>1, <2>2
<1>4. ASSUME NEW d \in DriveCalls, d # c,
             t.pc \in {"generate", "propose"}, tasks[d].pc \in {"generate", "propose"},
             t.run = tasks[d].run, t.runSaw = tasks[d].runSaw
      PROVE  FALSE
  <2>1. tasks[d].runSaw <= runs[t.run].ver /\ t.run \in RunIds
    BY <1>4 DEF DriveInv, TaskHolds, LeaseHolds
  <2>2. runs[t.run].ver \in Nat /\ t.runSaw \in Nat
    BY <2>1, EmptyRecords DEF DriveInv, StoreTyped, OrganizerRun, DriveTask
  <2> QED
    BY <1>4, <2>1, <2>2 DEF DriveInv, OwnersDiffer
<1>5. OwnersDiffer'
  <2> SUFFICES ASSUME NEW a \in DriveCalls, NEW b \in DriveCalls, a # b,
                      tasks'[a].pc \in {"generate", "propose"}, tasks'[b].pc \in {"generate", "propose"},
                      tasks'[a].run = tasks'[b].run, tasks'[a].runSaw = tasks'[b].runSaw
               PROVE  FALSE
    BY DEF OwnersDiffer
  <2>1. \A d \in DriveCalls : tasks'[d] = IF d = c THEN t ELSE tasks[d]
    BY DEF DriveInv
  <2>2. CASE a = c
    BY <2>1, <2>2, <1>4
  <2>3. CASE b = c
    BY <2>1, <2>3, <1>4
  <2>4. CASE a # c /\ b # c
    BY <2>1, <2>4 DEF DriveInv, OwnersDiffer
  <2> QED
    BY <2>2, <2>3, <2>4
<1> QED
  BY <1>1, <1>2, <1>3, <1>5 DEF DriveInv

\* A call that reads, or ends, leaves the records alone.
LEMMA CallReads ==
  ASSUME DriveInv, UNCHANGED <<entries, proposals, runs>>, NEW c \in DriveCalls, NEW t \in DriveTask,
         tasks' = [tasks EXCEPT ![c] = t], TaskHolds(t, entries, proposals, runs),
         begun' \in 0..MaxDriveCalls,
         t.pc \in {"generate", "propose"} =>
           /\ tasks[c].pc \in {"generate", "propose"}
           /\ t.run = tasks[c].run /\ t.runSaw = tasks[c].runSaw
  PROVE  DriveInv'
<1>1. StoreMoves
  BY StoreRests DEF DriveInv
<1>2. TaskHolds(t, entries', proposals', runs')
  OBVIOUS
<1>3. OneEntryPerPath' /\ RunsHold'
  BY DEF DriveInv, OneEntryPerPath, HasEntry, RunsHold, ActiveRuns
<1> QED
  BY <1>1, <1>2, <1>3, CallMoves

LEMMA NoCallHolds ==
  /\ NoCallState \in DriveTask
  /\ \A E, P, R : TaskHolds(NoCallState, E, P, R)
  /\ NoCallState.pc = "idle"
<1>1. NoCallState \in DriveTask
  <2>1. NoPath \in {NoPath} /\ DriveAssumption
    BY DriveAssumption
  <2>2. /\ 0 \in 0..MaxEntries /\ 0 \in 0..MaxRuns
    BY <2>1 DEF DriveAssumption
  <2> QED
    BY <2>1, <2>2 DEF NoCallState, DriveTask, CallStages, Collisions
<1>2. /\ NoCallState.pc = "idle" /\ NoCallState.op = "none" /\ NoCallState.verdict = "none"
      /\ NoCallState.ids = {}
  BY DEF NoCallState
<1>3. ASSUME NEW E, NEW P, NEW R PROVE TaskHolds(NoCallState, E, P, R)
  BY <1>2 DEF TaskHolds, CallHolds, LeaseHolds, ListHolds
<1> QED
  BY <1>1, <1>2, <1>3

\* The end of a call, whatever it did to the records.
LEMMA CallEnds ==
  ASSUME DriveInv, StoreMoves, NEW c \in DriveCalls, EndCall(c), begun' = begun,
         OneEntryPerPath', RunsHold'
  PROVE  DriveInv'
<1>1. tasks' = [tasks EXCEPT ![c] = NoCallState]
  BY DEF EndCall
<1>2. begun' \in 0..MaxDriveCalls
  BY DEF DriveInv
<1>3. TaskHolds(NoCallState, entries', proposals', runs') /\ NoCallState \in DriveTask
  BY NoCallHolds
<1>4. NoCallState.pc \notin {"generate", "propose"}
  BY NoCallHolds
<1> QED
  BY <1>1, <1>2, <1>3, <1>4, CallMoves

LEMMA CallEndsQuietly ==
  ASSUME DriveInv, UNCHANGED <<entries, proposals, runs, begun>>, NEW c \in DriveCalls, EndCall(c)
  PROVE  DriveInv'
<1>1. StoreMoves
  BY StoreRests DEF DriveInv
<1>2. OneEntryPerPath' /\ RunsHold'
  BY DEF DriveInv, OneEntryPerPath, HasEntry, RunsHold, ActiveRuns
<1> QED
  BY <1>1, <1>2, CallEnds

-----------------------------------------------------------------------------
(* The calls begin, and are decided.                                       *)

\* A call that is not yet organizing, nor going through a list.
LEMMA EarlyCall ==
  ASSUME NEW t, NEW E, NEW P, NEW R, CallHolds(t, P),
         t.pc \notin {"claim", "generate", "propose", "mark", "look", "commit"}
  PROVE  TaskHolds(t, E, P, R)
BY DEF TaskHolds, LeaseHolds, ListHolds

LEMMA CallBegins ==
  ASSUME DriveInv, NEW c \in DriveCalls, NEW t \in DriveTask, BeginDriveCall(c, t),
         CallHolds(t, proposals), t.pc \in {"ask", "read", "findRun"}
  PROVE  DriveInv'
<1>1. begun' \in 0..MaxDriveCalls
  BY DriveAssumption DEF DriveInv, BeginDriveCall, DriveAssumption
<1>2. TaskHolds(t, entries, proposals, runs)
  BY EarlyCall
<1>3. tasks' = [tasks EXCEPT ![c] = t] /\ UNCHANGED <<entries, proposals, runs>>
  BY DEF BeginDriveCall, StoreUnchanged
<1>4. t.pc \notin {"generate", "propose"}
  OBVIOUS
<1> QED
  BY <1>1, <1>2, <1>3, <1>4, CallReads

LEMMA PathTyped ==
  ASSUME NEW d \in Dirs
  PROVE  PathIn(d) \in DrivePaths
<1>1. <<>> \in Seq(Nat)
  OBVIOUS
<1> QED
  BY <1>1 DEF PathIn, DrivePaths

LEMMA BeginStep ==
  ASSUME DriveInv, NEW c \in DriveCalls,
         \/ \E d \in Dirs, h \in Contents, k \in Collisions, filed \in BOOLEAN : CallPut(c, d, h, k, filed)
         \/ \E e \in EntryIds, d \in Dirs, k \in Collisions : CallMove(c, e, d, k)
         \/ \E e \in EntryIds : CallTag(c, e)
         \/ \E apply \in BOOLEAN : CallOrganize(c, apply)
  PROVE  DriveInv'
<1>1. ASSUME NEW d \in Dirs, NEW h \in Contents, NEW k \in Collisions, NEW filed \in BOOLEAN,
             CallPut(c, d, h, k, filed)
      PROVE  DriveInv'
  <2>0. PICK pc \in {"ask", "read"} : pc = IF filed \/ k = "overwrite" THEN "ask" ELSE "read"
    OBVIOUS
  <2> DEFINE t == [NoCallState EXCEPT
        !.op = "put", !.path = PathIn(d), !.to = PathIn(d), !.hash = h,
        !.collision = k, !.auto = filed, !.pc = pc]
  <2>1. BeginDriveCall(c, t)
    BY <1>1, <2>0 DEF CallPut
  <2>2. t \in DriveTask
    BY NoCallHolds, PathTyped DEF DriveTask, CallStages
  <2>3. /\ t.op = "put" /\ t.path = PathIn(d) /\ t.to = PathIn(d) /\ t.hash = h
        /\ t.pc \in {"ask", "read"} /\ t.verdict = "none" /\ t.ids = {}
    BY DEF NoCallState
  <2>4. CallHolds(t, proposals)
    BY <2>3, PathTyped DEF CallHolds
  <2> QED
    BY <2>1, <2>2, <2>3, <2>4, CallBegins
<1>2. ASSUME NEW e \in EntryIds, NEW d \in Dirs, NEW k \in Collisions, CallMove(c, e, d, k)
      PROVE  DriveInv'
  <2> DEFINE t == [NoCallState EXCEPT
        !.op = "move", !.path = entries[e].path, !.to = PathIn(d), !.collision = k, !.pc = "ask"]
  <2>1. BeginDriveCall(c, t) /\ entries[e].path \in DrivePaths
    BY <1>2, EntryKinds DEF CallMove, DriveInv, DriveEntry
  <2>2. t \in DriveTask
    BY <2>1, NoCallHolds, PathTyped DEF DriveTask, CallStages
  <2>3. /\ t.op = "move" /\ t.path = entries[e].path /\ t.to = PathIn(d)
        /\ t.pc = "ask" /\ t.verdict = "none" /\ t.ids = {}
    BY DEF NoCallState
  <2>4. CallHolds(t, proposals)
    BY <2>1, <2>3, PathTyped DEF CallHolds
  <2> QED
    BY <2>1, <2>2, <2>3, <2>4, CallBegins
<1>3. ASSUME NEW e \in EntryIds, CallTag(c, e)
      PROVE  DriveInv'
  <2> DEFINE t == [NoCallState EXCEPT !.op = "tag", !.path = entries[e].path, !.pc = "ask"]
  <2>1. BeginDriveCall(c, t) /\ entries[e].path \in DrivePaths
    BY <1>3, EntryKinds DEF CallTag, DriveInv, DriveEntry
  <2>2. t \in DriveTask
    BY <2>1, NoCallHolds DEF DriveTask, CallStages
  <2>3. /\ t.op = "tag" /\ t.path = entries[e].path
        /\ t.pc = "ask" /\ t.verdict = "none" /\ t.ids = {}
    BY DEF NoCallState
  <2>4. CallHolds(t, proposals)
    BY <2>1, <2>3 DEF CallHolds
  <2> QED
    BY <2>1, <2>2, <2>3, <2>4, CallBegins
<1>4. ASSUME NEW apply \in BOOLEAN, CallOrganize(c, apply)
      PROVE  DriveInv'
  <2> DEFINE pending == {p \in ProposalIds : proposals[p].status \in Unsettled}
             go == apply /\ pending # {}
  <2>0. PICK op \in {"apply", "organize"}, ids \in {pending, {}}, pc \in {"ask", "findRun"} :
             /\ op = IF apply THEN "apply" ELSE "organize"
             /\ ids = IF go THEN pending ELSE {}
             /\ pc = IF go THEN "ask" ELSE "findRun"
    OBVIOUS
  <2> DEFINE t == [NoCallState EXCEPT !.op = op, !.ids = ids, !.pc = pc]
  <2>1. BeginDriveCall(c, t)
    BY <1>4, <2>0 DEF CallOrganize
  <2>2. t \in DriveTask
    BY NoCallHolds DEF DriveTask, CallStages
  <2>3. /\ t.op \in {"apply", "organize"} /\ t.ids \subseteq pending
        /\ t.pc \in {"ask", "findRun"} /\ t.verdict = "none"
    BY DEF NoCallState
  <2>4. \A p \in pending : proposals[p] # NoProposal
    BY EmptyRecords DEF Unsettled
  <2>5. CallHolds(t, proposals)
    BY <2>3, <2>4 DEF CallHolds
  <2> QED
    BY <2>1, <2>2, <2>3, <2>5, CallBegins
<1> QED
  BY <1>1, <1>2, <1>3, <1>4

\* A call's own fields change: the record of calls changes at that call.
LEMMA OneTaskMoves ==
  ASSUME DriveInv, NEW c \in DriveCalls
  PROVE  /\ tasks[c] \in DriveTask /\ TaskHolds(tasks[c], entries, proposals, runs)
         /\ \A pc : Goto(c, pc) => tasks' = [tasks EXCEPT ![c] = [tasks[c] EXCEPT !.pc = pc]]
BY DEF DriveInv, Goto

LEMMA DecideStep ==
  ASSUME DriveInv, NEW c \in DriveCalls, NEW v \in {"approved", "denied", "failed"}, Decide(c, v)
  PROVE  DriveInv'
<1> USE DEF Decide, StoreUnchanged
<1>1. UNCHANGED <<entries, proposals, runs, begun>> /\ tasks[c].pc = "ask"
  BY DEF InCall
<1>2. tasks[c] \in DriveTask /\ CallHolds(tasks[c], proposals) /\ begun' \in 0..MaxDriveCalls
  BY <1>1 DEF DriveInv, TaskHolds
<1>3. CASE v = "approved"
  <2> DEFINE t == [tasks[c] EXCEPT !.pc = IF tasks[c].op = "apply" THEN "list" ELSE "read"]
  <2>1. tasks' = [tasks EXCEPT ![c] = t]
    BY <1>3, OneTaskMoves
  <2>2. t \in DriveTask
    BY <1>2 DEF DriveTask, CallStages
  <2>3. /\ t.op = tasks[c].op /\ t.path = tasks[c].path /\ t.to = tasks[c].to /\ t.hash = tasks[c].hash
        /\ t.verdict = tasks[c].verdict /\ t.ids = tasks[c].ids /\ t.pc \in {"list", "read"}
    BY <1>2 DEF DriveTask
  <2>4. CallHolds(t, proposals)
    BY <1>1, <1>2, <2>3 DEF CallHolds
  <2>5. TaskHolds(t, entries, proposals, runs)
    BY <2>3, <2>4, EarlyCall
  <2> HIDE DEF t
  <2> QED
    BY <1>1, <1>2, <2>1, <2>2, <2>3, <2>5, CallReads
<1>4. CASE v # "approved" /\ tasks[c].op = "apply"
  <2> DEFINE t == [tasks[c] EXCEPT !.pc = "list", !.verdict = v]
  <2>1. tasks' = [tasks EXCEPT ![c] = t]
    BY <1>4 DEF DriveInv
  <2>2. t \in DriveTask
    BY <1>2, <1>4 DEF DriveTask, CallStages, Settled
  <2>3. /\ t.op = tasks[c].op /\ t.path = tasks[c].path /\ t.to = tasks[c].to /\ t.hash = tasks[c].hash
        /\ t.verdict = v /\ t.ids = tasks[c].ids /\ t.pc = "list"
    BY <1>2 DEF DriveTask
  <2>4. CallHolds(t, proposals)
    BY <1>1, <1>2, <2>3 DEF CallHolds
  <2>5. TaskHolds(t, entries, proposals, runs)
    BY <2>3, <2>4, EarlyCall
  <2> HIDE DEF t
  <2> QED
    BY <1>1, <1>2, <2>1, <2>2, <2>3, <2>5, CallReads
<1>5. CASE EndCall(c)
  BY <1>1, <1>5, CallEndsQuietly
<1> QED
  BY <1>3, <1>4, <1>5

-----------------------------------------------------------------------------
(* A put, a move and a tag: reads, then one versioned write.               *)

LEMMA EarlyReads ==
  ASSUME DriveInv, UNCHANGED <<entries, proposals, runs, begun>>, NEW c \in DriveCalls,
         NEW t \in DriveTask, tasks' = [tasks EXCEPT ![c] = t], CallHolds(t, proposals),
         t.pc \notin {"claim", "generate", "propose", "mark", "look", "commit"}
  PROVE  DriveInv'
<1>1. begun' \in 0..MaxDriveCalls
  BY DEF DriveInv
<1>2. TaskHolds(t, entries, proposals, runs)
  BY EarlyCall
<1>3. t.pc \notin {"generate", "propose"}
  OBVIOUS
<1> QED
  BY <1>1, <1>2, <1>3, CallReads

LEMMA ReadForPutStep ==
  ASSUME DriveInv, NEW c \in DriveCalls, NEW dedupe \in BOOLEAN, ReadForPut(c, dedupe)
  PROVE  DriveInv'
<1> DEFINE m == tasks[c]
           at == IdAt(m.path)
           e == CHOOSE x \in at : TRUE
           stored == dedupe /\ entries[e].hash = m.hash
<1>1. UNCHANGED <<entries, proposals, runs, begun>> /\ m.pc = "read" /\ m.op = "put"
  BY DEF ReadForPut, InCall, StoreUnchanged
<1>2. m \in DriveTask /\ CallHolds(m, proposals)
  BY DEF DriveInv, TaskHolds
<1>3. /\ m.path \in DrivePaths /\ m.to \in DrivePaths /\ m.hash \in Contents /\ m.verdict = "none"
      /\ \A p \in m.ids : proposals[p] # NoProposal
  BY <1>1, <1>2 DEF CallHolds
<1>4. UniquePath(m.path) \in DrivePaths
  BY <1>3, UniquePathTyped DEF DriveInv
<1>5. CASE Goto(c, "insert")
  <2> DEFINE t == [m EXCEPT !.pc = "insert"]
  <2>1. tasks' = [tasks EXCEPT ![c] = t]
    BY <1>5, OneTaskMoves
  <2>2. t \in DriveTask
    BY <1>2 DEF DriveTask, CallStages
  <2>3. /\ t.op = "put" /\ t.path = m.path /\ t.to = m.to /\ t.hash = m.hash
        /\ t.verdict = m.verdict /\ t.ids = m.ids /\ t.pc = "insert"
    BY <1>1, <1>2 DEF DriveTask
  <2>4. CallHolds(t, proposals)
    BY <1>3, <2>3 DEF CallHolds
  <2> HIDE DEF t
  <2> QED
    BY <1>1, <2>1, <2>2, <2>3, <2>4, EarlyReads
<1>6. CASE EndCall(c)
  BY <1>1, <1>6, CallEndsQuietly
<1>7. CASE /\ at # {}
           /\ tasks' = [tasks EXCEPT ![c].pc = "swap", ![c].id = e, ![c].saw = entries[e].ver]
  <2>0. PICK x \in EntryIds : x = e
    BY <1>7 DEF IdAt
  <2> DEFINE t == [m EXCEPT !.pc = "swap", !.id = x, !.saw = entries[x].ver]
  <2>1. tasks' = [tasks EXCEPT ![c] = t]
    BY <1>7, <2>0 DEF DriveInv
  <2>2. entries[x].ver \in Nat /\ x \in 0..MaxEntries
    BY <2>0, EntryKinds DEF DriveInv, EntryIds
  <2>3. t \in DriveTask
    BY <1>2, <2>2 DEF DriveTask, CallStages
  <2>4. /\ t.op = "put" /\ t.path = m.path /\ t.to = m.to /\ t.hash = m.hash
        /\ t.verdict = m.verdict /\ t.ids = m.ids /\ t.pc = "swap" /\ t.id = x
    BY <1>1, <1>2 DEF DriveTask
  <2>5. CallHolds(t, proposals)
    BY <1>3, <2>0, <2>4 DEF CallHolds
  <2> HIDE DEF t
  <2> QED
    BY <1>1, <2>1, <2>3, <2>4, <2>5, EarlyReads
<1>8. CASE tasks' = [tasks EXCEPT ![c].pc = "insert", ![c].path = UniquePath(tasks[c].path)]
  <2> DEFINE t == [m EXCEPT !.pc = "insert", !.path = UniquePath(m.path)]
  <2>1. tasks' = [tasks EXCEPT ![c] = t]
    BY <1>8 DEF DriveInv
  <2>2. t \in DriveTask
    BY <1>2, <1>4 DEF DriveTask, CallStages
  <2>3. /\ t.op = "put" /\ t.path = UniquePath(m.path) /\ t.to = m.to /\ t.hash = m.hash
        /\ t.verdict = m.verdict /\ t.ids = m.ids /\ t.pc = "insert"
    BY <1>1, <1>2 DEF DriveTask
  <2>4. CallHolds(t, proposals)
    BY <1>3, <1>4, <2>3 DEF CallHolds
  <2> HIDE DEF t
  <2> QED
    BY <1>1, <2>1, <2>2, <2>3, <2>4, EarlyReads
<1>9. CASE at = {}
  BY <1>5, <1>9 DEF ReadForPut
<1>10. CASE at # {}
  <2>1. \/ EndCall(c)
        \/ tasks' = [tasks EXCEPT ![c].pc = "swap", ![c].id = e, ![c].saw = entries[e].ver]
        \/ tasks' = [tasks EXCEPT ![c].pc = "insert", ![c].path = UniquePath(tasks[c].path)]
    <3>1. CASE stored
      BY <1>10, <3>1 DEF ReadForPut
    <3>2. CASE ~stored /\ m.collision = "overwrite"
      BY <1>10, <3>2 DEF ReadForPut
    <3>3. CASE ~stored /\ m.collision = "reject"
      BY <1>10, <3>3 DEF ReadForPut
    <3>4. CASE ~stored /\ m.collision \notin {"overwrite", "reject"}
      BY <1>10, <3>4 DEF ReadForPut
    <3> QED
      BY <3>1, <3>2, <3>3, <3>4
  <2> QED
    BY <1>6, <1>7, <1>8, <1>10, <2>1
<1> QED
  BY <1>9, <1>10

LEMMA ReadForTagStep ==
  ASSUME DriveInv, NEW c \in DriveCalls, ReadForTag(c)
  PROVE  DriveInv'
<1> DEFINE m == tasks[c]
           at == IdAt(m.path)
           e == CHOOSE x \in at : TRUE
<1>1. UNCHANGED <<entries, proposals, runs, begun>> /\ m.pc = "read" /\ m.op = "tag"
  BY DEF ReadForTag, InCall, StoreUnchanged
<1>2. m \in DriveTask /\ CallHolds(m, proposals)
  BY DEF DriveInv, TaskHolds
<1>3. CASE at = {}
  BY <1>1, <1>3, CallEndsQuietly DEF ReadForTag
<1>4. CASE at # {}
  <2>0. PICK x \in EntryIds : x = e
    BY <1>4 DEF IdAt
  <2> DEFINE t == [m EXCEPT !.pc = "swap", !.id = x, !.saw = entries[x].ver]
  <2>1. tasks' = [tasks EXCEPT ![c] = t]
    BY <1>4, <2>0 DEF DriveInv, ReadForTag
  <2>2. entries[x].ver \in Nat /\ x \in 0..MaxEntries
    BY <2>0, EntryKinds DEF DriveInv, EntryIds
  <2>3. t \in DriveTask
    BY <1>2, <2>2 DEF DriveTask, CallStages
  <2>4. /\ t.op = "tag" /\ t.path = m.path /\ t.to = m.to /\ t.hash = m.hash
        /\ t.verdict = m.verdict /\ t.ids = m.ids /\ t.pc = "swap" /\ t.id = x
    BY <1>1, <1>2 DEF DriveTask
  <2>5. CallHolds(t, proposals)
    BY <1>1, <1>2, <2>0, <2>4 DEF CallHolds
  <2> HIDE DEF t
  <2> QED
    BY <1>1, <2>1, <2>3, <2>4, <2>5, EarlyReads
<1> QED
  BY <1>3, <1>4

LEMMA ReadForMoveStep ==
  ASSUME DriveInv, NEW c \in DriveCalls, ReadForMove(c)
  PROVE  DriveInv'
<1> DEFINE m == tasks[c]
           source == IdAt(m.path)
           s == CHOOSE x \in source : TRUE
           other == IdAt(m.to) \ {s}
           o == CHOOSE x \in other : TRUE
           found == [m EXCEPT !.pc = "commitMove", !.id = s, !.saw = entries[s].ver]
<1>1. UNCHANGED <<entries, proposals, runs, begun>> /\ m.pc = "read" /\ m.op = "move"
  BY DEF ReadForMove, InCall, StoreUnchanged
<1>2. m \in DriveTask /\ CallHolds(m, proposals)
  BY DEF DriveInv, TaskHolds
<1>3. UniquePath(m.to) \in DrivePaths
  BY <1>1, <1>2, UniquePathTyped DEF DriveInv, CallHolds
<1>4. \/ EndCall(c)
      \/ source # {} /\ tasks' = [tasks EXCEPT ![c] = found]
      \/ source # {} /\ other # {} /\ tasks' = [tasks EXCEPT ![c] = [found EXCEPT
              !.victim = o, !.victimSaw = entries[o].ver]]
      \/ source # {} /\ tasks' = [tasks EXCEPT ![c] = [found EXCEPT !.to = UniquePath(m.to)]]
  <2> HIDE DEF found, o, s
  <2>1. CASE source = {}
    BY <2>1 DEF ReadForMove, found, o, s
  <2>2. CASE source # {} /\ other = {}
    BY <2>2 DEF ReadForMove, found, o, s
  <2>3. CASE source # {} /\ other # {} /\ m.collision = "reject"
    BY <2>3 DEF ReadForMove, found, o, s
  <2>4. CASE source # {} /\ other # {} /\ m.collision = "overwrite"
    BY <2>4 DEF ReadForMove, found, o, s
  <2>5. CASE source # {} /\ other # {} /\ m.collision \notin {"reject", "overwrite"}
    BY <2>5 DEF ReadForMove, found, o, s
  <2> QED
    BY <2>1, <2>2, <2>3, <2>4, <2>5
<1>5. CASE EndCall(c)
  BY <1>1, <1>5, CallEndsQuietly
<1>6. ASSUME NEW to \in DrivePaths, NEW v \in 0..MaxEntries, NEW w \in Nat, source # {},
             tasks' = [tasks EXCEPT ![c] = [m EXCEPT !.pc = "commitMove", !.id = s, !.saw = entries[s].ver,
                                                     !.to = to, !.victim = v, !.victimSaw = w]]
      PROVE  DriveInv'
  <2>0. PICK x \in EntryIds : x = s
    BY <1>6 DEF IdAt
  <2> DEFINE t == [m EXCEPT !.pc = "commitMove", !.id = x, !.saw = entries[x].ver,
                            !.to = to, !.victim = v, !.victimSaw = w]
  <2>1. tasks' = [tasks EXCEPT ![c] = t]
    BY <1>6, <2>0
  <2>2. entries[x].ver \in Nat /\ x \in 0..MaxEntries
    BY <2>0, EntryKinds DEF DriveInv, EntryIds
  <2>3. t \in DriveTask
    BY <1>2, <2>2 DEF DriveTask, CallStages
  <2>4. /\ t.op = "move" /\ t.path = m.path /\ t.to = to /\ t.hash = m.hash
        /\ t.verdict = m.verdict /\ t.ids = m.ids /\ t.pc = "commitMove" /\ t.id = x
    BY <1>1, <1>2 DEF DriveTask
  <2>5. CallHolds(t, proposals)
    BY <1>1, <1>2, <2>0, <2>4 DEF CallHolds
  <2> HIDE DEF t
  <2> QED
    BY <1>1, <2>1, <2>3, <2>4, <2>5, EarlyReads
<1>7. /\ m.to \in DrivePaths /\ m.victim \in 0..MaxEntries /\ m.victimSaw \in Nat
  BY <1>1, <1>2 DEF CallHolds, DriveTask
<1> HIDE DEF s, o
<1>8. CASE source # {} /\ tasks' = [tasks EXCEPT ![c] = found]
  <2>0. PICK to \in DrivePaths, v \in 0..MaxEntries, w \in Nat :
             to = m.to /\ v = m.victim /\ w = m.victimSaw
    BY <1>7
  <2> DEFINE g == [m EXCEPT !.pc = "commitMove", !.id = s, !.saw = entries[s].ver,
                            !.to = to, !.victim = v, !.victimSaw = w]
  <2>1. found = g
    BY <1>2, <2>0 DEF DriveTask
  <2>2. tasks' = [tasks EXCEPT ![c] = g]
    BY <1>8, <2>1, Zenon
  <2> QED
    BY <1>6, <1>8, <2>2
<1>9. CASE source # {} /\ other # {} /\ tasks' = [tasks EXCEPT ![c] = [found EXCEPT
              !.victim = o, !.victimSaw = entries[o].ver]]
  <2>1. o \in EntryIds
    BY <1>9 DEF o, IdAt
  <2>2. o \in 0..MaxEntries /\ entries[o].ver \in Nat
    BY <2>1, EntryKinds DEF DriveInv, EntryIds
  <2>3. [found EXCEPT !.victim = o, !.victimSaw = entries[o].ver]
          = [m EXCEPT !.pc = "commitMove", !.id = s, !.saw = entries[s].ver,
                      !.to = m.to, !.victim = o, !.victimSaw = entries[o].ver]
    BY <1>2 DEF DriveTask
  <2> QED
    BY <1>6, <1>7, <1>9, <2>2, <2>3
<1>10. CASE source # {} /\ tasks' = [tasks EXCEPT ![c] = [found EXCEPT !.to = UniquePath(m.to)]]
  <2>1. [found EXCEPT !.to = UniquePath(m.to)]
          = [m EXCEPT !.pc = "commitMove", !.id = s, !.saw = entries[s].ver,
                      !.to = UniquePath(m.to), !.victim = m.victim, !.victimSaw = m.victimSaw]
    BY <1>2 DEF DriveTask
  <2> QED
    BY <1>3, <1>6, <1>7, <1>10, <2>1
<1> QED
  BY <1>4, <1>5, <1>8, <1>9, <1>10

\* One document is written; the others keep their place or are gone.
LEMMA PathsStay ==
  ASSUME OneEntryPerPath, NEW n \in EntryIds,
         \A e \in EntryIds \ {n} : entries'[e].ver > 0 =>
            HasEntry(e) /\ entries'[e].path = entries[e].path /\ entries'[e].path # entries'[n].path
  PROVE  OneEntryPerPath'
BY DEF OneEntryPerPath, HasEntry

LEMMA InsertEntryStep ==
  ASSUME DriveInv, NEW c \in DriveCalls, InsertEntry(c)
  PROVE  DriveInv'
<1> DEFINE m == tasks[c]
           n == Min(FreeEntry)
<1>1. UNCHANGED <<proposals, runs, begun>> /\ m.pc = "insert"
  BY DEF InsertEntry, InCall
<1>2. m \in DriveTask /\ CallHolds(m, proposals) /\ StoreTyped
  BY DEF DriveInv, TaskHolds
<1>3. /\ m.op = "put" /\ m.path \in DrivePaths /\ m.to \in DrivePaths /\ m.hash \in Contents
      /\ m.verdict = "none" /\ \A p \in m.ids : proposals[p] # NoProposal
  BY <1>1, <1>2 DEF CallHolds
<1>4. CASE PathFree(m.path)
  <2>1. FreeEntry # {} /\ FreeEntry \subseteq Nat
    BY <1>4 DEF InsertEntry, FreeEntry, EntryIds
  <2>2. n \in EntryIds /\ entries[n] = NoEntry
    BY <2>1, MinHolds DEF FreeEntry
  <2> HIDE DEF n
  <2> DEFINE new == [path |-> m.path, hash |-> m.hash, ver |-> 1]
  <2>3. entries' = [entries EXCEPT ![n] = new] /\ new \in DriveEntry
    BY <1>3, <1>4 DEF InsertEntry, n, DriveEntry
  <2>4. StoreMoves
    <3>1. entries' \in [EntryIds -> DriveEntry \cup {NoEntry, GoneEntry}] /\ EntriesMove
      BY <1>2, <2>2, <2>3 DEF StoreTyped, EntriesMove
    <3> QED
      BY <1>1, <1>2, <3>1 DEF StoreMoves, StoreTyped, ProposalsMove, RunsMove
  <2>5. OneEntryPerPath' /\ RunsHold'
    <3>1. ASSUME NEW e \in EntryIds \ {n}, entries'[e].ver > 0
          PROVE  HasEntry(e) /\ entries'[e].path = entries[e].path /\ entries'[e].path # entries'[n].path
      <4>1. entries'[e] = entries[e] /\ entries'[n].path = m.path
        BY <1>2, <2>2, <2>3 DEF StoreTyped
      <4> QED
        BY <3>1, <4>1, <1>4 DEF PathFree, IdAt, HasEntry
    <3>2. OneEntryPerPath'
      BY <2>2, <3>1, PathsStay DEF DriveInv
    <3> QED
      BY <1>1, <3>2 DEF DriveInv, RunsHold, ActiveRuns
  <2>6. CASE m.auto
    <3> DEFINE t == [m EXCEPT !.pc = "offer", !.id = n]
    <3>1. tasks' = [tasks EXCEPT ![c] = t]
      BY <1>4, <2>6 DEF InsertEntry, n, DriveInv
    <3>0. n \in 0..MaxEntries
      BY <2>2 DEF EntryIds
    <3>2. t \in DriveTask
      BY <1>2, <3>0 DEF DriveTask, CallStages
    <3>3. /\ t.op = "put" /\ t.path = m.path /\ t.to = m.to /\ t.hash = m.hash
          /\ t.verdict = m.verdict /\ t.ids = m.ids /\ t.pc = "offer" /\ t.id = n
      BY <1>2, <1>3 DEF DriveTask
    <3>4. CallHolds(t, proposals')
      BY <1>1, <1>3, <2>2, <3>3 DEF CallHolds
    <3>5. TaskHolds(t, entries', proposals', runs')
      BY <3>3, <3>4, EarlyCall
    <3>6. begun' \in 0..MaxDriveCalls /\ t.pc \notin {"generate", "propose"}
      BY <1>1, <3>3 DEF DriveInv
    <3> HIDE DEF t
    <3> QED
      BY <2>4, <2>5, <3>1, <3>2, <3>5, <3>6, CallMoves
  <2>7. CASE ~m.auto
    BY <1>1, <1>4, <2>4, <2>5, <2>7, CallEnds DEF InsertEntry
  <2> QED
    BY <2>6, <2>7
<1>5. CASE ~PathFree(m.path)
  <2>1. entries' = entries
    BY <1>5 DEF InsertEntry
  <2>2. CASE m.collision = "keep-both"
    <3> DEFINE t == [m EXCEPT !.path = UniquePath(m.path)]
    <3>0. UniquePath(m.path) \in DrivePaths
      BY <1>2, <1>3, UniquePathTyped
    <3>1. tasks' = [tasks EXCEPT ![c] = t]
      BY <1>5, <2>2 DEF InsertEntry, DriveInv
    <3>2. t \in DriveTask
      BY <1>2, <3>0 DEF DriveTask
    <3>3. /\ t.op = "put" /\ t.path = UniquePath(m.path) /\ t.to = m.to /\ t.hash = m.hash
          /\ t.verdict = m.verdict /\ t.ids = m.ids /\ t.pc = "insert"
      BY <1>1, <1>2, <1>3 DEF DriveTask
    <3>4. CallHolds(t, proposals)
      BY <1>3, <3>0, <3>3 DEF CallHolds
    <3> HIDE DEF t
    <3> QED
      BY <1>1, <2>1, <3>1, <3>2, <3>3, <3>4, EarlyReads
  <2>3. CASE m.collision # "keep-both"
    BY <1>1, <1>5, <2>1, <2>3, CallEndsQuietly DEF InsertEntry
  <2> QED
    BY <2>2, <2>3
<1> QED
  BY <1>4, <1>5

\* A proposal's id is taken once.
LEMMA NewProposal ==
  ASSUME StoreTyped, FreeProposal # {}
  PROVE  Min(FreeProposal) \in ProposalIds /\ proposals[Min(FreeProposal)] = NoProposal
<1>1. FreeProposal \subseteq Nat
  BY DEF FreeProposal, ProposalIds
<1> QED
  BY <1>1, MinHolds DEF FreeProposal

LEMMA ProposalPut ==
  ASSUME StoreTyped, UNCHANGED <<entries, runs>>, NEW p \in ProposalIds, NEW q \in DriveProposal,
         proposals' = [proposals EXCEPT ![p] = q], q.ver = proposals[p].ver + 1
  PROVE  StoreMoves
<1>1. proposals' \in [ProposalIds -> DriveProposal \cup {NoProposal}] /\ ProposalsMove
  BY DEF StoreTyped, ProposalsMove
<1> QED
  BY <1>1 DEF StoreMoves, StoreTyped, EntriesMove, RunsMove

\* What a swap and a move make of an entry.
LEMMA EntryRewritten ==
  ASSUME NEW x \in DriveEntry, NEW h \in Contents, NEW to \in DrivePaths
  PROVE  /\ [x EXCEPT !.hash = h, !.ver = @ + 1] \in DriveEntry
         /\ [x EXCEPT !.hash = h, !.ver = @ + 1].path = x.path
         /\ [x EXCEPT !.hash = h, !.ver = @ + 1].hash = h
         /\ [x EXCEPT !.hash = h, !.ver = @ + 1].ver = x.ver + 1
         /\ [x EXCEPT !.path = to, !.ver = @ + 1] \in DriveEntry
         /\ [x EXCEPT !.path = to, !.ver = @ + 1].path = to
         /\ [x EXCEPT !.path = to, !.ver = @ + 1].hash = x.hash
         /\ [x EXCEPT !.path = to, !.ver = @ + 1].ver = x.ver + 1
<1>1. x.ver + 1 \in Nat \ {0}
  BY DEF DriveEntry
<1> QED
  BY <1>1 DEF DriveEntry

LEMMA OfferProposalStep ==
  ASSUME DriveInv, NEW c \in DriveCalls, OfferProposal(c)
  PROVE  DriveInv'
<1> DEFINE m == tasks[c]
           p == Min(FreeProposal)
           q == [status |-> "pending", entry |-> m.id, from |-> m.path, to |-> m.to,
                 hash |-> "none", ver |-> 1, run |-> 0]
<1>1. UNCHANGED <<entries, runs, begun>> /\ m.pc = "offer" /\ FreeProposal # {} /\ EndCall(c)
  BY DEF OfferProposal, InCall
<1>2. m \in DriveTask /\ CallHolds(m, proposals) /\ StoreTyped
  BY DEF DriveInv, TaskHolds
<1>3. m.path \in DrivePaths /\ m.to \in DrivePaths /\ m.id \in EntryIds
  BY <1>1, <1>2 DEF CallHolds
<1>4. p \in ProposalIds /\ proposals[p] = NoProposal
  BY <1>1, <1>2, NewProposal
<1>5. 0 \in 0..MaxRuns
  BY DriveAssumption DEF DriveAssumption
<1>6. q \in DriveProposal
  BY <1>3, <1>5 DEF DriveProposal, Unsettled
<1>7. q.ver = proposals[p].ver + 1
  BY <1>4, EmptyRecords
<1>8. proposals' = [proposals EXCEPT ![p] = q]
  BY DEF OfferProposal
<1>9. StoreMoves
  BY <1>1, <1>2, <1>4, <1>6, <1>7, <1>8, ProposalPut
<1>10. OneEntryPerPath' /\ RunsHold'
  BY <1>1 DEF DriveInv, OneEntryPerPath, HasEntry, RunsHold, ActiveRuns
<1> QED
  BY <1>1, <1>9, <1>10, CallEnds

\* A document is written over the version read, and stays where it is.
LEMMA SwapEntryStep ==
  ASSUME DriveInv, NEW c \in DriveCalls, SwapEntry(c)
  PROVE  DriveInv'
<1> DEFINE m == tasks[c]
<1>1. UNCHANGED <<proposals, runs, begun>> /\ m.pc = "swap" /\ EndCall(c)
  BY DEF SwapEntry, InCall
<1>2. m \in DriveTask /\ CallHolds(m, proposals) /\ StoreTyped
  BY DEF DriveInv, TaskHolds
<1>3. PICK x \in EntryIds : x = m.id
  BY <1>1, <1>2 DEF CallHolds
<1>4. m.op = "put" => m.hash \in Contents
  BY <1>2 DEF CallHolds
<1>5. CASE SwapFits(c)
  <2>1. HasEntry(x) /\ entries[x] \in DriveEntry
    BY <1>2, <1>3, <1>5, EntryKinds DEF SwapFits
  <2>2. PICK h \in Contents : h = IF m.op = "put" THEN m.hash ELSE entries[x].hash
    BY <1>4, <2>1 DEF DriveEntry
  <2> DEFINE new == [entries[x] EXCEPT !.hash = h, !.ver = @ + 1]
  <2>3. entries' = [entries EXCEPT ![x] = new]
    BY <1>2, <1>3, <1>5, <2>2 DEF SwapEntry, StoreTyped
  <2>4. new \in DriveEntry /\ new.path = entries[x].path /\ new.ver = entries[x].ver + 1
    <3>1. PICK to \in DrivePaths : to = entries[x].path
      BY <2>1 DEF DriveEntry
    <3> QED
      BY <2>1, <3>1, EntryRewritten
  <2> HIDE DEF new
  <2>5. entries' \in [EntryIds -> DriveEntry \cup {NoEntry, GoneEntry}] /\ EntriesMove
    BY <1>2, <2>1, <2>3, <2>4 DEF StoreTyped, EntriesMove
  <2>6. StoreMoves
    BY <1>1, <1>2, <2>5 DEF StoreMoves, StoreTyped, ProposalsMove, RunsMove
  <2>7. \A e \in EntryIds : /\ entries'[e].path = entries[e].path
                            /\ entries'[e].ver > 0 => HasEntry(e)
    BY <1>2, <2>1, <2>3, <2>4 DEF StoreTyped, HasEntry
  <2>8. OneEntryPerPath'
    BY <2>7 DEF DriveInv, OneEntryPerPath, HasEntry
  <2>9. RunsHold'
    BY <1>1 DEF DriveInv, RunsHold, ActiveRuns
  <2> QED
    BY <1>1, <2>6, <2>8, <2>9, CallEnds
<1>6. CASE ~SwapFits(c)
  BY <1>1, <1>6, CallEndsQuietly DEF SwapEntry
<1> QED
  BY <1>5, <1>6

LEMMA CommitMoveStep ==
  ASSUME DriveInv, NEW c \in DriveCalls, CommitMove(c)
  PROVE  DriveInv'
<1> DEFINE m == tasks[c]
<1>1. UNCHANGED <<proposals, runs, begun>> /\ m.pc = "commitMove" /\ EndCall(c)
  BY DEF CommitMove, InCall
<1>2. m \in DriveTask /\ CallHolds(m, proposals) /\ StoreTyped
  BY DEF DriveInv, TaskHolds
<1>3. m.id \in EntryIds /\ m.to \in DrivePaths
  BY <1>1, <1>2 DEF CallHolds
<1>4. CASE MoveFits(c)
  <2>1. PICK x \in EntryIds : x = m.id
    BY <1>3
  <2>2. /\ HasEntry(x) /\ entries[x] \in DriveEntry
        /\ \A e \in EntryIds : e = m.victim => HasEntry(e)
        /\ IdAt(m.to) \subseteq {x, m.victim}
    BY <1>2, <1>4, <2>1, EntryKinds DEF MoveFits, EntryIds
  <2> DEFINE new == [entries[x] EXCEPT !.path = m.to, !.ver = @ + 1]
  <2>3. \A e \in EntryIds : entries'[e] = IF e = x THEN new ELSE IF e = m.victim THEN GoneEntry ELSE entries[e]
    BY <1>4, <2>1 DEF CommitMove
  <2>4. new \in DriveEntry /\ new.path = m.to /\ new.ver = entries[x].ver + 1
    <3>1. PICK h \in Contents : h = entries[x].hash
      BY <2>2 DEF DriveEntry
    <3> QED
      BY <1>3, <2>2, <3>1, EntryRewritten
  <2>5. entries' = [e \in EntryIds |-> entries'[e]]
    BY <1>4 DEF CommitMove
  <2> HIDE DEF new
  <2>6. \A e \in EntryIds : entries'[e] \in DriveEntry \cup {NoEntry, GoneEntry}
    BY <1>2, <2>3, <2>4 DEF StoreTyped
  <2>7. entries' \in [EntryIds -> DriveEntry \cup {NoEntry, GoneEntry}]
    BY <2>5, <2>6
  <2>8. EntriesMove
    BY <2>2, <2>3, <2>4 DEF EntriesMove
  <2>9. StoreMoves
    BY <1>1, <1>2, <2>7, <2>8 DEF StoreMoves, StoreTyped, ProposalsMove, RunsMove
  <2>10. ASSUME NEW e \in EntryIds \ {x}, entries'[e].ver > 0
         PROVE  HasEntry(e) /\ entries'[e].path = entries[e].path /\ entries'[e].path # entries'[x].path
    <3>1. e # m.victim
      BY <2>3, <2>10, EmptyRecords
    <3>2. entries'[e] = entries[e] /\ entries'[x].path = m.to
      BY <2>3, <2>4, <3>1
    <3> QED
      BY <2>2, <2>10, <3>1, <3>2 DEF IdAt, HasEntry
  <2>11. OneEntryPerPath'
    BY <2>10, PathsStay DEF DriveInv
  <2>12. RunsHold'
    BY <1>1 DEF DriveInv, RunsHold, ActiveRuns
  <2> QED
    BY <1>1, <2>9, <2>11, <2>12, CallEnds
<1>5. CASE ~MoveFits(c)
  BY <1>1, <1>5, CallEndsQuietly DEF CommitMove
<1> QED
  BY <1>4, <1>5

-----------------------------------------------------------------------------
(* The organizer: one run at a time, claimed by one call at a time.        *)

LEMMA FindRunStep ==
  ASSUME DriveInv, NEW c \in DriveCalls, FindRun(c)
  PROVE  DriveInv'
<1> DEFINE m == tasks[c]
           r == Min(ActiveRuns)
<1>1. UNCHANGED <<entries, proposals, runs, begun>> /\ m.pc = "findRun"
  BY DEF FindRun, InCall, StoreUnchanged
<1>2. m \in DriveTask /\ CallHolds(m, proposals) /\ StoreTyped /\ begun' \in 0..MaxDriveCalls
  BY <1>1 DEF DriveInv, TaskHolds
<1>3. CASE ActiveRuns = {}
  <2> DEFINE t == [m EXCEPT !.pc = "insertRun"]
  <2>1. tasks' = [tasks EXCEPT ![c] = t]
    BY <1>3, OneTaskMoves DEF FindRun
  <2>2. t \in DriveTask
    BY <1>2 DEF DriveTask, CallStages
  <2>3. /\ t.op = m.op /\ t.path = m.path /\ t.to = m.to /\ t.hash = m.hash
        /\ t.verdict = m.verdict /\ t.ids = m.ids /\ t.pc = "insertRun"
    BY <1>2 DEF DriveTask
  <2>4. CallHolds(t, proposals)
    BY <1>1, <1>2, <2>3 DEF CallHolds
  <2> HIDE DEF t
  <2> QED
    BY <1>1, <2>1, <2>2, <2>3, <2>4, EarlyReads
<1>4. CASE ActiveRuns # {} /\ LeaseHeld(r)
  BY <1>1, <1>4, CallEndsQuietly DEF FindRun
<1>5. CASE ActiveRuns # {} /\ ~LeaseHeld(r)
  <2>1. ActiveRuns \subseteq Nat
    BY DEF ActiveRuns, RunIds
  <2>2. r \in ActiveRuns
    BY <1>5, <2>1, MinHolds
  <2>3. PICK x \in RunIds : x = r /\ runs[x].status \in {"queued", "running"}
    BY <2>2 DEF ActiveRuns
  <2>4. ~runs[x].fresh
    BY <1>5, <2>3 DEF LeaseHeld, DriveInv, RunsHold
  <2>5. x \in 0..MaxRuns /\ runs[x].ver \in Nat
    BY <1>2, <2>3, EmptyRecords DEF StoreTyped, OrganizerRun, RunIds
  <2> DEFINE t == [m EXCEPT !.pc = "claim", !.run = x, !.runSaw = runs[x].ver]
  <2>6. tasks' = [tasks EXCEPT ![c] = t]
    BY <1>5, <2>3 DEF FindRun, DriveInv
  <2>7. t \in DriveTask
    BY <1>2, <2>5 DEF DriveTask, CallStages
  <2>8. /\ t.op = m.op /\ t.path = m.path /\ t.to = m.to /\ t.hash = m.hash
        /\ t.verdict = m.verdict /\ t.ids = m.ids /\ t.pc = "claim"
        /\ t.run = x /\ t.runSaw = runs[x].ver
    BY <1>2 DEF DriveTask
  <2> HIDE DEF t
  <2>9. CallHolds(t, proposals)
    BY <1>1, <1>2, <2>8 DEF CallHolds
  <2>10. LeaseHolds(t, runs)
    BY <2>3, <2>4, <2>5, <2>8 DEF LeaseHolds
  <2>11. ListHolds(t, entries, proposals)
    BY <2>8 DEF ListHolds
  <2>12. TaskHolds(t, entries, proposals, runs) /\ t.pc \notin {"generate", "propose"}
    BY <2>8, <2>9, <2>10, <2>11 DEF TaskHolds
  <2> QED
    BY <1>1, <1>2, <2>6, <2>7, <2>12, CallReads
<1> QED
  BY <1>3, <1>4, <1>5

\* What the others know of the runs follows from what a run becomes.
LEMMA RunPut ==
  ASSUME StoreTyped, UNCHANGED <<entries, proposals>>, NEW r \in RunIds, NEW q \in OrganizerRun,
         runs' = [runs EXCEPT ![r] = q], q.ver = runs[r].ver + 1
  PROVE  StoreMoves
<1>1. runs' \in [RunIds -> OrganizerRun \cup {NoRun}] /\ RunsMove
  BY DEF StoreTyped, RunsMove
<1> QED
  BY <1>1 DEF StoreMoves, StoreTyped, EntriesMove, ProposalsMove

LEMMA InsertRunStep ==
  ASSUME DriveInv, NEW c \in DriveCalls, InsertRun(c)
  PROVE  DriveInv'
<1> DEFINE m == tasks[c]
           unused == {x \in RunIds : runs[x] = NoRun}
           new == [status |-> "queued", ver |-> 1, fresh |-> FALSE]
<1>1. UNCHANGED <<entries, proposals, begun>> /\ m.pc = "insertRun"
  BY DEF InsertRun, InCall
<1>2. m \in DriveTask /\ CallHolds(m, proposals) /\ StoreTyped /\ begun' \in 0..MaxDriveCalls
  BY <1>1 DEF DriveInv, TaskHolds
<1>3. CASE RunRefused
  BY <1>1, <1>3, CallEndsQuietly DEF InsertRun
<1>4. CASE ~RunRefused
  <2>0. unused \subseteq Nat
    BY DEF RunIds
  <2>1. unused # {} /\ unused \subseteq Nat
    BY <1>4, <2>0 DEF InsertRun
  <2>2. PICK r \in RunIds : r = Min(unused) /\ runs[r] = NoRun
    BY <2>1, MinHolds
  <2>3. /\ runs' = [runs EXCEPT ![r] = new]
        /\ tasks' = [tasks EXCEPT ![c].pc = "claim", ![c].run = r, ![c].runSaw = 1]
    BY <1>4, <2>2 DEF InsertRun
  <2>4. new \in OrganizerRun /\ new.ver = runs[r].ver + 1
    BY <2>2, EmptyRecords DEF OrganizerRun
  <2>5. StoreMoves
    BY <1>1, <1>2, <2>3, <2>4, RunPut
  <2>6. /\ \A x \in RunIds : runs'[x] = IF x = r THEN new ELSE runs[x]
        /\ new.status = "queued" /\ new.ver = 1 /\ ~new.fresh
    BY <1>2, <2>3 DEF StoreTyped
  <2> HIDE DEF new
  <2>7. RunsHold'
    <3>1. ActiveRuns = {}
      BY <1>4 DEF RunRefused
    <3>2. \A x \in RunIds : runs'[x].status \in {"queued", "running"} => x = r
      BY <2>6, <3>1 DEF ActiveRuns
    <3>3. \A x \in RunIds : runs'[x].fresh => runs'[x].status = "running"
      BY <2>6 DEF DriveInv, RunsHold
    <3> QED
      BY <3>2, <3>3 DEF RunsHold, ActiveRuns
  <2>8. OneEntryPerPath'
    BY <1>1 DEF DriveInv, OneEntryPerPath, HasEntry
  <2>9. r \in 0..MaxRuns
    BY <2>2 DEF RunIds
  <2> DEFINE t == [m EXCEPT !.pc = "claim", !.run = r, !.runSaw = 1]
  <2>10. tasks' = [tasks EXCEPT ![c] = t]
    BY <2>3 DEF DriveInv
  <2>11. t \in DriveTask
    BY <1>2, <2>9 DEF DriveTask, CallStages
  <2>12. /\ t.op = m.op /\ t.path = m.path /\ t.to = m.to /\ t.hash = m.hash
         /\ t.verdict = m.verdict /\ t.ids = m.ids /\ t.pc = "claim"
         /\ t.run = r /\ t.runSaw = 1
    BY <1>2 DEF DriveTask
  <2> HIDE DEF t
  <2>13. CallHolds(t, proposals')
    BY <1>1, <1>2, <2>12 DEF CallHolds
  <2>14. LeaseHolds(t, runs')
    BY <2>6, <2>12 DEF LeaseHolds
  <2>15. ListHolds(t, entries', proposals')
    BY <2>12 DEF ListHolds
  <2>16. TaskHolds(t, entries', proposals', runs') /\ t.pc \notin {"generate", "propose"}
    BY <2>12, <2>13, <2>14, <2>15 DEF TaskHolds
  <2> QED
    BY <1>2, <2>5, <2>7, <2>8, <2>10, <2>11, <2>16, CallMoves
<1> QED
  BY <1>3, <1>4

LEMMA ClaimRunStep ==
  ASSUME DriveInv, NEW c \in DriveCalls, ClaimRun(c)
  PROVE  DriveInv'
<1> DEFINE m == tasks[c]
<1>1. UNCHANGED <<entries, proposals, begun>> /\ m.pc = "claim"
  BY DEF ClaimRun, InCall
<1>2. /\ m \in DriveTask /\ CallHolds(m, proposals) /\ LeaseHolds(m, runs)
      /\ StoreTyped /\ begun' \in 0..MaxDriveCalls
  BY <1>1 DEF DriveInv, TaskHolds
<1>3. CASE ~RunFits(c)
  BY <1>1, <1>3, CallEndsQuietly DEF ClaimRun
<1>4. CASE RunFits(c)
  <2>1. PICK r \in RunIds : r = m.run
    BY <1>1, <1>2 DEF LeaseHolds
  <2>2. runs[r].ver = m.runSaw /\ runs[r].status \in {"queued", "running"}
    BY <1>1, <1>2, <1>4, <2>1 DEF LeaseHolds, RunFits
  <2>3. m.runSaw \in Nat /\ r \in 0..MaxRuns
    BY <1>2, <2>1 DEF DriveTask, RunIds
  <2> DEFINE new == [status |-> "running", ver |-> runs[r].ver + 1, fresh |-> TRUE]
  <2>4. /\ runs' = [runs EXCEPT ![r] = new]
        /\ tasks' = [tasks EXCEPT ![c].pc = "generate", ![c].runSaw = @ + 1]
    BY <1>4, <2>1 DEF ClaimRun
  <2>5. new \in OrganizerRun /\ new.ver = runs[r].ver + 1
    BY <2>2, <2>3 DEF OrganizerRun
  <2>6. StoreMoves
    BY <1>1, <1>2, <2>4, <2>5, RunPut
  <2>7. /\ \A x \in RunIds : runs'[x] = IF x = r THEN new ELSE runs[x]
        /\ new.status = "running"
    BY <1>2, <2>4 DEF StoreTyped
  <2> HIDE DEF new
  <2>8. RunsHold'
    <3>1. \A x \in RunIds : runs'[x].status \in {"queued", "running"} => x \in ActiveRuns
      BY <2>2, <2>7 DEF ActiveRuns
    <3>2. \A x \in RunIds : runs'[x].fresh => runs'[x].status = "running"
      BY <2>7 DEF DriveInv, RunsHold
    <3> QED
      BY <3>1, <3>2 DEF RunsHold, ActiveRuns, DriveInv
  <2>9. OneEntryPerPath'
    BY <1>1 DEF DriveInv, OneEntryPerPath, HasEntry
  <2>saw. PICK w \in Nat : w = m.runSaw + 1
    BY <2>3
  <2> DEFINE t == [m EXCEPT !.pc = "generate", !.runSaw = w]
  <2>10. tasks' = [tasks EXCEPT ![c] = t]
    BY <2>4, <2>saw DEF DriveInv
  <2>11. t \in DriveTask
    BY <1>2, <2>3 DEF DriveTask, CallStages
  <2>12. /\ t.op = m.op /\ t.path = m.path /\ t.to = m.to /\ t.hash = m.hash
         /\ t.verdict = m.verdict /\ t.ids = m.ids /\ t.pc = "generate"
         /\ t.run = r /\ t.runSaw = m.runSaw + 1
    BY <1>2, <2>1, <2>saw DEF DriveTask
  <2> HIDE DEF t
  <2>13. CallHolds(t, proposals')
    BY <1>1, <1>2, <2>12 DEF CallHolds
  <2>14. LeaseHolds(t, runs')
    BY <2>2, <2>3, <2>5, <2>7, <2>12 DEF LeaseHolds
  <2>15. ListHolds(t, entries', proposals')
    BY <2>12 DEF ListHolds
  <2>16. TaskHolds(t, entries', proposals', runs') /\ t.runSaw = runs[t.run].ver + 1
    BY <2>2, <2>12, <2>13, <2>14, <2>15 DEF TaskHolds
  <2> QED
    BY <1>2, <2>6, <2>8, <2>9, <2>10, <2>11, <2>16, CallMoves
<1> QED
  BY <1>3, <1>4

LEMMA GenerateStep ==
  ASSUME DriveInv, NEW c \in DriveCalls, Generate(c)
  PROVE  DriveInv'
<1> DEFINE m == tasks[c]
           asked(e) == [status |-> "pending", entry |-> e, from |-> entries[e].path, to |-> DesiredPath(e),
                        hash |-> entries[e].hash, ver |-> 1, run |-> m.run]
           plan == [e \in EntryIds |-> IF e \in Misplaced THEN asked(e) ELSE NoProposal]
           t == [m EXCEPT !.pc = "propose", !.todo = Misplaced, !.plan = plan]
<1>1. UNCHANGED <<entries, proposals, runs, begun>> /\ m.pc = "generate"
  BY DEF Generate, InCall, StoreUnchanged
<1>2. /\ m \in DriveTask /\ CallHolds(m, proposals) /\ LeaseHolds(m, runs)
      /\ StoreTyped /\ begun' \in 0..MaxDriveCalls
  BY <1>1 DEF DriveInv, TaskHolds
<1>3. Misplaced \subseteq EntryIds /\ Misplaced \in SUBSET Nat
  BY DEF Misplaced, EntryIds
<1>4. ASSUME NEW e \in Misplaced
      PROVE  asked(e) \in DriveProposal /\ asked(e).status = "pending" /\ asked(e).ver = 1
  <2>1. e \in EntryIds /\ entries[e] \in DriveEntry
    BY <1>2, EntryKinds DEF Misplaced
  <2>2. entries[e].path \in DrivePaths /\ entries[e].hash \in Contents
    BY <2>1 DEF DriveEntry
  <2>3. DesiredPath(e) \in DrivePaths
    BY <2>2, PathTyped, DriveAssumption DEF DesiredPath, DriveAssumption
  <2>4. m.run \in 0..MaxRuns
    BY <1>2 DEF DriveTask
  <2> QED
    BY <2>1, <2>2, <2>3, <2>4 DEF DriveProposal, Unsettled
<1> HIDE DEF asked
<1>5. plan \in [EntryIds -> DriveProposal \cup {NoProposal}]
  BY <1>4
<1>6. \A e \in Misplaced : plan[e] \in DriveProposal /\ plan[e].status = "pending" /\ plan[e].ver = 1
  BY <1>3, <1>4
<1>7. tasks' = [tasks EXCEPT ![c] = t]
  BY DEF Generate, DriveInv, asked
<1> HIDE DEF plan
<1>8. t \in DriveTask
  BY <1>2, <1>3, <1>5 DEF DriveTask, CallStages
<1>9. /\ t.op = m.op /\ t.path = m.path /\ t.to = m.to /\ t.hash = m.hash
      /\ t.verdict = m.verdict /\ t.ids = m.ids /\ t.pc = "propose"
      /\ t.run = m.run /\ t.runSaw = m.runSaw /\ t.todo = Misplaced /\ t.plan = plan
  BY <1>2 DEF DriveTask
<1> HIDE DEF t
<1>10. CallHolds(t, proposals)
  BY <1>1, <1>2, <1>9 DEF CallHolds
<1>11. LeaseHolds(t, runs)
  BY <1>1, <1>2, <1>3, <1>6, <1>9 DEF LeaseHolds
<1>12. ListHolds(t, entries, proposals)
  BY <1>9 DEF ListHolds
<1>13. TaskHolds(t, entries, proposals, runs)
  BY <1>10, <1>11, <1>12 DEF TaskHolds
<1> QED
  BY <1>1, <1>2, <1>7, <1>8, <1>9, <1>13, CallReads

LEMMA InsertProposalStep ==
  ASSUME DriveInv, NEW c \in DriveCalls, InsertProposal(c)
  PROVE  DriveInv'
<1> DEFINE m == tasks[c]
<1>1. /\ UNCHANGED <<entries, runs, begun>> /\ m.pc = "propose" /\ m.todo # {} /\ FreeProposal # {}
  BY DEF InsertProposal, InCall
<1>2. /\ m \in DriveTask /\ CallHolds(m, proposals) /\ LeaseHolds(m, runs)
      /\ StoreTyped /\ begun' \in 0..MaxDriveCalls
  BY <1>1 DEF DriveInv, TaskHolds
<1>3. m.todo \in SUBSET Nat /\ m.todo \subseteq EntryIds /\ m.ids \in SUBSET ProposalIds
  BY <1>1, <1>2 DEF LeaseHolds, DriveTask
<1>4. PICK e \in EntryIds : e = Min(m.todo) /\ e \in m.todo
  BY <1>1, <1>3, MinHolds
<1>5. PICK p \in ProposalIds : p = Min(FreeProposal) /\ proposals[p] = NoProposal
  BY <1>1, <1>2, NewProposal
<1>6. m.plan[e] \in DriveProposal /\ m.plan[e].ver = proposals[p].ver + 1
  BY <1>1, <1>2, <1>4, <1>5, EmptyRecords DEF LeaseHolds
<1>7. proposals' = [proposals EXCEPT ![p] = m.plan[e]]
  BY <1>4, <1>5 DEF InsertProposal
<1>8. StoreMoves
  BY <1>1, <1>2, <1>6, <1>7, ProposalPut
<1>9. OneEntryPerPath' /\ RunsHold'
  BY <1>1 DEF DriveInv, OneEntryPerPath, HasEntry, RunsHold, ActiveRuns
<1>10. PICK todo \in SUBSET Nat, ids \in SUBSET ProposalIds : todo = m.todo \ {e} /\ ids = m.ids \cup {p}
  BY <1>3
<1> DEFINE t == [m EXCEPT !.todo = todo, !.ids = ids]
<1>11. tasks' = [tasks EXCEPT ![c] = t]
  BY <1>4, <1>5, <1>10 DEF InsertProposal, DriveInv
<1>12. t \in DriveTask
  BY <1>2 DEF DriveTask
<1>13. /\ t.op = m.op /\ t.path = m.path /\ t.to = m.to /\ t.hash = m.hash
       /\ t.verdict = m.verdict /\ t.ids = m.ids \cup {p} /\ t.pc = "propose"
       /\ t.run = m.run /\ t.runSaw = m.runSaw /\ t.todo = m.todo \ {e} /\ t.plan = m.plan
  BY <1>1, <1>2, <1>10 DEF DriveTask
<1> HIDE DEF t
<1>14. \A x \in t.ids : proposals'[x] # NoProposal
  <2>1. proposals'[p] = m.plan[e] /\ \A x \in ProposalIds : x # p => proposals'[x] = proposals[x]
    BY <1>2, <1>7 DEF StoreTyped
  <2> QED
    BY <1>2, <1>3, <1>6, <1>13, <2>1, EmptyRecords DEF CallHolds
<1>15. CallHolds(t, proposals')
  BY <1>1, <1>2, <1>13, <1>14 DEF CallHolds
<1>16. LeaseHolds(t, runs')
  BY <1>1, <1>2, <1>13 DEF LeaseHolds
<1>17. ListHolds(t, entries', proposals')
  BY <1>13 DEF ListHolds
<1>18. TaskHolds(t, entries', proposals', runs')
  BY <1>15, <1>16, <1>17 DEF TaskHolds
<1> QED
  BY <1>1, <1>2, <1>8, <1>9, <1>11, <1>12, <1>13, <1>18, CallMoves

LEMMA CompleteRunStep ==
  ASSUME DriveInv, NEW c \in DriveCalls, CompleteRun(c)
  PROVE  DriveInv'
<1> DEFINE m == tasks[c]
<1>1. UNCHANGED <<entries, proposals, begun>> /\ m.pc = "propose"
  BY DEF CompleteRun, InCall
<1>2. /\ m \in DriveTask /\ CallHolds(m, proposals) /\ LeaseHolds(m, runs)
      /\ StoreTyped /\ begun' \in 0..MaxDriveCalls
  BY <1>1 DEF DriveInv, TaskHolds
<1>3. CASE ~RunFits(c)
  BY <1>1, <1>3, CallEndsQuietly DEF CompleteRun
<1>4. CASE RunFits(c)
  <2>1. PICK r \in RunIds : r = m.run
    BY <1>1, <1>2 DEF LeaseHolds
  <2>2. runs[r].ver = m.runSaw /\ m.runSaw \in Nat
    BY <1>2, <1>4, <2>1 DEF RunFits, DriveTask
  <2> DEFINE new == [status |-> "completed", ver |-> runs[r].ver + 1, fresh |-> FALSE]
  <2>3. runs' = [runs EXCEPT ![r] = new]
    BY <1>4, <2>1 DEF CompleteRun
  <2>4. new \in OrganizerRun /\ new.ver = runs[r].ver + 1
    BY <2>2 DEF OrganizerRun
  <2>5. StoreMoves
    BY <1>1, <1>2, <2>3, <2>4, RunPut
  <2>6. /\ \A x \in RunIds : runs'[x] = IF x = r THEN new ELSE runs[x]
        /\ new.status = "completed" /\ ~new.fresh
    BY <1>2, <2>3 DEF StoreTyped
  <2> HIDE DEF new
  <2>7. RunsHold'
    <3>1. \A x \in RunIds : runs'[x].status \in {"queued", "running"} => x \in ActiveRuns
      BY <2>6 DEF ActiveRuns
    <3>2. \A x \in RunIds : runs'[x].fresh => runs'[x].status = "running"
      BY <2>6 DEF DriveInv, RunsHold
    <3> QED
      BY <3>1, <3>2 DEF RunsHold, ActiveRuns, DriveInv
  <2>8. OneEntryPerPath'
    BY <1>1 DEF DriveInv, OneEntryPerPath, HasEntry
  <2>9. CASE m.op = "apply" /\ m.ids # {}
    <3> DEFINE t == [m EXCEPT !.pc = "ask"]
    <3>1. tasks' = [tasks EXCEPT ![c] = t]
      BY <1>4, <2>9, OneTaskMoves DEF CompleteRun
    <3>2. t \in DriveTask
      BY <1>2 DEF DriveTask, CallStages
    <3>3. /\ t.op = "apply" /\ t.verdict = m.verdict /\ t.ids = m.ids /\ t.pc = "ask"
      BY <1>2, <2>9 DEF DriveTask
    <3> HIDE DEF t
    <3>4. CallHolds(t, proposals')
      BY <1>1, <1>2, <3>3 DEF CallHolds
    <3>5. TaskHolds(t, entries', proposals', runs') /\ t.pc \notin {"generate", "propose"}
      BY <3>3, <3>4, EarlyCall
    <3> QED
      BY <1>2, <2>5, <2>7, <2>8, <3>1, <3>2, <3>5, CallMoves
  <2>10. CASE ~(m.op = "apply" /\ m.ids # {})
    BY <1>1, <1>4, <2>5, <2>7, <2>8, <2>10, CallEnds DEF CompleteRun
  <2> QED
    BY <2>9, <2>10
<1> QED
  BY <1>3, <1>4

\* Time passes over a run: no call is told.
LEMMA LapseStep ==
  ASSUME DriveInv, NEW r \in RunIds, RunLeaseLapses(r)
  PROVE  DriveInv'
<1>1. UNCHANGED <<entries, proposals, tasks, begun>> /\ runs[r].status = "running"
  BY DEF RunLeaseLapses
<1>2. StoreTyped
  BY DEF DriveInv
<1>3. runs[r] \in OrganizerRun
  BY <1>1, <1>2, EmptyRecords DEF StoreTyped
<1> DEFINE new == [runs[r] EXCEPT !.fresh = FALSE]
<1>4. runs' = [runs EXCEPT ![r] = new]
  BY <1>2 DEF RunLeaseLapses, StoreTyped
<1>5. /\ new \in OrganizerRun /\ new.ver = runs[r].ver
      /\ new.status = runs[r].status /\ ~new.fresh
  BY <1>3 DEF OrganizerRun
<1> HIDE DEF new
<1>6. runs' \in [RunIds -> OrganizerRun \cup {NoRun}] /\ RunsMove
  BY <1>2, <1>4, <1>5 DEF StoreTyped, RunsMove
<1>7. StoreMoves
  BY <1>1, <1>2, <1>6 DEF StoreMoves, StoreTyped, EntriesMove, ProposalsMove
<1>8. RunsHold'
  <2>1. \A x \in RunIds : runs'[x].status = runs[x].status /\ (runs'[x].fresh => runs[x].fresh)
    BY <1>2, <1>4, <1>5 DEF StoreTyped
  <2> QED
    BY <2>1 DEF DriveInv, RunsHold, ActiveRuns
<1>9. OneEntryPerPath' /\ OwnersDiffer' /\ StoreTyped'
  BY <1>1, <1>7 DEF DriveInv, OneEntryPerPath, HasEntry, OwnersDiffer, StoreMoves, StoreTyped
<1>10. ASSUME NEW d \in DriveCalls
       PROVE  TaskHolds(tasks'[d], entries', proposals', runs')
  <2>1. tasks'[d] = tasks[d] /\ tasks[d] \in DriveTask
    BY <1>1 DEF DriveInv
  <2> QED
    BY <1>2, <1>7, <2>1, TaskStays DEF DriveInv
<1> QED
  BY <1>1, <1>8, <1>9, <1>10 DEF DriveInv

-----------------------------------------------------------------------------
(* Going through the proposals an apply listed.                            *)

LEMMA ListProposalsStep ==
  ASSUME DriveInv, NEW c \in DriveCalls, ListProposals(c)
  PROVE  DriveInv'
<1> DEFINE m == tasks[c]
<1>1. UNCHANGED <<entries, proposals, runs, begun>> /\ m.pc = "list"
  BY DEF ListProposals, InCall, StoreUnchanged
<1>2. m \in DriveTask /\ CallHolds(m, proposals) /\ StoreTyped /\ begun' \in 0..MaxDriveCalls
  BY <1>1 DEF DriveInv, TaskHolds
<1>3. PICK pc \in {"look", "mark"} : pc = IF m.verdict = "none" THEN "look" ELSE "mark"
  OBVIOUS
<1> DEFINE t == [m EXCEPT !.snap = proposals, !.todo = m.ids, !.pc = pc]
<1>4. tasks' = [tasks EXCEPT ![c] = t]
  BY <1>3 DEF ListProposals, DriveInv
<1>5. m.ids \in SUBSET ProposalIds /\ m.ids \in SUBSET Nat
  BY <1>2 DEF DriveTask, ProposalIds
<1>6. proposals \in [ProposalIds -> DriveProposal \cup {NoProposal}]
  BY <1>2 DEF StoreTyped
<1>7. t \in DriveTask
  BY <1>2, <1>5, <1>6 DEF DriveTask, CallStages
<1>8. /\ t.op = m.op /\ t.path = m.path /\ t.to = m.to /\ t.hash = m.hash /\ t.pc = pc
      /\ t.verdict = m.verdict /\ t.ids = m.ids /\ t.todo = m.ids /\ t.snap = proposals
  BY <1>2 DEF DriveTask
<1> HIDE DEF t
<1>9. CallHolds(t, proposals)
  BY <1>1, <1>2, <1>3, <1>8 DEF CallHolds
<1>10. LeaseHolds(t, runs)
  BY <1>8 DEF LeaseHolds
<1>11. \A p \in ProposalIds : proposals[p].ver \in Nat
  BY <1>6, EmptyRecords DEF DriveProposal
<1>12. \A p \in m.ids : proposals[p] # NoProposal
  BY <1>2 DEF CallHolds
<1>13. ListHolds(t, entries, proposals)
  BY <1>8, <1>11, <1>12 DEF ListHolds
<1>14. TaskHolds(t, entries, proposals, runs) /\ t.pc \notin {"generate", "propose"}
  BY <1>8, <1>9, <1>10, <1>13 DEF TaskHolds
<1> QED
  BY <1>1, <1>2, <1>4, <1>7, <1>14, CallReads

\* A listed proposal that has not changed since, and what becomes of it.
LEMMA ListedProposal ==
  ASSUME DriveInv, NEW c \in DriveCalls, tasks[c].pc \in {"mark", "look", "commit"}, tasks[c].todo # {}
  PROVE  LET p == Min(tasks[c].todo) IN
         /\ p \in ProposalIds /\ p \in tasks[c].todo /\ tasks[c].snap[p] \in DriveProposal
         /\ proposals[p].ver = tasks[c].snap[p].ver => proposals[p] = tasks[c].snap[p]
<1> DEFINE m == tasks[c]
           p == Min(m.todo)
<1>1. m \in DriveTask /\ ListHolds(m, entries, proposals)
  BY DEF DriveInv, TaskHolds
<1>2. /\ m.todo \subseteq m.ids /\ \A x \in m.ids : m.snap[x] # NoProposal
      /\ \A x \in ProposalIds : m.snap[x].ver = proposals[x].ver => m.snap[x] = proposals[x]
  BY <1>1 DEF ListHolds
<1>3. m.todo \in SUBSET Nat /\ m.ids \subseteq ProposalIds
  BY <1>1 DEF DriveTask
<1>4. p \in m.todo
  BY <1>3, MinHolds
<1>5. p \in ProposalIds /\ m.snap[p] # NoProposal
  BY <1>2, <1>3, <1>4
<1>6. m.snap[p] \in DriveProposal
  BY <1>1, <1>5 DEF DriveTask
<1> QED
  BY <1>2, <1>4, <1>5, <1>6

LEMMA ProposalSettled ==
  ASSUME NEW q \in DriveProposal, NEW v \in Settled
  PROVE  /\ [q EXCEPT !.status = v, !.ver = @ + 1] \in DriveProposal
         /\ [q EXCEPT !.status = v, !.ver = @ + 1].ver = q.ver + 1
<1>1. q.ver + 1 \in Nat \ {0}
  BY DEF DriveProposal
<1> QED
  BY <1>1 DEF DriveProposal

LEMMA MarkProposalStep ==
  ASSUME DriveInv, NEW c \in DriveCalls, MarkProposal(c)
  PROVE  DriveInv'
<1> DEFINE m == tasks[c]
<1>1. UNCHANGED <<entries, runs, begun>> /\ m.pc = "mark"
  BY DEF MarkProposal, InCall
<1>2. /\ m \in DriveTask /\ CallHolds(m, proposals) /\ ListHolds(m, entries, proposals)
      /\ StoreTyped /\ begun' \in 0..MaxDriveCalls
  BY <1>1 DEF DriveInv, TaskHolds
<1>3. CASE m.todo = {}
  BY <1>1, <1>3, CallEndsQuietly DEF MarkProposal
<1>4. CASE m.todo # {}
  <2>1. PICK p \in ProposalIds : p = Min(m.todo) /\ p \in m.todo
    BY <1>1, <1>4, ListedProposal
  <2>2. CASE proposals[p].ver # m.snap[p].ver
    BY <1>1, <1>4, <2>1, <2>2, CallEndsQuietly DEF MarkProposal
  <2>3. CASE proposals[p].ver = m.snap[p].ver
    <3>1. proposals[p] \in DriveProposal
      BY <1>1, <1>4, <2>1, <2>3, ListedProposal
    <3>2. m.verdict \in Settled
      BY <1>1, <1>2 DEF CallHolds, DriveTask
    <3> DEFINE q == [proposals[p] EXCEPT !.status = m.verdict, !.ver = @ + 1]
    <3>3. proposals' = [proposals EXCEPT ![p] = q]
      BY <1>2, <1>4, <2>1, <2>3 DEF MarkProposal, StoreTyped
    <3>4. q \in DriveProposal /\ q.ver = proposals[p].ver + 1
      BY <3>1, <3>2, ProposalSettled
    <3> HIDE DEF q
    <3>5. StoreMoves
      BY <1>1, <1>2, <3>3, <3>4, ProposalPut
    <3>6. OneEntryPerPath' /\ RunsHold'
      BY <1>1 DEF DriveInv, OneEntryPerPath, HasEntry, RunsHold, ActiveRuns
    <3>7. TaskHolds(m, entries', proposals', runs')
      BY <1>2, <3>5, TaskStays DEF DriveInv
    <3>8. PICK todo \in SUBSET Nat : todo = m.todo \ {p}
      BY <1>2 DEF DriveTask
    <3> DEFINE t == [m EXCEPT !.todo = todo]
    <3>9. tasks' = [tasks EXCEPT ![c] = t]
      BY <1>4, <2>1, <2>3, <3>8 DEF MarkProposal, DriveInv
    <3>10. t \in DriveTask
      BY <1>2 DEF DriveTask
    <3>11. /\ t.op = m.op /\ t.path = m.path /\ t.to = m.to /\ t.hash = m.hash /\ t.pc = "mark"
           /\ t.verdict = m.verdict /\ t.ids = m.ids /\ t.todo = m.todo \ {p} /\ t.snap = m.snap
      BY <1>1, <1>2, <3>8 DEF DriveTask
    <3> HIDE DEF t
    <3>12. CallHolds(t, proposals') /\ LeaseHolds(t, runs')
      BY <1>1, <3>7, <3>11 DEF TaskHolds, CallHolds, LeaseHolds
    <3>13. ListHolds(t, entries', proposals')
      BY <1>1, <3>7, <3>11 DEF TaskHolds, ListHolds
    <3>14. TaskHolds(t, entries', proposals', runs') /\ t.pc \notin {"generate", "propose"}
      BY <3>11, <3>12, <3>13 DEF TaskHolds
    <3> QED
      BY <1>2, <3>5, <3>6, <3>9, <3>10, <3>14, CallMoves
  <2> QED
    BY <2>2, <2>3
<1> QED
  BY <1>3, <1>4

LEMMA LookAtProposalStep ==
  ASSUME DriveInv, NEW c \in DriveCalls, LookAtProposal(c)
  PROVE  DriveInv'
<1> DEFINE m == tasks[c]
<1>1. UNCHANGED <<entries, proposals, runs, begun>> /\ m.pc = "look"
  BY DEF LookAtProposal, InCall, StoreUnchanged
<1>2. /\ m \in DriveTask /\ CallHolds(m, proposals) /\ ListHolds(m, entries, proposals)
      /\ StoreTyped /\ begun' \in 0..MaxDriveCalls
  BY <1>1 DEF DriveInv, TaskHolds
<1>3. CASE m.todo = {}
  BY <1>1, <1>3, CallEndsQuietly DEF LookAtProposal
<1>4. CASE m.todo # {}
  <2>1. PICK p \in ProposalIds : p = Min(m.todo) /\ p \in m.todo /\ m.snap[p] \in DriveProposal
    BY <1>1, <1>4, ListedProposal
  <2>2. CASE m.snap[p].status \notin Unsettled
    <3>1. PICK todo \in SUBSET Nat : todo = m.todo \ {p}
      BY <1>2 DEF DriveTask
    <3> DEFINE t == [m EXCEPT !.todo = todo]
    <3>2. tasks' = [tasks EXCEPT ![c] = t]
      BY <1>4, <2>1, <2>2, <3>1 DEF LookAtProposal, DriveInv
    <3>3. t \in DriveTask
      BY <1>2 DEF DriveTask
    <3>4. /\ t.op = m.op /\ t.path = m.path /\ t.to = m.to /\ t.hash = m.hash /\ t.pc = "look"
          /\ t.verdict = m.verdict /\ t.ids = m.ids /\ t.todo = m.todo \ {p} /\ t.snap = m.snap
      BY <1>1, <1>2, <3>1 DEF DriveTask
    <3> HIDE DEF t
    <3>5. CallHolds(t, proposals) /\ LeaseHolds(t, runs)
      BY <1>1, <1>2, <3>4 DEF CallHolds, LeaseHolds
    <3>6. ListHolds(t, entries, proposals)
      BY <1>1, <1>2, <3>4 DEF ListHolds
    <3>7. TaskHolds(t, entries, proposals, runs) /\ t.pc \notin {"generate", "propose"}
      BY <3>4, <3>5, <3>6 DEF TaskHolds
    <3> QED
      BY <1>1, <1>2, <3>2, <3>3, <3>7, CallReads
  <2>3. CASE m.snap[p].status \in Unsettled
    <3>1. PICK q \in DriveProposal : q = m.snap[p]
      BY <2>1
    <3>2. PICK e \in EntryIds : e = q.entry
      BY DEF DriveProposal
    <3>3. entries[e].ver \in Nat
      BY <1>2, EntryKinds
    <3>4. PICK v \in {"applied", "failed", "stale"} : v = Outcome(q)
      BY DEF Outcome
    <3> DEFINE t == [m EXCEPT !.pc = "commit", !.verdict = v, !.saw = entries[e].ver]
    <3>5. tasks' = [tasks EXCEPT ![c] = t]
      BY <1>4, <2>1, <2>3, <3>1, <3>2, <3>4 DEF LookAtProposal, DriveInv
    <3>found. v \in {"none"} \cup Settled /\ "commit" \in CallStages
      BY DEF Settled, CallStages
    <3>6. t \in DriveTask
      BY <1>2, <3>3, <3>found DEF DriveTask
    <3>7. /\ t.op = m.op /\ t.path = m.path /\ t.to = m.to /\ t.hash = m.hash /\ t.pc = "commit"
          /\ t.verdict = v /\ t.ids = m.ids /\ t.todo = m.todo /\ t.snap = m.snap
          /\ t.saw = entries[e].ver
      BY <1>1, <1>2 DEF DriveTask
    <3> HIDE DEF t
    <3>8. CallHolds(t, proposals) /\ LeaseHolds(t, runs)
      BY <1>1, <1>2, <3>7 DEF CallHolds, LeaseHolds
    <3>9. v = "applied" => /\ HasEntry(e) /\ entries[e].path = q.from
                           /\ q.hash \in {"none", entries[e].hash}
      BY <3>2, <3>4 DEF Outcome
    <3>10. v = "applied" => Stands(t, entries, q)
      BY <1>2, <3>2, <3>3, <3>7, <3>9, EmptyRecords DEF Stands, HasEntry
    <3>11. ListHolds(t, entries, proposals)
      BY <1>1, <1>2, <1>4, <2>1, <3>1, <3>7, <3>10 DEF ListHolds
    <3>12. TaskHolds(t, entries, proposals, runs) /\ t.pc \notin {"generate", "propose"}
      BY <3>7, <3>8, <3>11 DEF TaskHolds
    <3> QED
      BY <1>1, <1>2, <3>5, <3>6, <3>12, CallReads
  <2> QED
    BY <2>2, <2>3
<1> QED
  BY <1>3, <1>4

LEMMA CommitProposalStep ==
  ASSUME DriveInv, NEW c \in DriveCalls, CommitProposal(c)
  PROVE  DriveInv'
<1> DEFINE m == tasks[c]
<1>1. UNCHANGED <<runs, begun>> /\ m.pc = "commit"
  BY DEF CommitProposal, InCall
<1>2. /\ m \in DriveTask /\ CallHolds(m, proposals) /\ ListHolds(m, entries, proposals)
      /\ StoreTyped /\ begun' \in 0..MaxDriveCalls
  BY <1>1 DEF DriveInv, TaskHolds
<1>3. m.todo # {} /\ m.verdict \in Settled
  BY <1>1, <1>2 DEF ListHolds, DriveTask
<1>4. PICK p \in ProposalIds : p = Min(m.todo) /\ p \in m.todo /\ m.snap[p] \in DriveProposal
  BY <1>1, <1>3, ListedProposal
<1>5. CASE ~CommitFits(c, p)
  BY <1>1, <1>4, <1>5, CallEndsQuietly DEF CommitProposal
<1>6. CASE CommitFits(c, p)
  <2>1. PICK q \in DriveProposal : q = m.snap[p] /\ q = proposals[p]
    BY <1>1, <1>3, <1>4, <1>6, ListedProposal DEF CommitFits
  <2> DEFINE done == [proposals[p] EXCEPT !.status = m.verdict, !.ver = @ + 1]
  <2>2. proposals' = [proposals EXCEPT ![p] = done]
    BY <1>2, <1>4, <1>6 DEF CommitProposal, StoreTyped
  <2>3. done \in DriveProposal /\ done.ver = proposals[p].ver + 1
    BY <1>3, <2>1, ProposalSettled
  <2> HIDE DEF done
  <2>4. proposals' \in [ProposalIds -> DriveProposal \cup {NoProposal}] /\ ProposalsMove
    BY <1>2, <2>2, <2>3 DEF StoreTyped, ProposalsMove
  <2>5. /\ entries' \in [EntryIds -> DriveEntry \cup {NoEntry, GoneEntry}] /\ EntriesMove
        /\ OneEntryPerPath'
    <3>1. CASE m.verdict # "applied"
      <4>1. entries' = entries
        BY <1>4, <1>6, <3>1 DEF CommitProposal
      <4> QED
        BY <1>2, <4>1 DEF StoreTyped, EntriesMove, DriveInv, OneEntryPerPath, HasEntry
    <3>2. CASE m.verdict = "applied"
      <4>1. PICK x \in EntryIds : x = q.entry
        BY DEF DriveProposal
      <4>2. q.to \in DrivePaths
        BY DEF DriveProposal
      <4>3. HasEntry(x) /\ entries[x] \in DriveEntry /\ IdAt(q.to) \subseteq {x}
        BY <1>2, <1>6, <2>1, <3>2, <4>1, EntryKinds DEF CommitFits
      <4> DEFINE new == [entries[x] EXCEPT !.path = q.to, !.ver = @ + 1]
      <4>4. entries' = [entries EXCEPT ![x] = new]
        <5>1. entries' = [entries EXCEPT ![m.snap[p].entry].path = m.snap[p].to,
                                         ![m.snap[p].entry].ver = @ + 1]
          BY <1>4, <1>6, <3>2 DEF CommitProposal
        <5> QED
          BY <1>2, <2>1, <4>1, <5>1 DEF StoreTyped
      <4>5. PICK h \in Contents : h = entries[x].hash
        BY <4>3 DEF DriveEntry
      <4>6. new \in DriveEntry /\ new.path = q.to /\ new.ver = entries[x].ver + 1
        BY <4>2, <4>3, <4>5, EntryRewritten
      <4> HIDE DEF new
      <4>7. entries' \in [EntryIds -> DriveEntry \cup {NoEntry, GoneEntry}] /\ EntriesMove
        BY <1>2, <4>3, <4>4, <4>6 DEF StoreTyped, EntriesMove
      <4>8. ASSUME NEW e \in EntryIds \ {x}, entries'[e].ver > 0
            PROVE  /\ HasEntry(e) /\ entries'[e].path = entries[e].path
                   /\ entries'[e].path # entries'[x].path
        <5>1. entries'[e] = entries[e] /\ entries'[x].path = q.to
          BY <1>2, <4>4, <4>6 DEF StoreTyped
        <5> QED
          BY <4>3, <4>8, <5>1 DEF IdAt, HasEntry
      <4>9. OneEntryPerPath'
        BY <4>8, PathsStay DEF DriveInv
      <4> QED
        BY <4>7, <4>9
    <3> QED
      BY <3>1, <3>2
  <2>6. StoreMoves
    BY <1>1, <1>2, <2>4, <2>5 DEF StoreMoves, StoreTyped, RunsMove
  <2>7. RunsHold'
    BY <1>1 DEF DriveInv, RunsHold, ActiveRuns
  <2>8. TaskHolds(m, entries', proposals', runs')
    BY <1>2, <2>6, TaskStays DEF DriveInv
  <2>9. PICK todo \in SUBSET Nat : todo = m.todo \ {p}
    BY <1>2 DEF DriveTask
  <2> DEFINE t == [m EXCEPT !.todo = todo, !.pc = "look", !.verdict = "none"]
  <2>10. tasks' = [tasks EXCEPT ![c] = t]
    BY <1>4, <1>6, <2>9 DEF CommitProposal, DriveInv
  <2>11. t \in DriveTask
    BY <1>2 DEF DriveTask, CallStages
  <2>12. /\ t.op = m.op /\ t.path = m.path /\ t.to = m.to /\ t.hash = m.hash /\ t.pc = "look"
         /\ t.verdict = "none" /\ t.ids = m.ids /\ t.todo = m.todo \ {p} /\ t.snap = m.snap
    BY <1>2, <2>9 DEF DriveTask
  <2> HIDE DEF t
  <2>13. CallHolds(t, proposals') /\ LeaseHolds(t, runs')
    BY <1>1, <2>8, <2>12 DEF TaskHolds, CallHolds, LeaseHolds
  <2>14. ListHolds(t, entries', proposals')
    BY <1>1, <2>8, <2>12 DEF TaskHolds, ListHolds
  <2>15. TaskHolds(t, entries', proposals', runs') /\ t.pc \notin {"generate", "propose"}
    BY <2>12, <2>13, <2>14 DEF TaskHolds
  <2> QED
    BY <1>2, <2>5, <2>6, <2>7, <2>10, <2>11, <2>15, CallMoves
<1> QED
  BY <1>5, <1>6

-----------------------------------------------------------------------------
(* The drive's invariant.                                                  *)

LEMMA DriveCrashStep ==
  ASSUME DriveInv, DriveCrash
  PROVE  DriveInv'
<1>1. UNCHANGED <<entries, proposals, runs, begun>> /\ \A c \in DriveCalls : tasks'[c] = NoCallState
  BY DEF DriveCrash, StoreUnchanged
<1>2. tasks' \in [DriveCalls -> DriveTask]
  BY NoCallHolds DEF DriveCrash
<1>3. \A c \in DriveCalls : TaskHolds(tasks'[c], entries', proposals', runs')
  BY <1>1, NoCallHolds
<1>4. OwnersDiffer'
  BY <1>1, NoCallHolds DEF OwnersDiffer
<1>5. StoreTyped' /\ OneEntryPerPath' /\ RunsHold' /\ begun' \in 0..MaxDriveCalls
  BY <1>1 DEF DriveInv, StoreTyped, OneEntryPerPath, HasEntry, RunsHold, ActiveRuns
<1> QED
  BY <1>2, <1>3, <1>4, <1>5 DEF DriveInv

LEMMA DriveInitHolds ==
  ASSUME DriveInit
  PROVE  DriveInv
<1>1. PICK d \in Dirs : d = CHOOSE x \in Dirs : \A h \in Contents : x # Filing[h]
  BY DriveAssumption DEF DriveAssumption
<1>2. PICK k \in Contents : k = CHOOSE x \in Contents : TRUE
  BY DriveAssumption DEF DriveAssumption
<1> DEFINE first == [path |-> PathIn(d), hash |-> k, ver |-> 1]
<1>3. first \in DriveEntry /\ first.ver = 1
  BY PathTyped DEF DriveEntry
<1>4. entries = [e \in EntryIds |-> IF e = 1 THEN first ELSE NoEntry]
  BY <1>1, <1>2 DEF DriveInit
<1> HIDE DEF first
<1>5. /\ proposals = [p \in ProposalIds |-> NoProposal] /\ runs = [r \in RunIds |-> NoRun]
      /\ tasks = [c \in DriveCalls |-> NoCallState] /\ begun = 0
  BY DEF DriveInit
<1>6. StoreTyped
  BY <1>3, <1>4, <1>5 DEF StoreTyped
<1>7. OneEntryPerPath
  BY <1>4, EmptyRecords DEF OneEntryPerPath, HasEntry
<1>8. RunsHold
  BY <1>5, EmptyRecords DEF RunsHold, ActiveRuns
<1>9. OwnersDiffer /\ \A c \in DriveCalls : TaskHolds(tasks[c], entries, proposals, runs)
  BY <1>5, NoCallHolds DEF OwnersDiffer
<1>10. tasks \in [DriveCalls -> DriveTask] /\ begun \in 0..MaxDriveCalls
  BY <1>5, NoCallHolds, DriveAssumption DEF DriveAssumption
<1> QED
  BY <1>6, <1>7, <1>8, <1>9, <1>10 DEF DriveInv

LEMMA DriveStep ==
  ASSUME DriveInv, [DriveNext]_driveVars
  PROVE  DriveInv'
<1>1. CASE UNCHANGED driveVars
  <2>1. UNCHANGED <<entries, proposals, runs, tasks, begun>>
    BY <1>1 DEF driveVars
  <2> QED
    BY <2>1 DEF DriveInv, StoreTyped, OneEntryPerPath, HasEntry, RunsHold, ActiveRuns, OwnersDiffer
<1>2. ASSUME NEW c \in DriveCalls, CallStep(c) PROVE DriveInv'
  BY <1>2, DecideStep, ReadForPutStep, InsertEntryStep, OfferProposalStep, SwapEntryStep, ReadForTagStep,
     ReadForMoveStep, CommitMoveStep, FindRunStep, InsertRunStep, ClaimRunStep, GenerateStep,
     InsertProposalStep, CompleteRunStep, ListProposalsStep, MarkProposalStep, LookAtProposalStep,
     CommitProposalStep, Zenon DEF CallStep
<1>3. CASE DriveNext
  BY <1>2, <1>3, BeginStep, LapseStep, DriveCrashStep, Zenon DEF DriveNext
<1> QED
  BY <1>1, <1>3

-----------------------------------------------------------------------------
(* What follows from the invariant.                                        *)

LEMMA DriveInvHolds ==
  ASSUME DriveInv
  PROVE  DriveTypeOK /\ OneEntryPerPath /\ OneOrganizer
<1>1. DriveTypeOK
  <2>1. \A e \in EntryIds : entries[e] \in {NoEntry, GoneEntry} \/
          /\ entries[e].path \in [dir : Dirs, copies : Seq(Nat)]
          /\ entries[e].hash \in Contents /\ entries[e].ver \in Nat \ {0}
    BY DEF DriveInv, StoreTyped, DriveEntry, DrivePaths
  <2>2. \A p \in ProposalIds : proposals[p].status \in
          Unsettled \cup {"none", "applied", "denied", "failed", "stale"}
    BY EmptyRecords DEF DriveInv, StoreTyped, DriveProposal, Settled
  <2>3. \A r \in RunIds : runs[r].status \in {"none", "queued", "running", "completed"}
    BY EmptyRecords DEF DriveInv, StoreTyped, OrganizerRun
  <2>4. \A c \in DriveCalls : tasks[c].ids \subseteq ProposalIds
    BY DEF DriveInv, DriveTask
  <2> QED
    BY <2>1, <2>2, <2>3, <2>4 DEF DriveTypeOK, DriveInv
<1>2. Cardinality(ActiveRuns) <= 1
  <2>1. CASE ActiveRuns = {}
    BY <2>1, FS_EmptySet
  <2>2. CASE ActiveRuns # {}
    <3>1. PICK r \in ActiveRuns : TRUE
      BY <2>2
    <3>2. ActiveRuns = {r}
      BY <3>1 DEF DriveInv, RunsHold
    <3> QED
      BY <3>2, FS_Singleton
  <2> QED
    BY <2>1, <2>2
<1>3. ASSUME NEW c \in DriveCalls, NEW d \in DriveCalls,
             tasks[c].pc \in {"generate", "propose"}, tasks[d].pc \in {"generate", "propose"},
             RunFits(c), RunFits(d)
      PROVE  c = d
  <2>1. tasks[c].run \in ActiveRuns /\ tasks[d].run \in ActiveRuns
    BY <1>3 DEF DriveInv, TaskHolds, LeaseHolds, RunFits, ActiveRuns
  <2>2. tasks[c].run = tasks[d].run
    BY <2>1 DEF DriveInv, RunsHold
  <2>3. tasks[c].runSaw = tasks[d].runSaw
    BY <1>3, <2>2 DEF RunFits
  <2> QED
    BY <1>3, <2>2, <2>3 DEF DriveInv, OwnersDiffer
<1> QED
  BY <1>1, <1>2, <1>3 DEF OneOrganizer, DriveInv

\* Which calls write which records.
LEMMA DriveWriters ==
  ASSUME DriveNext
  PROVE  /\ entries' = entries \/ \E c \in DriveCalls :
              InsertEntry(c) \/ SwapEntry(c) \/ CommitMove(c) \/ CommitProposal(c)
         /\ proposals' = proposals \/ \E c \in DriveCalls :
              OfferProposal(c) \/ InsertProposal(c) \/ MarkProposal(c) \/ CommitProposal(c)
         /\ \/ runs' = runs \/ \E c \in DriveCalls : InsertRun(c) \/ ClaimRun(c) \/ CompleteRun(c)
            \/ \E r \in RunIds : RunLeaseLapses(r)
<1> DEFINE Rest(c) == \/ \E v \in {"approved", "denied", "failed"} : Decide(c, v)
                      \/ \E dedupe \in BOOLEAN : ReadForPut(c, dedupe)
                      \/ ReadForTag(c) \/ ReadForMove(c) \/ FindRun(c)
                      \/ Generate(c) \/ ListProposals(c) \/ LookAtProposal(c)
<1>1. ASSUME NEW c \in DriveCalls, Rest(c)
      PROVE  UNCHANGED <<entries, proposals, runs>>
  BY <1>1 DEF Decide, ReadForPut, ReadForTag, ReadForMove, FindRun, Generate, ListProposals,
              LookAtProposal, StoreUnchanged
<1>2. ASSUME NEW c, NEW t, BeginDriveCall(c, t)
      PROVE  UNCHANGED <<entries, proposals, runs>>
  BY <1>2 DEF BeginDriveCall, StoreUnchanged
<1>3. ASSUME NEW c \in DriveCalls,
             \/ \E d \in Dirs, h \in Contents, k \in Collisions, filed \in BOOLEAN : CallPut(c, d, h, k, filed)
             \/ \E e \in EntryIds, d \in Dirs, k \in Collisions : CallMove(c, e, d, k)
             \/ \E e \in EntryIds : CallTag(c, e)
             \/ \E apply \in BOOLEAN : CallOrganize(c, apply)
      PROVE  UNCHANGED <<entries, proposals, runs>>
  BY <1>2, <1>3, Zenon DEF CallPut, CallMove, CallTag, CallOrganize
<1>4. ASSUME NEW c \in DriveCalls
      PROVE  /\ InsertEntry(c) \/ SwapEntry(c) \/ CommitMove(c) => UNCHANGED <<proposals, runs>>
             /\ OfferProposal(c) \/ InsertProposal(c) \/ MarkProposal(c) => UNCHANGED <<entries, runs>>
             /\ CommitProposal(c) => UNCHANGED runs
             /\ InsertRun(c) \/ ClaimRun(c) \/ CompleteRun(c) => UNCHANGED <<entries, proposals>>
  BY DEF InsertEntry, SwapEntry, CommitMove, OfferProposal, InsertProposal, MarkProposal, CommitProposal,
         InsertRun, ClaimRun, CompleteRun
<1>5. ASSUME NEW r \in RunIds, RunLeaseLapses(r) PROVE UNCHANGED <<entries, proposals>>
  BY <1>5 DEF RunLeaseLapses
<1>6. DriveCrash => UNCHANGED <<entries, proposals, runs>>
  BY DEF DriveCrash, StoreUnchanged
<1>7. ASSUME NEW c \in DriveCalls, CallStep(c)
      PROVE  \/ Rest(c) \/ InsertEntry(c) \/ SwapEntry(c) \/ CommitMove(c) \/ OfferProposal(c)
             \/ InsertProposal(c) \/ MarkProposal(c) \/ CommitProposal(c)
             \/ InsertRun(c) \/ ClaimRun(c) \/ CompleteRun(c)
  BY <1>7, Zenon DEF CallStep
<1> HIDE DEF Rest
<1>8. \/ \E c \in DriveCalls : CallStep(c)
      \/ UNCHANGED <<entries, proposals, runs>>
      \/ \E r \in RunIds : RunLeaseLapses(r)
  BY <1>3, <1>6, Zenon DEF DriveNext
<1>9. ASSUME NEW c \in DriveCalls, CallStep(c)
      PROVE  /\ entries' = entries \/ InsertEntry(c) \/ SwapEntry(c) \/ CommitMove(c) \/ CommitProposal(c)
             /\ proposals' = proposals \/ OfferProposal(c) \/ InsertProposal(c) \/ MarkProposal(c)
                  \/ CommitProposal(c)
             /\ runs' = runs \/ InsertRun(c) \/ ClaimRun(c) \/ CompleteRun(c)
  BY <1>1, <1>4, <1>7, <1>9
<1> QED
  BY <1>5, <1>8, <1>9, Zenon

\* A document is replaced or removed by a call that read it.
LEMMA DriveReplaces ==
  ASSUME DriveInv, DriveNext, NEW e \in EntryIds, HasEntry(e), entries'[e].hash # entries[e].hash
  PROVE  \E c \in DriveCalls : \/ tasks[c].id = e /\ tasks[c].saw = entries[e].ver
                               \/ tasks[c].victim = e /\ tasks[c].victimSaw = entries[e].ver
<1>1. PICK c \in DriveCalls : InsertEntry(c) \/ SwapEntry(c) \/ CommitMove(c) \/ CommitProposal(c)
  BY DriveWriters
<1>2. entries \in [EntryIds -> DriveEntry \cup {NoEntry, GoneEntry}] /\ entries'[e] # entries[e]
  BY DEF DriveInv, StoreTyped
<1>3. e # 0 /\ entries[e] \in DriveEntry
  BY EntryKinds DEF DriveInv, EntryIds
<1>4. CASE InsertEntry(c)
  <2>1. FreeEntry # {} /\ entries' = [entries EXCEPT ![Min(FreeEntry)] =
                             [path |-> tasks[c].path, hash |-> tasks[c].hash, ver |-> 1]]
    BY <1>2, <1>4 DEF InsertEntry
  <2>2. FreeEntry \subseteq Nat /\ FreeEntry \subseteq EntryIds
    BY DEF FreeEntry, EntryIds
  <2>3. entries[Min(FreeEntry)] = NoEntry
    BY <2>1, <2>2, MinHolds DEF FreeEntry
  <2>4. e = Min(FreeEntry)
    BY <1>2, <2>1
  <2> QED
    BY <2>3, <2>4, EmptyRecords DEF HasEntry
<1>5. CASE SwapEntry(c)
  <2>1. SwapFits(c) /\ \A x \in EntryIds : x # tasks[c].id => entries'[x] = entries[x]
    BY <1>2, <1>5 DEF SwapEntry
  <2> QED
    BY <1>2, <2>1 DEF SwapFits
<1>6. CASE CommitMove(c)
  <2>1. MoveFits(c) /\ entries'[e] = IF e = tasks[c].id
                                     THEN [entries[e] EXCEPT !.path = tasks[c].to, !.ver = @ + 1]
                                     ELSE IF e = tasks[c].victim THEN GoneEntry ELSE entries[e]
    BY <1>2, <1>6 DEF CommitMove
  <2>2. CASE e = tasks[c].id
    BY <2>1, <2>2 DEF MoveFits
  <2>3. CASE e # tasks[c].id
    BY <1>2, <1>3, <2>1, <2>3 DEF MoveFits
  <2> QED
    BY <2>2, <2>3
<1>7. CASE CommitProposal(c)
  <2>1. \E x, to : entries' = [entries EXCEPT ![x].path = to, ![x].ver = @ + 1]
    BY <1>2, <1>7 DEF CommitProposal
  <2>2. PICK x, to : entries' = [entries EXCEPT ![x].path = to, ![x].ver = @ + 1]
    BY <2>1
  <2>3. entries'[e].hash = entries[e].hash
    BY <1>2, <1>3, <2>2 DEF DriveEntry
  <2> QED
    BY <2>3
<1> QED
  BY <1>1, <1>4, <1>5, <1>6, <1>7

\* A proposal is applied by the move it proposes.
LEMMA DriveApplies ==
  ASSUME DriveInv, DriveNext, NEW p \in ProposalIds,
         proposals[p].status # "applied", proposals'[p].status = "applied"
  PROVE  LET q == proposals[p] IN
         /\ entries[q.entry].path = q.from /\ entries'[q.entry].path = q.to
         /\ q.hash \in {"none", entries[q.entry].hash}
         /\ entries'[q.entry].hash = entries[q.entry].hash
         /\ corrections' = Append(corrections, [entry |-> q.entry, from |-> q.from, to |-> q.to])
<1> DEFINE q == proposals[p]
<1>0. PICK c \in DriveCalls : OfferProposal(c) \/ InsertProposal(c) \/ MarkProposal(c) \/ CommitProposal(c)
  BY DriveWriters
<1> DEFINE m == tasks[c]
<1>1. /\ proposals \in [ProposalIds -> DriveProposal \cup {NoProposal}] /\ proposals'[p] # q /\ StoreTyped
      /\ entries \in [EntryIds -> DriveEntry \cup {NoEntry, GoneEntry}]
  BY DEF DriveInv, StoreTyped
<1>2. m \in DriveTask /\ CallHolds(m, proposals) /\ LeaseHolds(m, runs) /\ ListHolds(m, entries, proposals)
  BY DEF DriveInv, TaskHolds
<1>3. ~OfferProposal(c)
  BY <1>1 DEF OfferProposal
<1>4. ~InsertProposal(c)
  <2> SUFFICES ASSUME InsertProposal(c) PROVE FALSE
    OBVIOUS
  <2>1. m.pc = "propose" /\ m.todo # {} /\ proposals'[p] = m.plan[Min(m.todo)]
    BY <1>1 DEF InsertProposal, InCall
  <2>2. m.todo \in SUBSET Nat
    BY <1>2 DEF DriveTask
  <2>3. Min(m.todo) \in m.todo
    BY <2>1, <2>2, MinHolds
  <2> QED
    BY <1>2, <2>1, <2>3 DEF LeaseHolds
<1>5. ~MarkProposal(c)
  <2> SUFFICES ASSUME MarkProposal(c) PROVE FALSE
    OBVIOUS
  <2>1. m.pc = "mark" /\ m.todo # {}
    BY <1>1 DEF MarkProposal, InCall
  <2>2. Min(m.todo) \in ProposalIds /\ m.snap[Min(m.todo)] \in DriveProposal
    BY <2>1, ListedProposal
  <2>3. PICK x \in ProposalIds : x = Min(m.todo)
    BY <2>2
  <2>4. /\ proposals[x].ver = m.snap[x].ver
        /\ proposals' = [proposals EXCEPT ![x].status = m.verdict, ![x].ver = @ + 1]
    BY <1>1, <2>1, <2>3 DEF MarkProposal
  <2>5. x = p
    BY <1>1, <2>4
  <2>6. q \in DriveProposal
    BY <2>1, <2>3, <2>4, <2>5, ListedProposal
  <2>7. proposals'[p].status = m.verdict
    BY <1>1, <2>4, <2>5, <2>6 DEF DriveProposal
  <2> QED
    BY <1>2, <2>1, <2>7 DEF CallHolds
<1>6. CommitProposal(c) /\ m.pc = "commit"
  BY <1>0, <1>3, <1>4, <1>5 DEF CommitProposal, InCall
<1>7. m.todo # {}
  BY <1>2, <1>6 DEF ListHolds
<1>8. PICK x \in ProposalIds : x = Min(m.todo) /\ x \in m.todo /\ m.snap[x] \in DriveProposal
  BY <1>6, <1>7, ListedProposal
<1>9. /\ CommitFits(c, x) /\ proposals' = [proposals EXCEPT ![x].status = m.verdict, ![x].ver = @ + 1]
  BY <1>1, <1>6, <1>8 DEF CommitProposal
<1>10. x = p
  BY <1>1, <1>9
<1>11. m.snap[p] = q /\ q \in DriveProposal
  BY <1>6, <1>7, <1>8, <1>9, <1>10, ListedProposal DEF CommitFits
<1>12. m.verdict = "applied"
  BY <1>1, <1>9, <1>10, <1>11 DEF DriveProposal
<1>13. PICK e \in EntryIds : e = q.entry
  BY <1>11 DEF DriveProposal
<1>14. HasEntry(e) /\ entries[e].ver = m.saw /\ entries[e] \in DriveEntry
  BY <1>1, <1>9, <1>10, <1>11, <1>12, <1>13, EntryKinds DEF CommitFits
<1>15. Stands(m, entries, q)
  BY <1>2, <1>6, <1>8, <1>10, <1>11, <1>12 DEF ListHolds
<1>16. entries[e].path = q.from /\ q.hash \in {"none", entries[e].hash}
  BY <1>13, <1>14, <1>15 DEF Stands, HasEntry
<1>17. /\ entries' = [entries EXCEPT ![m.snap[p].entry].path = m.snap[p].to, ![m.snap[p].entry].ver = @ + 1]
       /\ corrections' = Append(corrections, [entry |-> m.snap[p].entry, from |-> m.snap[p].from,
                                              to |-> m.snap[p].to])
  BY <1>6, <1>8, <1>9, <1>10, <1>12 DEF CommitProposal
<1>18. entries'[e].path = q.to /\ entries'[e].hash = entries[e].hash
  BY <1>1, <1>11, <1>13, <1>14, <1>17 DEF DriveEntry
<1>19. corrections' = Append(corrections, [entry |-> q.entry, from |-> q.from, to |-> q.to])
  BY <1>11, <1>17
<1> QED
  BY <1>13, <1>16, <1>18, <1>19

\* A fresh lease is ended by its holder.
LEMMA DriveLeases ==
  ASSUME DriveInv, DriveNext, NEW r \in RunIds, runs[r].fresh, runs'[r].ver # runs[r].ver
  PROVE  \E c \in DriveCalls : tasks[c].pc = "propose" /\ tasks[c].run = r /\ RunFits(c)
<1>1. runs \in [RunIds -> OrganizerRun \cup {NoRun}]
  BY DEF DriveInv, StoreTyped
<1>2. ASSUME NEW x \in RunIds, RunLeaseLapses(x) PROVE FALSE
  <2>1. runs' = [runs EXCEPT ![x].fresh = FALSE] /\ runs[x].status = "running"
    BY <1>2 DEF RunLeaseLapses
  <2>2. runs[x] \in OrganizerRun
    BY <1>1, <2>1, EmptyRecords
  <2> QED
    BY <1>1, <2>1, <2>2 DEF OrganizerRun
<1>3. PICK c \in DriveCalls : InsertRun(c) \/ ClaimRun(c) \/ CompleteRun(c)
  BY <1>2, DriveWriters
<1>4. LeaseHolds(tasks[c], runs)
  BY DEF DriveInv, TaskHolds
<1>5. CASE InsertRun(c)
  <2> DEFINE unused == {x \in RunIds : runs[x] = NoRun}
  <2>1. /\ unused # {}
        /\ runs' = [runs EXCEPT ![Min(unused)] = [status |-> "queued", ver |-> 1, fresh |-> FALSE]]
    BY <1>5 DEF InsertRun
  <2>2. unused \in SUBSET Nat
    BY DEF RunIds
  <2>3. runs[Min(unused)] = NoRun
    BY <2>1, <2>2, MinHolds
  <2>4. r = Min(unused)
    BY <1>1, <2>1
  <2> QED
    BY <2>3, <2>4, EmptyRecords
<1>6. CASE ClaimRun(c)
  <2>1. RunFits(c) /\ tasks[c].pc = "claim" /\ r = tasks[c].run
    BY <1>1, <1>6 DEF ClaimRun, InCall
  <2> QED
    BY <1>4, <2>1 DEF LeaseHolds, RunFits
<1>7. CASE CompleteRun(c)
  <2>1. RunFits(c) /\ tasks[c].pc = "propose" /\ r = tasks[c].run
    BY <1>1, <1>7 DEF CompleteRun, InCall
  <2> QED
    BY <2>1
<1> QED
  BY <1>3, <1>5, <1>6, <1>7

\* However puts, moves, tags, organizers and applied proposals of any number of calls
\* interleave, wait for approvals or crash: two documents never share a path, no
\* document is replaced by a call that has not read it, a proposal is applied only
\* by the very move it proposes, and an organizer's fresh lease is its holder's.
THEOREM DriveIsCorrect == DriveSpec => DriveCorrect
<1>1. DriveInit => DriveInv
  BY DriveInitHolds
<1>2. DriveInv /\ [DriveNext]_driveVars => DriveInv'
  BY DriveStep
<1>3. DriveInv => DriveTypeOK /\ OneEntryPerPath /\ OneOrganizer
  BY DriveInvHolds
<1>4. DriveSpec => []DriveInv
  BY <1>1, <1>2, PTL DEF DriveSpec
<1>5. DriveSpec => SeenBeforeReplaced
  <2>1. DriveInv /\ DriveNext => \A e \in EntryIds :
          HasEntry(e) /\ entries'[e].hash # entries[e].hash
            => \E c \in DriveCalls : \/ tasks[c].id = e /\ tasks[c].saw = entries[e].ver
                                     \/ tasks[c].victim = e /\ tasks[c].victimSaw = entries[e].ver
    BY DriveReplaces
  <2> QED
    BY <1>4, <2>1, PTL DEF DriveSpec, SeenBeforeReplaced
<1>6. DriveSpec => AppliedAsProposed
  <2>1. DriveInv /\ DriveNext => \A p \in ProposalIds :
          LET q == proposals[p] IN
          q.status # "applied" /\ proposals'[p].status = "applied" =>
            /\ entries[q.entry].path = q.from /\ entries'[q.entry].path = q.to
            /\ q.hash \in {"none", entries[q.entry].hash}
            /\ entries'[q.entry].hash = entries[q.entry].hash
            /\ corrections' = Append(corrections, [entry |-> q.entry, from |-> q.from, to |-> q.to])
    BY DriveApplies
  <2> QED
    BY <1>4, <2>1, PTL DEF DriveSpec, AppliedAsProposed
<1>7. DriveSpec => LeaseIsRespected
  <2>1. DriveInv /\ DriveNext => \A r \in RunIds : runs[r].fresh /\ runs'[r].ver # runs[r].ver =>
          \E c \in DriveCalls : tasks[c].pc = "propose" /\ tasks[c].run = r /\ RunFits(c)
    BY DriveLeases
  <2> QED
    BY <1>4, <2>1, PTL DEF DriveSpec, LeaseIsRespected
<1> QED
  BY <1>3, <1>4, <1>5, <1>6, <1>7, PTL DEF DriveCorrect
=============================================================================
