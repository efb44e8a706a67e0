---------------------------- MODULE EgressRuntime ----------------------------
(***************************************************************************)
(* The egress boundary of tm-egress: one configured destination and one    *)
(* secret, the operator who replaces the policy and revokes versions, the  *)
(* HTTP calls of one turn, the durable effect rows of its mutations and    *)
(* the session budget they draw on.  A mutation is snapshotted, approved,  *)
(* snapshotted again, recorded, sent and sealed; GET is sent at once.      *)
(***************************************************************************)
EXTENDS Naturals, FiniteSets

CONSTANTS
    Calls,          \* host calls of the turn that may overlap
    MaxVersion,     \* versions of the destination and of the secret
    MaxPolicies,    \* bound on policy generations
    MaxTokens,      \* handle tokens ever issued
    MaxStarts,      \* bound on the calls started
    RequestCap,     \* max_requests of the session limits
    ResponseCap     \* max_response_bytes, in units of one reservation

ASSUME EgressConstants ==
    /\ IsFiniteSet(Calls)
    /\ {MaxVersion, MaxPolicies, MaxTokens, MaxStarts} \subseteq Nat \ {0}
    /\ RequestCap \in Nat /\ ResponseCap \in Nat

VARIABLES
    rules,     \* RuntimeState: generation, the configured versions, what is revoked
    handles,    \* token |-> secret version, 0 when the token is unknown or expired
    tokens,     \* tokens issued so far
    outlet,     \* the session: "open", "ended", "cleared"
    effects,    \* egress_mutation_effects by effect id
    usage,      \* egress_session_usage
    calls,      \* what each host call is doing
    starts,     \* calls started so far
    sent,       \* history: transmissions per effect id
    answered    \* history: effect ids whose peer's answer was read to the end

egVars == <<rules, handles, tokens, outlet, effects, usage, calls, starts,
            sent, answered>>

Versions == 1..MaxVersion
EffectIds == [dest : Versions, token : 0..MaxTokens]
Snapshots == [gen : 1..MaxPolicies, dest : 0..MaxVersion, token : 0..MaxTokens]
NoSnapshot == [gen |-> 1, dest |-> 0, token |-> 0]
NoExchange == [pc |-> "idle", kind |-> "get", shown |-> NoSnapshot,
         snap |-> NoSnapshot, outcome |-> "ok", hops |-> 0]
CallErrors == {"denied", "budget", "transport", "timeout", "audit", "durability"}

EgTypeOK ==
    /\ rules \in [gen : 1..MaxPolicies, dest : 0..MaxVersion, secret : 0..MaxVersion,
                   revDest : SUBSET Versions, revSecret : SUBSET Versions]
    /\ handles \in [1..MaxTokens -> 0..MaxVersion]
    /\ tokens \in 0..MaxTokens
    /\ outlet \in {"open", "ended", "cleared"}
    /\ effects \in [EffectIds -> {"none", "started", "succeeded", "failed", "uncertain"}]
    /\ usage \in [requests : Nat, response : Nat, reserved : Nat]
    /\ calls \in [Calls -> [pc : {"idle", "approving", "approved", "prepared", "sealing",
                                  "begun", "audited", "reserved", "settling", "finishing"},
                            kind : {"get", "mutation"}, shown : Snapshots,
                            snap : Snapshots, outcome : CallErrors \cup {"ok", "refused", "redirect"},
                            hops : 0..1]]
    /\ starts \in 0..MaxStarts
    /\ sent \in [EffectIds -> Nat]
    /\ answered \subseteq EffectIds

EgInit ==
    /\ rules = [gen |-> 1, dest |-> 1, secret |-> 1, revDest |-> {}, revSecret |-> {}]
    /\ handles = [t \in 1..MaxTokens |-> 0]
    /\ tokens = 0
    /\ outlet = "open"
    /\ effects = [i \in EffectIds |-> "none"]
    /\ usage = [requests |-> 0, response |-> 0, reserved |-> 0]
    /\ calls = [c \in Calls |-> NoExchange]
    /\ starts = 0
    /\ sent = [i \in EffectIds |-> 0]
    /\ answered = {}

-----------------------------------------------------------------------------
(* The operator.  Version 0 is a destination or a secret left out of the new *)
(* configuration.                                                          *)

\* replace: revocations are kept only for versions the new policy still names,
\* handles only for the secret version it names.
Replace(d, s) ==
    /\ rules.gen < MaxPolicies
    /\ rules' = [gen |-> rules.gen + 1, dest |-> d, secret |-> s,
                  revDest |-> rules.revDest \cap {d},
                  revSecret |-> rules.revSecret \cap {s}]
    /\ handles' = [t \in DOMAIN handles |-> IF handles[t] = s THEN s ELSE 0]
    /\ UNCHANGED <<tokens, outlet, effects, usage, calls, starts, sent, answered>>

RevokeDestination ==
    /\ rules.dest # 0
    /\ rules' = [rules EXCEPT !.revDest = @ \cup {rules.dest}]
    /\ UNCHANGED <<handles, tokens, outlet, effects, usage, calls, starts, sent, answered>>

RevokeSecret ==
    /\ rules.secret # 0
    /\ rules' = [rules EXCEPT !.revSecret = @ \cup {rules.secret}]
    /\ UNCHANGED <<handles, tokens, outlet, effects, usage, calls, starts, sent, answered>>

-----------------------------------------------------------------------------
(* Secret handles.                                                         *)

\* A live handle for the current version is reused; a revoked secret yields none.
IssueSecretHandle ==
    /\ rules.secret \in Versions \ rules.revSecret
    /\ ~\E t \in DOMAIN handles : handles[t] = rules.secret
    /\ tokens < MaxTokens
    /\ tokens' = tokens + 1
    /\ handles' = [handles EXCEPT ![tokens + 1] = rules.secret]
    /\ UNCHANGED <<rules, outlet, effects, usage, calls, starts, sent, answered>>

ExpireHandle(t) ==
    /\ handles[t] # 0
    /\ handles' = [handles EXCEPT ![t] = 0]
    /\ UNCHANGED <<rules, tokens, outlet, effects, usage, calls, starts, sent, answered>>

\* What a snapshot of the policy lets a call do: token 0 is a call without auth.
DestinationAllowed(p) == p.dest \in Versions \ p.revDest

HandleResolves(p, t) ==
    t # 0 => /\ handles[t] # 0
             /\ handles[t] = p.secret
             /\ handles[t] \notin p.revSecret

Snapshot(t) == [gen |-> rules.gen, dest |-> rules.dest, token |-> t]
EffectOf(snap) == [dest |-> snap.dest, token |-> snap.token]

-----------------------------------------------------------------------------
(* A call up to the point where it may touch the network.                  *)

At(c, pc) == calls[c].pc = pc
Go(c, pc) == calls' = [calls EXCEPT ![c].pc = pc]
End(c) == calls' = [calls EXCEPT ![c] = NoExchange]
Fails(c, error) ==
    calls' = [calls EXCEPT ![c] = IF @.kind = "get" THEN NoExchange
                                  ELSE [@ EXCEPT !.pc = "finishing", !.outcome = error]]
offline == <<rules, handles, tokens, outlet, sent, answered>>

\* execute_scoped: authorised against one snapshot and audited before any hop.
StartGet(c, t) ==
    /\ At(c, "idle") /\ starts < MaxStarts
    /\ DestinationAllowed(rules) /\ HandleResolves(rules, t)
    /\ starts' = starts + 1
    /\ calls' = [calls EXCEPT ![c] = [NoExchange EXCEPT !.pc = "audited", !.snap = Snapshot(t)]]
    /\ UNCHANGED <<offline, effects, usage>>

\* prepare_mutation, then the approval prompt built from that snapshot.
StartMutation(c, t) ==
    /\ At(c, "idle") /\ starts < MaxStarts
    /\ DestinationAllowed(rules) /\ HandleResolves(rules, t)
    /\ starts' = starts + 1
    /\ calls' = [calls EXCEPT ![c] = [NoExchange EXCEPT !.pc = "approving", !.kind = "mutation",
                                                  !.shown = Snapshot(t)]]
    /\ UNCHANGED <<offline, effects, usage>>

DecideMutation(c) ==
    /\ At(c, "approving")
    /\ Go(c, "approved") \/ End(c)
    /\ UNCHANGED <<offline, effects, usage, starts>>

\* Variant, not the code: only the destination is compared.
SameTarget(before, after) == before.dest = after.dest

\* The two snapshots of a call are compared whole.
SameSnapshot(before, after) == before = after

\* The second prepare_mutation; a call whose policy moved meanwhile is denied.
Reprepare(c) ==
    LET after == Snapshot(calls[c].shown.token) IN
    /\ At(c, "approved")
    /\ IF /\ DestinationAllowed(rules) /\ HandleResolves(rules, after.token)
          /\ SameSnapshot(calls[c].shown, after)
       THEN calls' = [calls EXCEPT ![c].pc = "prepared", ![c].snap = after]
       ELSE End(c)
    /\ UNCHANGED <<offline, effects, usage, starts>>

\* begin_mutation inserts the row or reads the one a call of this turn left.
Created(id) == effects[id] = "none"

\* finish_egress_effect: a compare-and-set from "started"; another terminal
\* status stays and the caller gets a conflict.
SealedAs(status, final) == IF status = "started" THEN final ELSE status

BeginMutation(c) ==
    LET id == EffectOf(calls[c].snap) IN
    /\ At(c, "prepared")
    /\ \/ /\ Created(id)
          /\ effects' = [effects EXCEPT ![id] = "started"]
          /\ Go(c, "begun")
       \/ /\ ~Created(id)
          /\ IF effects[id] = "started" THEN Go(c, "sealing") ELSE End(c)
          /\ UNCHANGED effects
    /\ UNCHANGED <<offline, usage, starts>>

\* A row found in "started" is sealed as uncertain and its receipt returned.
SealFound(c) ==
    LET id == EffectOf(calls[c].snap) IN
    /\ At(c, "sealing")
    /\ effects' = [effects EXCEPT ![id] = SealedAs(@, "uncertain")]
    /\ End(c)
    /\ UNCHANGED <<offline, usage, starts>>

\* The handle is looked up once more, against the approved snapshot's policy:
\* versions revoked since are not noticed, an expired handle is.
ResolveAndAudit(c) ==
    /\ At(c, "begun")
    /\ \/ /\ calls[c].snap.token # 0 /\ handles[calls[c].snap.token] = 0
          /\ Fails(c, "denied")
       \/ Fails(c, "audit")
       \/ /\ calls[c].snap.token # 0 => handles[calls[c].snap.token] # 0
          /\ Go(c, "audited")
    /\ UNCHANGED <<offline, effects, usage, starts>>

-----------------------------------------------------------------------------
(* The hops.  One unit of response is reserved per hop.                    *)

WithinLimits ==
    /\ usage.requests < RequestCap
    /\ usage.response + usage.reserved + 1 <= ResponseCap

\* The reservation and its settlement, each one transaction on the session row.
UsageReserved == [usage EXCEPT !.requests = @ + 1, !.reserved = @ + 1]
UsageSettled(bytes) == [usage EXCEPT !.reserved = @ - 1, !.response = @ + bytes]

ReserveBudget(c) ==
    /\ At(c, "audited")
    /\ \/ /\ outlet = "open" /\ WithinLimits
          /\ usage' = UsageReserved
          /\ Go(c, "reserved")
       \/ /\ outlet = "open" /\ ~WithinLimits
          /\ Fails(c, "budget")
          /\ UNCHANGED usage
       \/ /\ outlet # "open"
          /\ Fails(c, "durability")
          /\ UNCHANGED usage
    /\ UNCHANGED <<offline, effects, starts>>

\* perform_hop under its timeout.  Without an answer the peer may or may not
\* have seen the request; "budget" is an answer larger than its cap.
PerformHop(c) ==
    LET id == EffectOf(calls[c].snap)
        reaches == calls[c].kind = "mutation" IN
    /\ At(c, "reserved")
    /\ \E outcome \in {"ok", "refused", "redirect", "budget", "transport", "timeout"},
         left \in BOOLEAN :
        /\ outcome \in {"ok", "refused", "redirect", "budget"} => left
        /\ calls' = [calls EXCEPT ![c].pc = "settling", ![c].outcome = outcome]
        /\ sent' = [sent EXCEPT ![id] = IF reaches /\ left THEN @ + 1 ELSE @]
        /\ answered' = IF reaches /\ outcome \in {"ok", "refused", "redirect", "budget"}
                       THEN answered \cup {id} ELSE answered
    /\ UNCHANGED <<rules, handles, tokens, outlet, effects, usage, starts>>

FollowsRedirect(c) == calls[c].kind = "get" /\ calls[c].hops = 0

\* The row of a cleared session is gone.
UsageRowThere == outlet # "cleared"

\* Every outcome settles its reservation; only a GET follows a redirect.
SettleBudget(c) ==
    LET outcome == calls[c].outcome IN
    /\ At(c, "settling")
    /\ \/ /\ UsageRowThere
          /\ \E bytes \in IF outcome \in {"ok", "refused"} THEN 0..1 ELSE {0} :
                usage' = UsageSettled(bytes)
          /\ IF outcome = "redirect"
             THEN IF FollowsRedirect(c)
                  THEN calls' = [calls EXCEPT ![c].pc = "audited", ![c].hops = 1]
                  ELSE Fails(c, "denied")
             ELSE Fails(c, outcome)
       \/ /\ ~UsageRowThere
          /\ Fails(c, "durability")
          /\ UNCHANGED usage
    /\ UNCHANGED <<offline, effects, starts>>

\* The terminal status of a mutation: what could have reached the peer unheard
\* is uncertain.
FinalStatus(outcome) ==
    CASE outcome = "ok" -> "succeeded"
      [] outcome \in {"transport", "timeout", "audit", "durability"} -> "uncertain"
      [] OTHER -> "failed"

\* A row sealed meanwhile by another call makes finish_mutation fail, and the
\* call reports that failure whatever its peer answered.
FinishMutation(c) ==
    LET id == EffectOf(calls[c].snap) IN
    /\ At(c, "finishing")
    /\ effects' = [effects EXCEPT ![id] = SealedAs(@, FinalStatus(calls[c].outcome))]
    /\ End(c)
    /\ UNCHANGED <<offline, usage, starts>>

-----------------------------------------------------------------------------
(* The session and the process around the calls.                           *)

EndEgressSession ==
    /\ outlet = "open"
    /\ outlet' = "ended"
    /\ UNCHANGED <<rules, handles, tokens, effects, usage, calls, starts, sent, answered>>

ClearEgressSession ==
    /\ outlet = "ended"
    /\ outlet' = "cleared"
    /\ handles' = [t \in DOMAIN handles |-> 0]
    /\ usage' = [requests |-> 0, response |-> 0, reserved |-> 0]
    /\ UNCHANGED <<rules, tokens, effects, calls, starts, sent, answered>>

\* Handles, revocations and calls live in the process; effects and usage do not.
CrashEgress ==
    /\ \E c \in Calls : ~At(c, "idle")
    /\ rules' = [rules EXCEPT !.revDest = {}, !.revSecret = {}]
    /\ handles' = [t \in DOMAIN handles |-> 0]
    /\ calls' = [c \in Calls |-> NoExchange]
    /\ UNCHANGED <<tokens, outlet, effects, usage, starts, sent, answered>>

Operate ==
    \/ \E d, s \in 0..MaxVersion : Replace(d, s)
    \/ RevokeDestination
    \/ RevokeSecret

EgCall(c) ==
    \/ \E t \in 0..MaxTokens : StartGet(c, t) \/ StartMutation(c, t)
    \/ DecideMutation(c) \/ Reprepare(c)
    \/ BeginMutation(c) \/ SealFound(c) \/ ResolveAndAudit(c)
    \/ ReserveBudget(c) \/ PerformHop(c) \/ SettleBudget(c) \/ FinishMutation(c)

EgNext ==
    \/ Operate
    \/ IssueSecretHandle
    \/ \E t \in 1..MaxTokens : ExpireHandle(t)
    \/ \E c \in Calls : EgCall(c)
    \/ EndEgressSession
    \/ ClearEgressSession
    \/ CrashEgress

EgSpec == EgInit /\ [][EgNext]_egVars

-----------------------------------------------------------------------------
\* A mutation's effect is transmitted at most once, whatever calls of the turn
\* overlap with it and wherever the process dies (the durable row is inserted
\* before transport and a row found there is never executed again).
NeverResent == \A i \in EffectIds : sent[i] <= 1

\* What the peer may have applied without an answer is never filed as failed:
\* the receipt of such an effect says started or uncertain.
UnheardIsUncertain ==
    \A i \in EffectIds :
        sent[i] > 0 /\ i \notin answered => effects[i] \in {"started", "uncertain"}

\* A mutation is executed under the very policy generation, destination version
\* and handle its approval prompt showed.
SentAsShown ==
    \A c \in Calls :
        calls[c].kind = "mutation" /\ ~(calls[c].pc \in {"idle", "approving", "approved"})
            => calls[c].snap = calls[c].shown

\* Concurrent hops, crashes and late settlements never push the session's
\* usage past its limits, and a reservation still held is still counted.
NeverOverdrawn ==
    /\ usage.requests <= RequestCap
    /\ usage.response + usage.reserved <= ResponseCap
    /\ outlet # "cleared" =>
        Cardinality({c \in Calls : calls[c].pc \in {"reserved", "settling"}}) <= usage.reserved

\* What the egress runtime keeps.
EgressSafe ==
  /\ EgTypeOK
  /\ NeverResent
  /\ UnheardIsUncertain
  /\ SentAsShown
  /\ NeverOverdrawn
=============================================================================
