--------------------------- MODULE PolicyEvolution ---------------------------
(***************************************************************************)
(* What the dreams of one memory scope learn from finished turns: an       *)
(* episode with its trace per turn, the reward that values it, the         *)
(* reliability counters of the skill that was selected for the turn, and   *)
(* the policy that the traces of one signature support.  Two dreams of the *)
(* scope, or a dream and the run that lost its lease, may do this at the   *)
(* same time; only single store calls are atomic.                          *)
(*                                                                         *)
(* Every turn has one trace and all traces have the same signature.  A     *)
(* reward is a pass or a fail, neutral ones being left out, and the gain   *)
(* of a policy with counter-evidence may come out either way.              *)
(***************************************************************************)
EXTENDS Naturals, FiniteSets

CONSTANTS
  EvTurns,       \* finished turns
  EvSessions,
  SessionOfTurn, \* SessionOfTurn[t]
  RuntimeReward, \* RuntimeReward[t]: the reward the turn's events give it
  Evolvers,      \* runs of dreams that may be under way at once
  NMin,          \* episodes that must support a new policy (2 in the code)
  MaxTraceIds,   \* bound on trace replacements
  MaxEvRuns      \* bound on dream runs

Rewards == {"pass", "fail"}

ASSUME EvolutionAssumption ==
  /\ SessionOfTurn \in [EvTurns -> EvSessions]
  /\ RuntimeReward \in [EvTurns -> Rewards]
  /\ NMin \in Nat \ {0} /\ MaxTraceIds \in Nat /\ MaxEvRuns \in Nat

VARIABLES
  episode,    \* episode[t]: status and terminal reward
  trace,      \* trace[t]: id and value of its trace; id 0 when there is none
  traceIds,   \* trace ids given out
  feedback,   \* feedback[t]: the user's feedback, "none" before
  exposed,    \* turns whose skill_selected event is logged
  outcomes,   \* skill_runtime_outcomes: <<turn, reward>>
  stats,      \* the counters of the skill
  links,      \* policy_trace_links: [turn, id, positive]
  policy,     \* the policy of the signature
  evolver,    \* evolver[w]: a dream's run through the stages
  evRuns      \* runs begun

evStore == <<episode, trace, traceIds, feedback, exposed, outcomes, stats, links, policy>>
evVars == <<evStore, evolver, evRuns>>

-----------------------------------------------------------------------------
NoPolicy == [status |-> "none", support |-> {}]
NoRunning == [pc |-> "idle", session |-> "none", todo |-> {}, turn |-> "none",
            known |-> {}, plan |-> {}, valued |-> {}, found |-> {}]

Plans == [turn : EvTurns, reward : Rewards, id : 0..MaxTraceIds]
Links == [turn : EvTurns, id : 1..MaxTraceIds, positive : BOOLEAN]

EvTypeOK ==
  /\ episode \in [EvTurns -> [status : {"none", "captured", "valued"},
                              reward : Rewards \cup {"none"}]]
  /\ trace \in [EvTurns -> [id : 0..MaxTraceIds, value : Rewards \cup {"none"}]]
  /\ traceIds \in 0..MaxTraceIds
  /\ feedback \in [EvTurns -> Rewards \cup {"none"}]
  /\ exposed \subseteq EvTurns
  /\ outcomes \subseteq EvTurns \X Rewards
  /\ stats \in [exposures : Nat, pass : Nat, fail : Nat]
  /\ links \subseteq Links
  /\ policy \in [status : {"none", "candidate", "active", "archived"},
                 support : SUBSET EvTurns]
  /\ evRuns \in 0..MaxEvRuns
  /\ \A w \in Evolvers :
       /\ evolver[w].pc \in {"idle", "capture", "trace", "look", "value", "pool",
                             "induce", "link", "gain", "write"}
       /\ evolver[w].plan \subseteq Plans /\ evolver[w].found \subseteq Links

EvInit ==
  /\ episode = [t \in EvTurns |-> [status |-> "none", reward |-> "none"]]
  /\ trace = [t \in EvTurns |-> [id |-> 0, value |-> "none"]]
  /\ traceIds = 0
  /\ feedback = [t \in EvTurns |-> "none"]
  /\ exposed = {}
  /\ outcomes = {}
  /\ stats = [exposures |-> 0, pass |-> 0, fail |-> 0]
  /\ links = {}
  /\ policy = NoPolicy
  /\ evolver = [w \in Evolvers |-> NoRunning]
  /\ evRuns = 0

-----------------------------------------------------------------------------
(* Turns and clients.                                                      *)

\* record_skill_exposures_for_turn, while the turn runs: event and counter
\* in one statement.
Expose(t) ==
  /\ evRuns = 0 /\ t \notin exposed
  /\ exposed' = exposed \cup {t}
  /\ stats' = [stats EXCEPT !.exposures = @ + 1]
  /\ UNCHANGED <<episode, trace, traceIds, feedback, outcomes, links, policy, evolver, evRuns>>

\* record_turn_feedback: the first feedback stays.
GiveFeedback(t, r) ==
  /\ feedback[t] = "none"
  /\ feedback' = [feedback EXCEPT ![t] = r]
  /\ UNCHANGED <<episode, trace, traceIds, exposed, outcomes, stats, links, policy, evolver, evRuns>>

-----------------------------------------------------------------------------
(* A dream's run: capture_episodes, value_episodes, update_policies.       *)

EvTo(w, to) == evolver' = [evolver EXCEPT ![w] = to]

BeginRun(w, s) ==
  /\ evolver[w].pc = "idle" /\ evRuns < MaxEvRuns
  /\ evRuns' = evRuns + 1
  /\ EvTo(w, [NoRunning EXCEPT !.pc = "capture", !.session = s,
                           !.todo = {t \in EvTurns : SessionOfTurn[t] = s}])
  /\ UNCHANGED evStore

\* upsert_evolution_episode; an episode that has traces is kept as read.
CaptureEpisode(w, t) ==
  LET e == evolver[w]
      fresh == episode[t].status = "none"
      kept == ~fresh /\ trace[t].id # 0
  IN /\ e.pc = "capture" /\ t \in e.todo
     /\ episode' = IF fresh THEN [episode EXCEPT ![t].status = "captured"] ELSE episode
     /\ EvTo(w, [e EXCEPT !.todo = @ \ {t},
                        !.known = IF episode[t].status = "valued" THEN @ \cup {t} ELSE @,
                        !.pc = IF kept THEN "capture" ELSE "trace",
                        !.turn = IF kept THEN "none" ELSE t])
     /\ UNCHANGED <<trace, traceIds, feedback, exposed, outcomes, stats, links, policy, evRuns>>

\* replace_experience_traces: new ids, no values.
ReplaceTraces(w) ==
  LET t == evolver[w].turn
  IN /\ evolver[w].pc = "trace" /\ traceIds < MaxTraceIds
     /\ traceIds' = traceIds + 1
     /\ trace' = [trace EXCEPT ![t] = [id |-> traceIds + 1, value |-> "none"]]
     /\ EvTo(w, [evolver[w] EXCEPT !.pc = "capture", !.turn = "none"])
     /\ UNCHANGED <<episode, feedback, exposed, outcomes, stats, links, policy, evRuns>>

EndCapture(w) ==
  /\ evolver[w].pc = "capture" /\ evolver[w].todo = {}
  /\ EvTo(w, [evolver[w] EXCEPT !.pc = "look",
              !.todo = {t \in EvTurns : SessionOfTurn[t] = evolver[w].session}])
  /\ UNCHANGED <<evStore, evRuns>>

\* explicit_reward or runtime_reward.
RewardOf(t) == IF feedback[t] # "none" THEN feedback[t] ELSE RuntimeReward[t]

\* The first loop of value_episodes reads every episode still captured.
LookAt(w, t) ==
  LET e == evolver[w]
  IN /\ e.pc = "look" /\ t \in e.todo
     /\ EvTo(w, [e EXCEPT !.todo = @ \ {t},
                        !.plan = IF episode[t].status = "captured"
                                 THEN @ \cup {[turn |-> t, reward |-> RewardOf(t),
                                               id |-> trace[t].id]}
                                 ELSE @])
     /\ UNCHANGED <<evStore, evRuns>>

EndLook(w) ==
  /\ evolver[w].pc = "look" /\ evolver[w].todo = {}
  /\ EvTo(w, [evolver[w] EXCEPT !.pc = "value"])
  /\ UNCHANGED <<evStore, evRuns>>

SelectedOutcome(p) == IF p.turn \in exposed THEN {<<p.turn, p.reward>>} ELSE {}

\* set_episode_valuation, repeated with what it has stored already.
AlreadyValued(p) ==
  /\ episode[p.turn] = [status |-> "valued", reward |-> p.reward]
  /\ trace[p.turn] = [id |-> p.id, value |-> p.reward]
  /\ {o \in outcomes : o[1] = p.turn} = SelectedOutcome(p)

\* Variant, not the code: a valued episode is valued again.
ValueEpisodeAgain(w, p) ==
  LET t == p.turn
      first == episode[t].status = "captured" /\ p.turn \in exposed
  IN /\ evolver[w].pc = "value" /\ p \in evolver[w].plan /\ trace[t].id = p.id
     /\ trace' = [trace EXCEPT ![t].value = p.reward]
     /\ outcomes' = IF first THEN outcomes \cup SelectedOutcome(p) ELSE outcomes
     /\ stats' = IF first THEN [stats EXCEPT ![p.reward] = @ + 1] ELSE stats
     /\ episode' = [episode EXCEPT ![t] = [status |-> "valued", reward |-> p.reward]]
     /\ EvTo(w, [evolver[w] EXCEPT !.plan = @ \ {p}, !.valued = @ \cup {t}])
     /\ UNCHANGED <<traceIds, feedback, exposed, links, policy, evRuns>>

\* set_episode_valuation: traces, outcome, counters and episode in one
\* transaction; an episode valued otherwise, or whose trace was replaced, is
\* an error that ends the run's evolution stages.
ValueEpisode(w, p) ==
  LET e == evolver[w]
      t == p.turn
  IN /\ e.pc = "value" /\ p \in e.plan
     /\ \/ /\ AlreadyValued(p)
           /\ EvTo(w, [e EXCEPT !.plan = @ \ {p}, !.valued = @ \cup {t}])
           /\ UNCHANGED <<episode, trace, outcomes, stats>>
        \/ /\ episode[t].status = "captured" /\ trace[t].id = p.id
           /\ trace' = [trace EXCEPT ![t].value = p.reward]
           /\ outcomes' = outcomes \cup SelectedOutcome(p)
           /\ stats' = IF SelectedOutcome(p) = {} THEN stats ELSE [stats EXCEPT ![p.reward] = @ + 1]
           /\ episode' = [episode EXCEPT ![t] = [status |-> "valued", reward |-> p.reward]]
           /\ EvTo(w, [e EXCEPT !.plan = @ \ {p}, !.valued = @ \cup {t}])
        \/ /\ ~AlreadyValued(p) /\ (episode[t].status # "captured" \/ trace[t].id # p.id)
           /\ EvTo(w, NoRunning)
           /\ UNCHANGED <<episode, trace, outcomes, stats>>
     /\ UNCHANGED <<traceIds, feedback, exposed, links, policy, evRuns>>

\* update_policies reads the policy and the traces of the episodes valued by
\* this run or known as valued when it captured them.
PoolTraces(w) ==
  LET e == evolver[w]
      usable == {t \in e.valued \cup e.known : trace[t].value # "none"}
      found == {[turn |-> t, id |-> trace[t].id, positive |-> trace[t].value = "pass"] : t \in usable}
      positive == {l \in found : l.positive}
  IN /\ e.pc = "value" /\ e.plan = {}
     /\ IF policy.status # "none" /\ found # {}
        THEN EvTo(w, [e EXCEPT !.pc = "link", !.found = found])
        ELSE IF policy.status = "none" /\ Cardinality(positive) >= NMin
        THEN EvTo(w, [e EXCEPT !.pc = "induce", !.found = positive])
        ELSE EvTo(w, NoRunning)
     /\ UNCHANGED <<evStore, evRuns>>

\* upsert_evolution_policy of a new candidate, over one that another run has
\* induced meanwhile too.
InducePolicy(w) ==
  /\ evolver[w].pc = "induce"
  /\ policy' = [status |-> "candidate", support |-> {}]
  /\ EvTo(w, [evolver[w] EXCEPT !.pc = "link"])
  /\ UNCHANGED <<episode, trace, traceIds, feedback, exposed, outcomes, stats, links, evRuns>>

\* link_policy_traces: a trace that is linked already stays as it is; all the others
\* are linked or, when one of them is gone, none and an error.
LinkTraces(w) ==
  LET linked == {l.id : l \in links}
      new == {l \in evolver[w].found : l.id \notin linked}
      there == \A l \in new : trace[l.turn].id = l.id /\ trace[l.turn].value # "none"
  IN /\ evolver[w].pc = "link"
     /\ links' = IF there THEN links \cup new ELSE links
     /\ EvTo(w, IF there THEN [evolver[w] EXCEPT !.pc = "gain"] ELSE NoRunning)
     /\ UNCHANGED <<episode, trace, traceIds, feedback, exposed, outcomes, stats, policy, evRuns>>

\* policy_trace_values.
ReadLinks(w) ==
  /\ evolver[w].pc = "gain"
  /\ EvTo(w, [evolver[w] EXCEPT !.pc = "write", !.found = links])
  /\ UNCHANGED <<evStore, evRuns>>

\* The sign of the gain: positive when no evidence speaks against it.
Verdicts(ls) ==
  IF \A l \in ls : l.positive THEN {"active"} ELSE {"active", "candidate", "archived"}

WritePolicy(w) ==
  LET ls == evolver[w].found
  IN /\ evolver[w].pc = "write"
     /\ \E s \in Verdicts(ls) :
          policy' = [status |-> s, support |-> {l.turn : l \in {k \in ls : k.positive}}]
     /\ EvTo(w, NoRunning)
     /\ UNCHANGED <<episode, trace, traceIds, feedback, exposed, outcomes, stats, links, evRuns>>

\* A crash, the per-dream timeout, or an error of the store.
StopRun(w) ==
  /\ evolver[w].pc # "idle"
  /\ EvTo(w, NoRunning)
  /\ UNCHANGED <<evStore, evRuns>>

EvNext ==
  \/ \E t \in EvTurns : Expose(t)
  \/ \E t \in EvTurns, r \in Rewards : GiveFeedback(t, r)
  \/ \E w \in Evolvers :
       \/ \E s \in EvSessions : BeginRun(w, s)
       \/ \E t \in EvTurns : CaptureEpisode(w, t) \/ LookAt(w, t)
       \/ \E p \in Plans : ValueEpisode(w, p)
       \/ ReplaceTraces(w) \/ EndCapture(w) \/ EndLook(w) \/ PoolTraces(w)
       \/ InducePolicy(w) \/ LinkTraces(w) \/ ReadLinks(w) \/ WritePolicy(w)
       \/ StopRun(w)

EvSpec == EvInit /\ [][EvNext]_evVars

-----------------------------------------------------------------------------
(* Properties.                                                             *)

\* At most one outcome is recorded for a turn and the counters say exactly
\* what is recorded: retried dreams, racing runs and late feedback count
\* nothing twice, and nothing for a turn the skill was not selected for.
OutcomesCountedOnce ==
  /\ \A o, p \in outcomes : o[1] = p[1] => o = p
  /\ \A o \in outcomes : o[1] \in exposed /\ episode[o[1]].reward = o[2]
  /\ \A r \in Rewards : stats[r] = Cardinality({o \in outcomes : o[2] = r})
  /\ stats.pass + stats.fail <= stats.exposures

\* Once an episode is valued its reward never changes, whatever feedback or
\* racing valuation comes later.
RewardIsFinal ==
  [][\A t \in EvTurns : episode[t].status = "valued" => episode'[t] = episode[t]]_evVars

\* What a policy claims as support was linked to it, by a trace of an episode
\* that ended well.
SupportIsLinked ==
  \A t \in policy.support :
    /\ \E l \in links : l.turn = t /\ l.positive
    /\ episode[t].reward = "pass"

\* What episodes, outcomes and policies keep.
EvolutionCorrect ==
  /\ []EvTypeOK
  /\ []OutcomesCountedOnce
  /\ []SupportIsLinked
  /\ RewardIsFinal
=============================================================================
