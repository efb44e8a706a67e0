------------------------------ MODULE DreamQueue ------------------------------
(***************************************************************************)
(* The end of a session and the dreams it queues.  Ending a session writes *)
(* its status, the events session_end and dream_queued and the dream in    *)
(* one transaction; dream workers lease dreams, derive episodes, policies, *)
(* cognition, summaries and proposals from the session, and complete or    *)
(* fail the dream.  A derivation that fails queues a successor dream and   *)
(* lets the dream go on.                                                   *)
(*                                                                         *)
(* The self-evolution tier is one that reaches every proposal.  Redaction, *)
(* input budgets and the contents of what is derived are left out.         *)
(***************************************************************************)
EXTENDS Leases, Sequences

CONSTANTS
  DreamSessions,   \* sessions that may end
  MaxDreams,       \* bound on the rows of dream_queue
  MaxDreamLog      \* bound on a session's events

ASSUME DreamAssumption == MaxDreams \in Nat /\ MaxDreamLog \in Nat

Dreams == 1..MaxDreams

VARIABLES
  dream,      \* dream[d]: the leased row of dream d
  dkey,       \* dkey[d]: its dedupe key
  dsource,    \* dsource[d]: its source_event_seq, 0 for none
  dended,     \* dended[s]: session s has status "ended"
  dlog,       \* dlog[s]: types of s's events; "other" stands for any other
  derived,    \* derived[s]: the derivations of s that succeeded
  proposed,   \* proposed[d]: memory approvals enqueued by attempts at d
  bundles,    \* bundles[s]: skill approvals created for s
  dreamer     \* dreamer[w]: the run_once of slot w

dreamVars == <<dream, dkey, dsource, dended, dlog, derived, proposed, bundles, dreamer>>

-----------------------------------------------------------------------------
Stages == {"value", "policies", "environment"}

\* session_end and the successors of a failed stage; only an environment
\* successor names the dream it follows.
Keys ==
  [kind : {"end", "value", "policies"}, session : DreamSessions, from : {0}]
    \cup [kind : {"environment"}, session : DreamSessions, from : Dreams]

NoKey == [kind |-> "none", session |-> "none", from |-> 0]

DreamStatus == {"none", "queued", "running", "completed", "failed"}

Working == {"value", "policies", "environment", "memory", "skills", "complete"}

Idle == [pc |-> "idle", d |-> 0, lease |-> LeaseOf(NoRow)]

DreamTypeOK ==
  /\ dream \in [Dreams -> Row(DreamStatus, MaxAttempts)]
  /\ dkey \in [Dreams -> Keys \cup {NoKey}]
  /\ dsource \in [Dreams -> 0..MaxDreamLog]
  /\ dended \in [DreamSessions -> BOOLEAN]
  /\ dlog \in [DreamSessions -> Seq({"dream_queued", "session_end", "other"})]
  /\ derived \in [DreamSessions -> SUBSET Stages]
  /\ proposed \in [Dreams -> 0..MaxAttempts]
  /\ bundles \in [DreamSessions -> Nat]
  /\ dreamer \in [Slots -> [pc : {"idle", "claimed", "failing"} \cup Working,
                            d : 0..MaxDreams,
                            lease : [owner : LeaseOwners \cup {NoOwner},
                                     epoch : 0..MaxAttempts]]]

DreamInit ==
  /\ dream = [d \in Dreams |-> NoRow]
  /\ dkey = [d \in Dreams |-> NoKey]
  /\ dsource = [d \in Dreams |-> 0]
  /\ dended = [s \in DreamSessions |-> FALSE]
  /\ dlog = [s \in DreamSessions |-> <<>>]
  /\ derived = [s \in DreamSessions |-> {}]
  /\ proposed = [d \in Dreams |-> 0]
  /\ bundles = [s \in DreamSessions |-> 0]
  /\ dreamer = [w \in Slots |-> Idle]

-----------------------------------------------------------------------------
(* The store.                                                              *)

Keyed(key) == {d \in Dreams : dkey[d] = key}

\* enqueue_dream: a row with the same dedupe key is kept as it is.
Enqueue(key, source, ready) ==
  \/ /\ Keyed(key) # {}
     /\ dsource' = [d \in Dreams |-> IF d \in Keyed(key) /\ dsource[d] = 0
                                     THEN source ELSE dsource[d]]
     /\ UNCHANGED <<dream, dkey>>
  \/ /\ Keyed(key) = {}
     /\ \E d \in Dreams :
          /\ dkey[d] = NoKey
          /\ \A e \in 1..(d - 1) : dkey[e] # NoKey
          /\ dream' = [dream EXCEPT ![d] = NewRow(ready)]
          /\ dkey' = [dkey EXCEPT ![d] = key]
          /\ dsource' = [dsource EXCEPT ![d] = source]

EndKey(s) == [kind |-> "end", session |-> s, from |-> 0]

Ends(s) == {i \in DOMAIN dlog[s] : dlog[s][i] = "session_end"}

\* session_end comes after dream_queued, when that is logged too.
EndSeq(s, inserts) == Len(dlog[s]) + (IF inserts THEN 2 ELSE 1)

\* end_session_and_enqueue_dream.
EndSessionAndEnqueueDream(s) ==
  LET inserts == Keyed(EndKey(s)) = {}
      emitsEnd == ~dended[s] \/ Ends(s) = {} \/ inserts
      queued == IF inserts THEN <<"dream_queued">> ELSE <<>>
      end == IF emitsEnd THEN <<"session_end">> ELSE <<>>
      source == IF emitsEnd THEN EndSeq(s, inserts)
                ELSE CHOOSE i \in Ends(s) : \A j \in Ends(s) : j <= i
  IN /\ Len(dlog[s]) + Len(queued) + Len(end) <= MaxDreamLog
     /\ dended' = [dended EXCEPT ![s] = TRUE]
     /\ dlog' = [dlog EXCEPT ![s] = @ \o queued \o end]
     /\ Enqueue(EndKey(s), source, TRUE)
     /\ UNCHANGED <<derived, proposed, bundles, dreamer>>

\* end_session, which queues nothing.
EndSessionOnly(s) ==
  /\ ~dended[s]
  /\ dended' = [dended EXCEPT ![s] = TRUE]
  /\ UNCHANGED <<dream, dkey, dsource, dlog, derived, proposed, bundles, dreamer>>

\* Any other event of the session: turns', approvals' and the dreams' own.
AppendOther(s) ==
  /\ Len(dlog[s]) < MaxDreamLog
  /\ dlog' = [dlog EXCEPT ![s] = Append(@, "other")]
  /\ UNCHANGED <<dream, dkey, dsource, dended, derived, proposed, bundles, dreamer>>

-----------------------------------------------------------------------------
(* A worker's run_once.                                                    *)

Move(w, pc) == dreamer' = [dreamer EXCEPT ![w].pc = pc]

Ready == {d \in Dreams : Takeable(dream[d]) /\ dream[d].attempts < MaxAttempts}

\* claim_ready_dream_bounded: settles spent dreams, then takes one.
ClaimDream(w) ==
  /\ dreamer[w].pc = "idle"
  /\ \E d \in Ready :
       /\ dream' = [Swept(dream) EXCEPT ![d] = Taken(dream[d], w)]
       /\ dreamer' = [dreamer EXCEPT ![w] =
            [pc |-> "claimed", d |-> d, lease |-> LeaseOf(Taken(dream[d], w))]]
  /\ UNCHANGED <<dkey, dsource, dended, dlog, derived, proposed, bundles>>

\* Variant, not the code: spent dreams are settled only beside a claim.
SweepDreamsNever(w) == FALSE /\ UNCHANGED dreamVars

\* The same call when it finds spent dreams only.
SweepDreams(w) ==
  /\ dreamer[w].pc = "idle" /\ Ready = {}
  /\ \E d \in Dreams : Spent(dream[d])
  /\ dream' = Swept(dream)
  /\ UNCHANGED <<dkey, dsource, dended, dlog, derived, proposed, bundles, dreamer>>

\* dream_started is logged first; when that fails run_once returns with the
\* dream still leased.
StartDream(w) ==
  /\ dreamer[w].pc = "claimed"
  /\ \/ Move(w, "value")
     \/ dreamer' = [dreamer EXCEPT ![w] = Idle]
  /\ UNCHANGED <<dream, dkey, dsource, dended, dlog, derived, proposed, bundles>>

StageAfter == [value |-> "policies", policies |-> "environment", environment |-> "memory"]

SuccessorKey(stage, d) ==
  [kind |-> stage, session |-> dkey[d].session,
   from |-> IF stage = "environment" THEN d ELSE 0]

\* value_episodes, update_policies and update_environment: each succeeds, or
\* queues a successor dream and skips the stages after it.
DeriveStage(w, stage) ==
  LET d == dreamer[w].d
      s == dkey[d].session
  IN /\ dreamer[w].pc = stage
     /\ \/ /\ derived' = [derived EXCEPT ![s] = @ \cup {stage}]
           /\ Move(w, StageAfter[stage])
           /\ UNCHANGED <<dream, dkey, dsource>>
        \/ /\ Enqueue(SuccessorKey(stage, d), dsource[d], FALSE)
           /\ Move(w, "memory")
           /\ UNCHANGED derived
     /\ UNCHANGED <<dended, dlog, proposed, bundles>>

\* spawn_memory_write_proposal: a new approval, whatever earlier attempts did.
ProposeMemory(w) ==
  /\ dreamer[w].pc = "memory"
  /\ proposed' = [proposed EXCEPT ![dreamer[w].d] = @ + 1]
  /\ Move(w, "skills")
  /\ UNCHANGED <<dream, dkey, dsource, dended, dlog, derived, bundles>>

\* A session has skills to propose once its policies were updated: only active
\* policies crystallize.
Crystallized(s) == "policies" \in derived[s]

\* upsert_skill_proposal and create_skill_approval_bundle return what an
\* earlier attempt or an earlier dream created.
ProposeSkills(w) ==
  LET s == dkey[dreamer[w].d].session
  IN /\ dreamer[w].pc = "skills"
     /\ \/ ~Crystallized(s) /\ UNCHANGED bundles
        \/ /\ Crystallized(s)
           /\ bundles' = [bundles EXCEPT ![s] = IF @ = 0 THEN 1 ELSE @]
     /\ Move(w, "complete")
     /\ UNCHANGED <<dream, dkey, dsource, dended, dlog, derived, proposed>>

\* Variant, not the code: the lease is not checked.
CompleteDreamUnfenced(w) ==
  /\ dreamer[w].pc = "complete"
  /\ dream' = [dream EXCEPT ![dreamer[w].d] = Released(@, "completed")]
  /\ dreamer' = [dreamer EXCEPT ![w] = Idle]
  /\ UNCHANGED <<dkey, dsource, dended, dlog, derived, proposed, bundles>>

CompleteDream(w) ==
  LET d == dreamer[w].d
  IN /\ dreamer[w].pc = "complete"
     /\ dream' = IF Holds(dream[d], dreamer[w].lease)
                 THEN [dream EXCEPT ![d] = [Released(@, "completed") EXCEPT !.ready = TRUE]]
                 ELSE dream
     /\ dreamer' = [dreamer EXCEPT ![w] = Idle]
     /\ UNCHANGED <<dkey, dsource, dended, dlog, derived, proposed, bundles>>

\* An error of the store, the redaction being off, or the per-dream timeout.
BreakDream(w) ==
  /\ dreamer[w].pc \in Working
  /\ Move(w, "failing")
  /\ UNCHANGED <<dream, dkey, dsource, dended, dlog, derived, proposed, bundles>>

FailDream(w) ==
  LET d == dreamer[w].d
  IN /\ dreamer[w].pc = "failing"
     /\ dream' = IF Holds(dream[d], dreamer[w].lease)
                 THEN [dream EXCEPT ![d] = Failed(@)] ELSE dream
     /\ dreamer' = [dreamer EXCEPT ![w] = Idle]
     /\ UNCHANGED <<dkey, dsource, dended, dlog, derived, proposed, bundles>>

\* A heartbeat whose lease is gone ends the processing with an error.
HeartbeatDream(w) ==
  LET d == dreamer[w].d
      held == Holds(dream[d], dreamer[w].lease)
  IN /\ dreamer[w].pc \in Working
     /\ held => dream[d].stale
     /\ dream' = IF held THEN [dream EXCEPT ![d] = Renewed(@)] ELSE dream
     /\ dreamer' = IF held THEN dreamer ELSE [dreamer EXCEPT ![w].pc = "failing"]
     /\ UNCHANGED <<dkey, dsource, dended, dlog, derived, proposed, bundles>>

ElapseDream(d) ==
  /\ dream' = [dream EXCEPT ![d] = Elapse(@)]
  /\ dream' # dream
  /\ UNCHANGED <<dkey, dsource, dended, dlog, derived, proposed, bundles, dreamer>>

\* A process dies, or is aborted after its grace: its slots forget everything.
CrashDreams(o) ==
  /\ \E w \in Slots : OwnerOf[w] = o /\ dreamer[w].pc # "idle"
  /\ dreamer' = [w \in Slots |-> IF OwnerOf[w] = o THEN Idle ELSE dreamer[w]]
  /\ UNCHANGED <<dream, dkey, dsource, dended, dlog, derived, proposed, bundles>>

DreamStep(w) ==
  \/ ClaimDream(w) \/ SweepDreams(w) \/ StartDream(w)
  \/ \E stage \in Stages : DeriveStage(w, stage)
  \/ ProposeMemory(w) \/ ProposeSkills(w) \/ CompleteDream(w)
  \/ BreakDream(w) \/ FailDream(w)

DreamNext ==
  \/ \E s \in DreamSessions :
       EndSessionAndEnqueueDream(s) \/ EndSessionOnly(s) \/ AppendOther(s)
  \/ \E w \in Slots : DreamStep(w) \/ HeartbeatDream(w)
  \/ \E d \in Dreams : ElapseDream(d)
  \/ \E o \in LeaseOwners : CrashDreams(o)

DreamSpec == DreamInit /\ [][DreamNext]_dreamVars

\* Workers poll for ever and time passes.
DreamFairness ==
  /\ \A w \in Slots : WF_dreamVars(DreamStep(w))
  /\ \A d \in Dreams : WF_dreamVars(ElapseDream(d))
-----------------------------------------------------------------------------
(* Properties.                                                             *)

\* Two runs never hold the lease of one dream at once, the runs of one
\* process included, which share its owner id.
OneDreamHolder ==
  \A v, w \in Slots :
    /\ dreamer[v].pc # "idle" /\ dreamer[w].pc # "idle" /\ dreamer[v].d = dreamer[w].d
    /\ Holds(dream[dreamer[v].d], dreamer[v].lease)
    /\ Holds(dream[dreamer[w].d], dreamer[w].lease)
    => v = w

\* A completed dream has enqueued its memory proposals: completion comes
\* after the downstream effects, under retries and lost leases too.
CompletedAfterProposals ==
  \A d \in Dreams : dream[d].status = "completed" => proposed[d] > 0

\* However often dreams of a session are retried or followed by successors,
\* its skill proposal is put up for approval once.
OneSkillApproval == \A s \in DreamSessions : bundles[s] <= 1

\* The source of a session's end dream is a session_end event of its log,
\* whichever ways the session was ended and whatever was logged in between.
SourceIsSessionEnd ==
  \A d \in Dreams :
    dkey[d].kind = "end" => dsource[d] \in Ends(dkey[d].session)

\* The dream queue implements the bounded work queue of LeasedWork.
DreamWork == INSTANCE LeasedWork WITH
  Items <- Dreams,
  MaxTries <- MaxAttempts,
  work <- [d \in Dreams |->
             [state |-> CASE dream[d].status = "none" -> "absent"
                          [] dream[d].status = "completed" -> "done"
                          [] dream[d].status = "failed" -> "dead"
                          [] OTHER -> "open",
              tries |-> dream[d].attempts]]

\* Every claim, retry, completion and failure of a dream is a step the
\* bounded work queue allows.
DreamsAreLeasedWork == DreamWork!WorkSpec

\* Every queued dream is completed or failed in the end.
EveryDreamEnds ==
  \A d \in Dreams :
    dream[d].status = "queued" ~> dream[d].status \in {"completed", "failed"}

\* What the dream queue promises.
DreamsCorrect ==
  /\ []DreamTypeOK
  /\ []OneDreamHolder
  /\ []CompletedAfterProposals
  /\ []SourceIsSessionEnd
  /\ DreamsAreLeasedWork
=============================================================================
