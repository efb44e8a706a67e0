------------------------------ MODULE ActorTree ------------------------------
(***************************************************************************)
(* Child actors of one session (tm-agents): the roster, cancellation       *)
(* tokens, supervision and restarts.  Every incarnation of an actor runs   *)
(* on a thread of its own and reports its end to the roster by actor id;   *)
(* the roster holds one record and one current token per actor.            *)
(* Incarnation i of actor a owns token <<a, i>>.                           *)
(***************************************************************************)
EXTENDS Naturals, FiniteSets, Sequences, SequencesExt

CONSTANTS
    Actors,         \* actor ids, drawn once each
    Root,           \* the synthetic top-level actor
    Strategy,       \* of the groups agents.spawn configures
    MaxRestarts,    \* of those groups
    MaxLive,        \* MAX_ACTORS_PER_SESSION
    MaxConcurrent,  \* MAX_CONCURRENT_ACTORS of a wave
    MaxInc          \* incarnations of one actor

ASSUME ActorConstants ==
    /\ IsFiniteSet(Actors) /\ Root \notin Actors /\ "wave" \notin Actors \cup {Root}
    /\ Strategy \in {"one_for_one", "one_for_all", "rest_for_one"}
    /\ MaxRestarts \in Nat /\ {MaxLive, MaxConcurrent, MaxInc} \subseteq Nat \ {0}

VARIABLES
    rec,        \* the roster
    children,   \* the supervisors' children in order of registration, by group
    attempts,   \* restart attempts by actor
    tripped,    \* tokens that have been cancelled
    exec,       \* each incarnation: not begun, running, or its outcome awaiting the report
    stray,      \* threads whose caller no longer listens
    todo,       \* supervision actions a reporter has still to carry out
    endedBy     \* history: the incarnation whose report ended the record, 0 for a cancel

actorVars == <<rec, children, attempts, tripped, exec, stray, todo, endedBy>>

Incs == 1..MaxInc
Outcomes == {"ok", "crash", "timeout", "cancelled"}
Absent == [end |-> "absent", parent |-> Root, kind |-> "spawn", inc |-> 0]
Groups == Actors \cup {Root, "wave"}

ActorTypeOK ==
    /\ rec \in [Actors -> [end : {"absent", "live", "completed", "failed", "cancelled"},
                           parent : Actors \cup {Root}, kind : {"spawn", "run", "wave"},
                           inc : 0..MaxInc]]
    /\ \A g \in Groups : children[g] \in Seq(Actors) /\ IsInjective(children[g])
    /\ attempts \in [Actors -> Nat]
    /\ tripped \subseteq Actors \X Incs /\ stray \subseteq Actors \X Incs
    /\ exec \in [Actors \X Incs -> {"none", "queued", "running", "gone"} \cup Outcomes]
    /\ \A t \in Actors \X Incs :
            \A k \in DOMAIN todo[t] : todo[t][k] \in [op : {"cancel", "stop", "restart"}, who : Actors]
    /\ endedBy \in [Actors -> 0..MaxInc]

ActorInit ==
    /\ rec = [a \in Actors |-> Absent]
    /\ children = [g \in Groups |-> <<>>]
    /\ attempts = [a \in Actors |-> 0]
    /\ tripped = {} /\ stray = {}
    /\ exec = [t \in Actors \X Incs |-> "none"]
    /\ todo = [t \in Actors \X Incs |-> <<>>]
    /\ endedBy = [a \in Actors |-> 0]

LiveActors == {a \in Actors : rec[a].end = "live"}
GroupOf(a) == IF rec[a].kind = "wave" THEN "wave" ELSE rec[a].parent

-----------------------------------------------------------------------------
(* Registration.                                                           *)

\* track_batch_for_session: the whole wave is registered or none of it.
Enrolled(S, parent, kind) ==
    /\ Cardinality(LiveActors) + Cardinality(S) <= MaxLive
    /\ rec' = [a \in Actors |-> IF a \in S
                                THEN [end |-> "live", parent |-> parent, kind |-> kind, inc |-> 1]
                                ELSE rec[a]]
    /\ LET group == IF kind = "wave" THEN "wave" ELSE parent IN
            children' = [children EXCEPT ![group] = @ \o SetToSeq(S)]
    /\ exec' = [t \in DOMAIN exec |-> IF t[1] \in S /\ t[2] = 1 THEN "queued" ELSE exec[t]]

\* A thread that is still running may spawn, whatever its record says.
CanSpawn(p) ==
    \/ p = Root
    \/ \E i \in Incs : <<p, i>> \in stray \/ (p \in Actors /\ exec[<<p, i>>] = "running")

SpawnActor(p, a, kind) ==
    /\ rec[a].end = "absent" /\ CanSpawn(p)
    /\ Enrolled({a}, p, kind)
    /\ UNCHANGED <<attempts, tripped, stray, todo, endedBy>>

SpawnWave(S) ==
    /\ children["wave"] = <<>>
    /\ \A a \in S : rec[a].end = "absent"
    /\ Enrolled(S, Root, "wave")
    /\ UNCHANGED <<attempts, tripped, stray, todo, endedBy>>

-----------------------------------------------------------------------------
(* One incarnation.                                                        *)

Becomes(t, status) == exec' = [exec EXCEPT ![t] = status]
InWave(t) == rec[t[1]].kind = "wave"
WaveBusy == {t \in Actors \X Incs : InWave(t) /\ exec[t] \notin {"none", "queued", "gone"}}

\* The executor looks at the token before it starts the actor's thread.
StartRun(t) ==
    /\ exec[t] = "queued"
    /\ InWave(t) => Cardinality(WaveBusy) < MaxConcurrent
    /\ Becomes(t, IF t \in tripped THEN "cancelled" ELSE "running")
    /\ UNCHANGED <<rec, children, attempts, tripped, stray, todo, endedBy>>

\* The agent loop ends by itself, or notices its token; it may finish just before.
EndRun(t) ==
    /\ exec[t] = "running"
    /\ \/ Becomes(t, "ok") \/ Becomes(t, "crash")
       \/ t \in tripped /\ Becomes(t, "cancelled")
    /\ UNCHANGED <<rec, children, attempts, tripped, stray, todo, endedBy>>

\* The wall-clock budget: the token is tripped, the thread is left to notice it.
TimeoutRun(t) ==
    /\ exec[t] = "running"
    /\ Becomes(t, "timeout")
    /\ tripped' = tripped \cup {t}
    /\ stray' = stray \cup {t}
    /\ UNCHANGED <<rec, children, attempts, todo, endedBy>>

\* Variant, not the code: a thread nobody listens to still reports its end.
StrayReports(t) ==
    /\ t \in stray
    /\ stray' = stray \ {t}
    /\ rec' = [rec EXCEPT ![t[1]].end = IF @ = "live" THEN "completed" ELSE @]
    /\ endedBy' = IF rec[t[1]].end = "live" THEN [endedBy EXCEPT ![t[1]] = t[2]] ELSE endedBy
    /\ UNCHANGED <<children, attempts, tripped, exec, todo>>

EndStray(t) ==
    /\ t \in stray
    /\ stray' = stray \ {t}
    /\ UNCHANGED <<rec, children, attempts, tripped, exec, todo, endedBy>>

\* The host call that awaits its actors is dropped.  A wave trips every token it
\* holds, agents.run trips none; neither touches the roster, and nobody is left to
\* report the end of the threads.
DropCall(kind) ==
    LET owned == {t \in Actors \X Incs :
                        /\ rec[t[1]].kind = kind /\ t[2] = 1
                        /\ exec[t] \in {"queued", "running"} \cup Outcomes}
    IN
    /\ owned # {}
    /\ exec' = [t \in DOMAIN exec |-> IF t \in owned THEN "gone" ELSE exec[t]]
    /\ stray' = stray \cup {t \in owned : exec[t] = "running"}
    /\ tripped' = IF kind = "wave" THEN tripped \cup owned ELSE tripped
    /\ UNCHANGED <<rec, children, attempts, todo, endedBy>>

-----------------------------------------------------------------------------
(* Supervision.                                                            *)

CurrentToken(a) == <<a, rec[a].inc>>

\* cancel_actor: terminal at once, the actor's current token is tripped.
Cancelled(a) ==
    /\ rec' = [rec EXCEPT ![a].end = IF @ = "live" THEN "cancelled" ELSE @]
    /\ tripped' = IF rec[a].end \in {"live", "cancelled"} THEN tripped \cup {CurrentToken(a)}
                  ELSE tripped
    /\ endedBy' = IF rec[a].end = "live" THEN [endedBy EXCEPT ![a] = 0] ELSE endedBy

\* agents.cancel, by the direct parent.
CancelChild(p, a) ==
    /\ rec[a].end = "live" /\ rec[a].parent = p /\ CanSpawn(p)
    /\ Cancelled(a)
    /\ UNCHANGED <<children, attempts, exec, stray, todo>>

StrategyOf(group) == IF group = "wave" THEN "one_for_all" ELSE Strategy
RestartsOf(group) == IF group = "wave" THEN 0 ELSE MaxRestarts
FailedIndex(seq, a) == CHOOSE i \in DOMAIN seq : seq[i] = a
YoungerSiblings(seq, a) == SubSeq(seq, FailedIndex(seq, a) + 1, Len(seq))
Others(seq, a) == RemoveAt(seq, FailedIndex(seq, a))
As(op, seq) == [k \in DOMAIN seq |-> [op |-> op, who |-> seq[k]]]

CancelTargets(group, a) ==
    CASE StrategyOf(group) = "one_for_one" -> <<>>
      [] StrategyOf(group) = "one_for_all" -> Others(children[group], a)
      [] StrategyOf(group) = "rest_for_one" -> YoungerSiblings(children[group], a)

RestartTargets(group, a) ==
    CASE StrategyOf(group) = "one_for_one" -> <<a>>
      [] StrategyOf(group) = "one_for_all" -> children[group]
      [] StrategyOf(group) = "rest_for_one" -> <<a>> \o YoungerSiblings(children[group], a)

\* record_failure: every failure the executor reports is a crash or a timeout.
OutOfRestarts(a) == attempts[a] >= RestartsOf(GroupOf(a))
Decision(a) ==
    As("cancel", CancelTargets(GroupOf(a), a))
        \o IF OutOfRestarts(a) THEN <<>> ELSE As("restart", RestartTargets(GroupOf(a), a))

\* A success: ignored once the record is cancelled or failed.
ReportOk(t) ==
    LET a == t[1] counts == rec[a].end \in {"live", "completed"} IN
    /\ exec[t] = "ok"
    /\ Becomes(t, "gone")
    /\ rec' = IF counts THEN [rec EXCEPT ![a].end = "completed"] ELSE rec
    /\ attempts' = IF counts THEN [attempts EXCEPT ![a] = 0] ELSE attempts
    /\ endedBy' = IF counts THEN [endedBy EXCEPT ![a] = t[2]] ELSE endedBy
    /\ UNCHANGED <<children, tripped, stray, todo>>

Counts(a) == rec[a].end # "cancelled"

\* Variant, not the code: a failed run is only logged.
ReportErrorLogged(t) ==
    /\ exec[t] \in {"crash", "timeout", "cancelled"}
    /\ Becomes(t, "gone")
    /\ UNCHANGED <<rec, children, attempts, tripped, stray, todo, endedBy>>

\* A failure: ignored once the record is cancelled.  A cancellation reported for a
\* live record trips the token the actor has now.
ReportError(t) ==
    LET a == t[1] IN
    /\ exec[t] \in {"crash", "timeout", "cancelled"}
    /\ Becomes(t, "gone")
    /\ \/ ~Counts(a) /\ UNCHANGED <<rec, attempts, tripped, todo, endedBy>>
       \/ /\ Counts(a)
          /\ rec' = [rec EXCEPT ![a].end = IF exec[t] = "cancelled" THEN "cancelled" ELSE "failed"]
          /\ endedBy' = [endedBy EXCEPT ![a] = t[2]]
          /\ \/ /\ exec[t] = "cancelled"
                /\ tripped' = tripped \cup {CurrentToken(a)}
                /\ UNCHANGED <<attempts, todo>>
             \/ /\ exec[t] # "cancelled"
                /\ todo' = [todo EXCEPT ![t] = Decision(a)]
                /\ attempts' = [attempts EXCEPT ![a] = IF OutOfRestarts(a) THEN @ ELSE @ + 1]
                /\ UNCHANGED tripped
    /\ UNCHANGED <<children, stray>>

\* The actors that every set with a and with the children of its members has.
ClosedBelow(S) == \A b \in Actors : rec[b].end # "absent" /\ rec[b].parent \in S => b \in S
Subtree(a) == {b \in Actors : \A S \in SUBSET Actors : a \in S /\ ClosedBelow(S) => b \in S}

\* The subtree is listed once and then cancelled one actor at a time.
CancelListed(t) ==
    /\ todo[t] # <<>> /\ Head(todo[t]).op = "cancel"
    /\ todo' = [todo EXCEPT ![t] = As("stop", SetToSeq(Subtree(Head(@).who))) \o Tail(@)]
    /\ UNCHANGED <<rec, children, attempts, tripped, exec, stray, endedBy>>

CancelNext(t) ==
    /\ todo[t] # <<>> /\ Head(todo[t]).op = "stop"
    /\ Cancelled(Head(todo[t]).who)
    /\ todo' = [todo EXCEPT ![t] = Tail(@)]
    /\ UNCHANGED <<children, attempts, exec, stray>>

\* prepare_actor_restart_for_session: a new token, a record that is live again whatever
\* ended it, a new thread.  The session's limit on live actors is not looked at.
RestartNext(t) ==
    /\ todo[t] # <<>> /\ Head(todo[t]).op = "restart"
    /\ LET a == Head(todo[t]).who IN
        /\ rec[a].inc < MaxInc
        /\ rec' = [rec EXCEPT ![a] = [@ EXCEPT !.end = "live", !.inc = rec[a].inc + 1]]
        /\ exec' = [exec EXCEPT ![<<a, rec[a].inc + 1>>] = "queued"]
    /\ todo' = [todo EXCEPT ![t] = Tail(@)]
    /\ UNCHANGED <<children, attempts, tripped, stray, endedBy>>

RunStep(t) ==
    \/ StartRun(t) \/ EndRun(t) \/ TimeoutRun(t) \/ EndStray(t)
    \/ ReportOk(t) \/ ReportError(t) \/ CancelListed(t) \/ CancelNext(t) \/ RestartNext(t)

ActorNext ==
    \/ \E p \in Actors \cup {Root}, a \in Actors, kind \in {"spawn", "run"} : SpawnActor(p, a, kind)
    \/ \E S \in SUBSET Actors : Cardinality(S) > 1 /\ SpawnWave(S)
    \/ \E kind \in {"run", "wave"} : DropCall(kind)
    \/ \E p \in Actors \cup {Root}, a \in Actors : CancelChild(p, a)
    \/ \E t \in Actors \X Incs : RunStep(t)

ActorSpec == ActorInit /\ [][ActorNext]_actorVars

\* Threads are scheduled, and the wall-clock budget ends every run.
ActorFairness == \A t \in Actors \X Incs : WF_actorVars(RunStep(t))

-----------------------------------------------------------------------------
\* Two incarnations of one actor never both act: before a new one starts, the token of
\* every earlier one that is still running has been tripped.
OneActiveRun ==
    \A a \in Actors, i, j \in Incs :
        /\ exec[<<a, i>>] = "running" \/ <<a, i>> \in stray
        /\ exec[<<a, j>>] = "running" \/ <<a, j>> \in stray
        /\ {<<a, i>>, <<a, j>>} \cap tripped = {}
        => i = j

\* A record is ended by a cancellation or by the report of the incarnation it shows, never
\* by the late report of an earlier one.
EndedByOwnRun ==
    \A a \in Actors : rec[a].end \in {"completed", "failed", "cancelled"}
                      => endedBy[a] \in {0, rec[a].inc}

\* Once the failure of a wave member has been dealt with, no member runs untouched.
FailureStopsWave ==
    \A a \in Actors :
        rec[a].kind = "wave" /\ rec[a].end = "failed" /\ (\A i \in Incs : todo[<<a, i>>] = <<>>)
        => \A b \in LiveActors : GroupOf(b) = "wave" => CurrentToken(b) \in tripped

\* An actor started by agents.spawn reaches a terminal record.
SpawnedActorEnds ==
    \A a \in Actors :
        rec[a].kind = "spawn" /\ rec[a].end = "live" ~> rec[a].end \in {"completed", "failed", "cancelled"}

\* What the actor tree keeps.
ActorsSafe ==
  /\ ActorTypeOK
  /\ OneActiveRun
  /\ EndedByOwnRun
  /\ FailureStopsWave
=============================================================================
