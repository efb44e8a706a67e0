------------------------------ MODULE MCRuntime ------------------------------
(***************************************************************************)
(* Small instances of what runs beside the turns: two slots of the dream   *)
(* worker, the scheduler, the push outbox and policy evolution; the actors *)
(* of an agent tree; calls that leave through the egress runtime; and two  *)
(* handles of the artifact store. They share no state. A behaviour plays   *)
(* one of them, the scene, and leaves the others where they began.         *)
(***************************************************************************)
EXTENDS ArtifactStore, DreamQueue, CronScheduler, PushOutbox, PolicyEvolution, ActorTree,
        EgressRuntime, TLC

CONSTANTS w1, w2, e1, e2, c1, c2

VARIABLE scene

runtime == <<dreamVars, cronVars, pushVars, evVars, actorVars, egVars, artVars, scene>>

\* Slots of one process share its owner id: only the epoch tells them apart.
OneProcess == [w \in Slots |-> "p"]
OneTurnEach == "t1" :> "a" @@ "t2" :> "b"
Passing == [t \in EvTurns |-> "pass"]

Symmetry == Permutations({c1, c2})

RuntimeInit ==
  /\ scene \in {"artifacts", "dream", "cron", "push", "evolution", "actors", "egress"}
  /\ ArtInit /\ DreamInit /\ CronInit /\ PushInit /\ EvInit /\ ActorInit /\ EgInit

RuntimeNext ==
  /\ UNCHANGED scene
  /\ \/ /\ scene = "dream" /\ DreamNext
        /\ UNCHANGED <<cronVars, pushVars, evVars, actorVars, egVars, artVars>>
     \/ /\ scene = "cron" /\ CronNext
        /\ UNCHANGED <<dreamVars, pushVars, evVars, actorVars, egVars, artVars>>
     \/ /\ scene = "push" /\ PushNext
        /\ UNCHANGED <<dreamVars, cronVars, evVars, actorVars, egVars, artVars>>
     \/ /\ scene = "evolution" /\ EvNext
        /\ UNCHANGED <<dreamVars, cronVars, pushVars, actorVars, egVars, artVars>>
     \/ /\ scene = "actors" /\ ActorNext
        /\ UNCHANGED <<dreamVars, cronVars, pushVars, evVars, egVars, artVars>>
     \/ /\ scene = "egress" /\ EgNext
        /\ UNCHANGED <<dreamVars, cronVars, pushVars, evVars, actorVars, artVars>>
     \/ /\ scene = "artifacts" /\ ArtNext
        /\ UNCHANGED <<dreamVars, cronVars, pushVars, evVars, actorVars, egVars>>

RuntimeSpec == RuntimeInit /\ [][RuntimeNext]_runtime
=============================================================================
