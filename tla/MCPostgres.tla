------------------------------ MODULE MCPostgres ------------------------------
(***************************************************************************)
(* Small instances of what several server processes do to one database:    *)
(* the statements of the turn queue, those of the approvals, two embedding *)
(* workers of one or two versions, dispatchers that drain while the store  *)
(* answers every call, and the memory of a project, in the in-memory store *)
(* as well.  A behaviour plays one of them, the scene, and leaves the      *)
(* others where they began.                                                *)
(***************************************************************************)
EXTENDS PostgresStore, EmbeddingGenerations, ProjectMemory, TurnDispatch

CONSTANTS s1, t1, t2, w1, w2, p1, p2, e1, e2

VARIABLE scene

postgres == <<pgVars, pgaVars, embedVars, memVars, taskVars, scene>>

ChatOnly == <<"chat">>

OwnProcess == [w \in Slots |-> w]
\* Both workers have the same version, or one is upgraded before the other.
OneVersion == [w \in Slots |-> "v1"]
Rollout == {OneVersion, e1 :> "v1" @@ e2 :> "v2"}

Symmetry == Permutations(Workers) \cup Permutations(Conns) \cup Permutations(Turns)

PostgresInit ==
  /\ scene \in {"turns", "approvals", "embeddings", "memory", "drain"}
  /\ PgInit /\ PgaInit /\ EmbedInit /\ MemInit /\ Init
  /\ scene = "memory" \/ backend = "memory"
  /\ scene = "embeddings" \/ versionOf = OneVersion

PostgresNext ==
  /\ UNCHANGED scene
  /\ \/ scene = "turns" /\ PgNext /\ UNCHANGED <<pgaVars, embedVars, memVars, taskVars>>
     \/ scene = "approvals" /\ PgaNext /\ UNCHANGED <<pgVars, embedVars, memVars, taskVars>>
     \/ scene = "embeddings" /\ EmbedNext /\ UNCHANGED <<pgVars, pgaVars, memVars, taskVars>>
     \/ scene = "memory" /\ MemNext /\ UNCHANGED <<pgVars, pgaVars, embedVars, taskVars>>
     \/ scene = "drain" /\ Next /\ UNCHANGED <<log, stmt, pgaVars, embedVars, memVars>>

PostgresSpec == PostgresInit /\ [][PostgresNext]_postgres
=============================================================================
