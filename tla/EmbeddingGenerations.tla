------------------------- MODULE EmbeddingGenerations -------------------------
(***************************************************************************)
(* Dense recall of one memory scope.  A generation of vectors, one per     *)
(* embedding version, is staged against the scope's revision; workers      *)
(* embed the records it lacks; a generation that covers the scope becomes  *)
(* ready and the active pointer moves to it.  Every statement of the       *)
(* worker's tick is a step: records may change between any two.            *)
(*                                                                         *)
(* A trigger on memory_records raises the revision with every change.      *)
(* External: pgvector, and the embedding service, which may fail.  Workers *)
(* run with max_batch_size = 1 and one input limit; vector values are left *)
(* out.  The scope is never revoked.                                       *)
(***************************************************************************)
EXTENDS Leases, FiniteSets

CONSTANTS
  Records,        \* ids of memory records
  MaxKey,         \* bound on the contents a record has in turn
  EmbedVersions,       \* embedding versions
  Deployments,    \* the assignments of versions to workers
  Oversized,      \* contents longer than the input limit
  MaxJobClaims,   \* bound on the claims of a job
  MaxEmbedFaults  \* bound on failures of the service and crashes of workers

ASSUME EmbedAssumption ==
  /\ MaxKey \in Nat /\ MaxJobClaims \in Nat /\ MaxEmbedFaults \in Nat
  /\ Deployments \subseteq [Slots -> EmbedVersions]
  /\ Oversized \subseteq 1..MaxKey

VARIABLES
  content,     \* content[r]: its content key; 0: no such record
  retired,     \* records that are corrected, superseded or withdrawn
  scopeRevision,    \* the row of memory_scope_revisions
  gen,         \* gen[v]: the row of memory_embedding_generations
  active,      \* the row of memory_embedding_active_versions
  vector,      \* vector[v][r]: the content key of the stored vector, 0: none
  job,         \* job[j]: the leased row of an embedding job
  tooLarge,    \* jobs whose failure_code is input_too_large
  embedder,    \* embedder[w]: the tick of worker w
  versionOf,   \* versionOf[w]: the version worker w is configured with
  embedFaults

embedVars == <<content, retired, scopeRevision, gen, active, vector, job, tooLarge,
               embedder, versionOf, embedFaults>>

-----------------------------------------------------------------------------
ContentKeys == 1..MaxKey
Jobs == [record : Records, key : ContentKeys, version : EmbedVersions]

MaxRevision == Cardinality(Records) * (MaxKey + 1)

LiveRecords == {r \in Records : content[r] > 0 /\ r \notin retired}

\* Records as a worker read them: their content keys, 0 for the others.
EmbedSnapshot == [r \in Records |-> IF r \in LiveRecords THEN content[r] ELSE 0]
NoKeys == [r \in Records |-> 0]

NoGen == [status |-> "none", snapshot |-> 0, expected |-> 0, order |-> 0]
NoPointer == [version |-> "none", order |-> 0, snapshot |-> 0]
NoJob == [record |-> "none", key |-> 0, version |-> "none"]

Resting == [pc |-> "idle", rev |-> 0, existing |-> NoGen, seen |-> NoKeys,
            job |-> NoJob, lease |-> LeaseOf(NoRow)]

Gen == [status : {"none", "staging", "ready", "failed"}, snapshot : 0..MaxRevision,
        expected : 0..Cardinality(Records), order : 0..Cardinality(EmbedVersions)]

EmbedTypeOK ==
  /\ content \in [Records -> 0..MaxKey]
  /\ retired \subseteq Records
  /\ scopeRevision \in 0..MaxRevision
  /\ gen \in [EmbedVersions -> Gen]
  /\ active \in [version : EmbedVersions \cup {"none"}, order : 0..Cardinality(EmbedVersions),
                 snapshot : 0..MaxRevision]
  /\ vector \in [EmbedVersions -> [Records -> 0..MaxKey]]
  /\ job \in [Jobs -> Row({"none", "queued", "running", "completed", "failed"}, MaxJobClaims)]
  /\ tooLarge \subseteq Jobs
  /\ embedder \in [Slots ->
       [pc : {"idle", "existing", "read", "stage", "enqueue", "activate", "claim", "check",
              "embed", "verify", "store", "promote", "reconcile"},
        rev : 0..MaxRevision, existing : Gen, seen : [Records -> 0..MaxKey],
        job : Jobs \cup {NoJob},
        lease : [owner : LeaseOwners \cup {NoOwner}, epoch : 0..MaxJobClaims]]]
  /\ versionOf \in Deployments /\ embedFaults \in 0..MaxEmbedFaults

EmbedInit ==
  /\ content = NoKeys /\ retired = {} /\ scopeRevision = 0
  /\ gen = [v \in EmbedVersions |-> NoGen]
  /\ active = NoPointer
  /\ vector = [v \in EmbedVersions |-> NoKeys]
  /\ job = [j \in Jobs |-> NoRow]
  /\ tooLarge = {}
  /\ embedder = [w \in Slots |-> Resting]
  /\ versionOf \in Deployments /\ embedFaults = 0

-----------------------------------------------------------------------------
(* Records.                                                                *)

\* upsert_memory_record: a new record, or new content for an old one.
UpsertRecord(r) ==
  /\ content[r] < MaxKey /\ r \notin retired
  /\ content' = [content EXCEPT ![r] = @ + 1]
  /\ scopeRevision' = scopeRevision + 1
  /\ UNCHANGED <<retired, gen, active, vector, job, tooLarge, embedder, embedFaults, versionOf>>

RetireRecord(r) ==
  /\ r \in LiveRecords
  /\ retired' = retired \cup {r}
  /\ scopeRevision' = scopeRevision + 1
  /\ UNCHANGED <<content, gen, active, vector, job, tooLarge, embedder, embedFaults, versionOf>>

-----------------------------------------------------------------------------
(* stage_memory_embedding_generation.                                      *)

Goes(w, pc) == embedder' = [embedder EXCEPT ![w].pc = pc]

\* The tick reads the revision, then the generation, then the records.
ReadRevision(w) ==
  /\ embedder[w].pc = "idle" /\ LiveRecords # {}
  /\ embedder' = [embedder EXCEPT ![w] = [Resting EXCEPT !.pc = "existing", !.rev = scopeRevision]]
  /\ UNCHANGED <<content, retired, scopeRevision, gen, active, vector, job, tooLarge, embedFaults, versionOf>>

\* A generation of this revision that is ready or failed is left alone.
ReadGeneration(w) ==
  LET g == gen[versionOf[w]]
      settled == g.snapshot = embedder[w].rev /\ g.status \in {"ready", "failed"}
  IN /\ embedder[w].pc = "existing"
     /\ embedder' = [embedder EXCEPT ![w].existing = g,
                                     ![w].pc = IF settled THEN "claim" ELSE "read"]
     /\ UNCHANGED <<content, retired, scopeRevision, gen, active, vector, job, tooLarge, embedFaults, versionOf>>

ReadRecords(w) ==
  /\ embedder[w].pc = "read"
  /\ embedder' = [embedder EXCEPT ![w].seen = EmbedSnapshot, ![w].pc = "stage"]
  /\ UNCHANGED <<content, retired, scopeRevision, gen, active, vector, job, tooLarge, embedFaults, versionOf>>

Seen(w) == {r \in Records : embedder[w].seen[r] > 0}

NextOrder == 1 + Cardinality({v \in EmbedVersions : gen[v].status # "none"})

Staged(w, order) ==
  [status |-> "staging", snapshot |-> embedder[w].rev, expected |-> Cardinality(Seen(w)),
   order |-> order]

\* Inserts the generation, or restages it unless a later revision is staged,
\* or goes on with the one found staging at this revision.
StageGeneration(w) ==
  LET v == versionOf[w]
      old == embedder[w].existing
      same == old.status = "staging" /\ old.snapshot = embedder[w].rev
  IN /\ embedder[w].pc = "stage"
     /\ old.status = "none" => gen[v].status = "none"
     /\ gen' = IF same \/ gen[v].snapshot > embedder[w].rev THEN gen
               ELSE [gen EXCEPT ![v] = Staged(w, IF old.status = "none" THEN NextOrder
                                                 ELSE gen[v].order)]
     /\ embedder' = [embedder EXCEPT
          ![w].existing = IF same THEN old ELSE gen'[v], ![w].pc = "enqueue"]
     /\ UNCHANGED <<content, retired, scopeRevision, active, vector, job, tooLarge, embedFaults, versionOf>>

\* Another worker inserted the generation first: the insert is an error.
StageConflict(w) ==
  /\ embedder[w].pc = "stage"
  /\ embedder[w].existing.status = "none" /\ gen[versionOf[w]].status # "none"
  /\ embedder' = [embedder EXCEPT ![w] = Resting]
  /\ UNCHANGED <<content, retired, scopeRevision, gen, active, vector, job, tooLarge, embedFaults, versionOf>>

\* enqueue_memory_embedding_job requeues a completed job, and a failed one
\* unless its input was too large.
EnqueuedJob(j) ==
  LET r == job[j]
  IN IF r.status = "none" THEN NewRow(TRUE)
     ELSE IF r.status = "completed" \/ (r.status = "failed" /\ j \notin tooLarge)
     THEN [r EXCEPT !.status = "queued", !.ready = TRUE] ELSE r

\* One record of the loop: nothing to do if its vector is current; an error
\* that ends the tick if it has changed since it was read.
EnqueueJob(w, r) ==
  LET v == versionOf[w]
      key == embedder[w].seen[r]
      j == [record |-> r, key |-> key, version |-> v]
      done == [embedder EXCEPT ![w].seen[r] = 0]
  IN /\ embedder[w].pc = "enqueue" /\ r \in Seen(w)
     /\ \/ vector[v][r] = key /\ embedder' = done /\ UNCHANGED job
        \/ vector[v][r] # key /\ content[r] = key /\ embedder' = done
           /\ job' = [job EXCEPT ![j] = EnqueuedJob(j)]
        \/ /\ vector[v][r] # key /\ content[r] # key
           /\ embedder' = [embedder EXCEPT ![w] = Resting]
           /\ UNCHANGED job
     /\ UNCHANGED <<content, retired, scopeRevision, gen, active, vector, tooLarge, embedFaults, versionOf>>

EnqueueDone(w) ==
  /\ embedder[w].pc = "enqueue" /\ Seen(w) = {}
  /\ Goes(w, "activate")
  /\ UNCHANGED <<content, retired, scopeRevision, gen, active, vector, job, tooLarge, embedFaults, versionOf>>

-----------------------------------------------------------------------------
(* try_activate_memory_embedding_generation, one statement.                *)

Covered(v) == {r \in LiveRecords : vector[v][r] = content[r]}

Eligible(v, snapshot) ==
  /\ gen[v].status = "staging"
  /\ gen[v].snapshot = snapshot /\ scopeRevision = snapshot
  /\ gen[v].expected = Cardinality(Covered(v))

\* Variant, not the code: the last to be ready is active.
SupersedesAlways(g, p) == TRUE

\* The pointer never goes back to an older generation or snapshot.
Supersedes(g, p) ==
  g.order > p.order \/ (g.order = p.order /\ g.snapshot >= p.snapshot)

\* The generations and the pointer after an attempt to activate v.
Activated(v, snapshot) ==
  IF Eligible(v, snapshot)
  THEN [gens |-> [gen EXCEPT ![v].status = "ready"],
        pointer |-> IF Supersedes(gen[v], active)
                    THEN [version |-> v, order |-> gen[v].order, snapshot |-> gen[v].snapshot]
                    ELSE active]
  ELSE [gens |-> gen, pointer |-> active]

ActivateStaged(w) ==
  LET v == versionOf[w]
      after == Activated(v, embedder[w].existing.snapshot)
  IN /\ embedder[w].pc = "activate"
     /\ gen' = after.gens /\ active' = after.pointer
     /\ embedder' = [embedder EXCEPT ![w].existing = after.gens[v], ![w].pc = "claim"]
     /\ UNCHANGED <<content, retired, scopeRevision, vector, job, tooLarge, embedFaults, versionOf>>

-----------------------------------------------------------------------------
(* run_memory_embedding_batch.                                             *)

ClaimableJobs(v) == {j \in Jobs : j.version = v /\ Takeable(job[j])}

\* claim_memory_embedding_jobs: only of a generation that is staging.
ClaimJob(w) ==
  LET v == versionOf[w]
  IN /\ embedder[w].pc = "claim"
     /\ \/ /\ gen[v].status = "staging"
           /\ \E j \in ClaimableJobs(v) :
                /\ job[j].attempts < MaxJobClaims
                /\ job' = [job EXCEPT ![j] = Taken(@, w)]
                /\ embedder' = [embedder EXCEPT ![w].pc = "check", ![w].job = j,
                                                ![w].lease = LeaseOf(Taken(job[j], w))]
        \/ /\ gen[v].status # "staging" \/ ClaimableJobs(v) = {}
           /\ embedder' = [embedder EXCEPT ![w] = Resting]
           /\ UNCHANGED job
     /\ UNCHANGED <<content, retired, scopeRevision, gen, active, vector, tooLarge, embedFaults, versionOf>>

Held(w) == Holds(job[embedder[w].job], embedder[w].lease)

\* fail_memory_embedding_job; a lost lease is an error that ends the tick.
FailJob(w, code) ==
  /\ job' = IF Held(w) THEN [job EXCEPT ![embedder[w].job] = Released(@, "failed")] ELSE job
  /\ tooLarge' = IF ~Held(w) THEN tooLarge
                 ELSE IF code = "input_too_large" THEN tooLarge \cup {embedder[w].job}
                 ELSE tooLarge \ {embedder[w].job}
  /\ embedder' = [embedder EXCEPT ![w] =
       IF Held(w) THEN [@ EXCEPT !.pc = "reconcile"] ELSE Resting]

\* The content embedded is the record's present content.
CheckInput(w) ==
  /\ embedder[w].pc = "check"
  /\ \/ /\ content[embedder[w].job.record] \notin Oversized
        /\ Goes(w, "embed") /\ UNCHANGED <<job, tooLarge>>
     \/ /\ content[embedder[w].job.record] \in Oversized
        /\ FailJob(w, "input_too_large")
  /\ UNCHANGED <<content, retired, scopeRevision, gen, active, vector, embedFaults, versionOf>>

\* The service answers, or fails and the job is given back.
Embed(w) ==
  LET j == embedder[w].job
  IN /\ embedder[w].pc = "embed"
     /\ \/ Goes(w, "verify") /\ UNCHANGED <<job, embedFaults>>
        \/ /\ embedFaults < MaxEmbedFaults
           /\ job' = IF Held(w) THEN [job EXCEPT ![j] = Requeued(@, TRUE)] ELSE job
           /\ embedder' = [embedder EXCEPT ![w] = Resting]
           /\ embedFaults' = embedFaults + 1
     /\ UNCHANGED <<content, retired, scopeRevision, gen, active, vector, tooLarge, versionOf>>

\* complete_memory_embedding_job first looks at the generation and the record.
VerifyContent(w) ==
  LET j == embedder[w].job
      g == gen[j.version]
  IN /\ embedder[w].pc = "verify"
     /\ \/ /\ g.status # "staging"
           /\ embedder' = [embedder EXCEPT ![w] = Resting]
           /\ UNCHANGED <<job, tooLarge>>
        \/ /\ g.status = "staging" /\ content[j.record] = j.key
           /\ embedder' = [embedder EXCEPT ![w].pc = "store", ![w].existing = g]
           /\ UNCHANGED <<job, tooLarge>>
        \/ g.status = "staging" /\ content[j.record] # j.key /\ FailJob(w, "content_changed")
     /\ UNCHANGED <<content, retired, scopeRevision, gen, active, vector, embedFaults, versionOf>>

\* One statement completes the job and writes the vector.
StoreVector(w) ==
  LET j == embedder[w].job
  IN /\ embedder[w].pc = "store"
     /\ \/ /\ Held(w)
           /\ job' = [job EXCEPT ![j] = Released(@, "completed")]
           /\ vector' = [vector EXCEPT ![j.version][j.record] = j.key]
           /\ Goes(w, "promote")
        \/ /\ ~Held(w)
           /\ embedder' = [embedder EXCEPT ![w] = Resting]
           /\ UNCHANGED <<job, vector>>
     /\ UNCHANGED <<content, retired, scopeRevision, gen, active, tooLarge, embedFaults, versionOf>>

Promote(w) ==
  LET after == Activated(versionOf[w], embedder[w].existing.snapshot)
  IN /\ embedder[w].pc = "promote"
     /\ gen' = after.gens /\ active' = after.pointer
     /\ Goes(w, "reconcile")
     /\ UNCHANGED <<content, retired, scopeRevision, vector, job, tooLarge, embedFaults, versionOf>>

\* reconcile_memory_embedding_generation: activates, or fails a generation
\* with a failed job and no job left to run.
Reconcile(w) ==
  LET v == versionOf[w]
      s == embedder[w].existing.snapshot
      after == Activated(v, s)
      of(statuses) == {j \in Jobs : j.version = v /\ job[j].status \in statuses}
      hopeless == /\ after.gens[v].status = "staging" /\ after.gens[v].snapshot = s
                  /\ of({"failed"}) # {} /\ of({"queued", "running"}) = {}
  IN /\ embedder[w].pc = "reconcile"
     /\ gen' = IF hopeless THEN [gen EXCEPT ![v].status = "failed"] ELSE after.gens
     /\ active' = after.pointer
     /\ embedder' = [embedder EXCEPT ![w] = Resting]
     /\ UNCHANGED <<content, retired, scopeRevision, vector, job, tooLarge, embedFaults, versionOf>>

ElapseJob(j) ==
  /\ job' = [job EXCEPT ![j] = Elapse(@)]
  /\ job' # job
  /\ UNCHANGED <<content, retired, scopeRevision, gen, active, vector, tooLarge, embedder, embedFaults, versionOf>>

CrashEmbedder(w) ==
  /\ embedder[w].pc # "idle" /\ embedFaults < MaxEmbedFaults
  /\ embedder' = [embedder EXCEPT ![w] = Resting]
  /\ embedFaults' = embedFaults + 1
  /\ UNCHANGED <<content, retired, scopeRevision, gen, active, vector, job, tooLarge, versionOf>>

EmbedStep(w) ==
  \/ ReadRevision(w) \/ ReadGeneration(w) \/ ReadRecords(w) \/ StageGeneration(w)
  \/ StageConflict(w) \/ (\E r \in Records : EnqueueJob(w, r)) \/ EnqueueDone(w)
  \/ ActivateStaged(w) \/ ClaimJob(w) \/ CheckInput(w) \/ Embed(w) \/ VerifyContent(w)
  \/ StoreVector(w) \/ Promote(w) \/ Reconcile(w)

EmbedNext ==
  \/ \E r \in Records : UpsertRecord(r) \/ RetireRecord(r)
  \/ \E w \in Slots : EmbedStep(w) \/ CrashEmbedder(w)
  \/ \E j \in Jobs : ElapseJob(j)

\* The supervised worker ticks for ever and time passes.
EmbedFairness ==
  /\ \A w \in Slots : WF_embedVars(EmbedStep(w))
  /\ \A j \in Jobs : WF_embedVars(ElapseJob(j))

-----------------------------------------------------------------------------
(* Properties.                                                             *)

\* active_memory_embedding_generation: what dense recall may use.
Usable(v) ==
  /\ active.version = v /\ active.order = gen[v].order
  /\ active.snapshot = gen[v].snapshot /\ active.snapshot = scopeRevision
  /\ gen[v].status = "ready"

\* Whenever dense recall is offered it covers every live record with a vector of its
\* present content: a generation that is partial leaves recall lexical.
DenseRecallIsComplete == \A v \in EmbedVersions : Usable(v) => Covered(v) = LiveRecords

\* The pointer moves only to a generation that covers every live record at that moment,
\* although the revision, the records and the vectors were read by separate statements
\* and other workers, of the same version or another, go on meanwhile.
AdvancesWhenCovered == [][active' # active => (Covered(active.version) = LiveRecords)']_embedVars

\* Workers of an older version, or of an older revision, never take the
\* pointer back.
PointerNeverRollsBack ==
  [][\/ active'.order > active.order
     \/ active'.order = active.order /\ active'.snapshot >= active.snapshot]_embedVars

\* Once the records have stopped changing and every live one fits the input
\* limit, a worker's generation covers them for good: no crash, failure of
\* the service or change of content on the way leaves it staging or failed.
DenseRecallReturns ==
  \A w \in Slots :
    LET g == gen[versionOf[w]]
    IN <>[](LiveRecords # {} /\ (\A r \in LiveRecords : content[r] \notin Oversized)
            => g.status = "ready" /\ g.snapshot = scopeRevision)

\* What dense recall may rely on.
EmbeddingsCorrect ==
  /\ []EmbedTypeOK
  /\ AdvancesWhenCovered
  /\ PointerNeverRollsBack
=============================================================================
