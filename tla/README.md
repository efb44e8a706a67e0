# TempestMiku in TLA+

TempestMiku is a personal assistant: a Rust server with a Postgres or in-memory
store, interpreters for its own language, agents, workers and a Flutter client.
This directory models the parts of it that have a protocol: state that several
actors change, in an order nobody fixes, with crashes and lost answers.  Every
definition is translated from the source, and `PROJECT.json` maps it to its
lines.  Paths below are relative to `src/crates/tm-server/src/` unless they
begin with `src/`.

## 1. Inventory

### Components, their state and what is hard about them

| Component | State | Operations | Hard part |
|---|---|---|---|
| Turn queue (`store/in_memory.rs`, `store/postgres.rs`) | sessions, `session_turns`, messages | enqueue, claim, heartbeat, complete, fail, sweep, end session | several dispatchers, late owners, retried posts, statement snapshots |
| Dispatcher and interpreter shards (`api/sessions/turn/`, `chat/runner/`) | tasks, request queue, cached interpreters | claim, run, complete, promote, abort, evict, drain | lost heartbeats, failed commits, state of an unconfirmed turn leaking |
| Approvals (`store/…/approval_helpers.rs`, `coding_backend/approval/`, `api/approvals.rs`) | requests, effects with leases, events | ask, wait, decide, claim, apply, complete | many resolvers; the change is outside the store's transaction |
| Managed catalogue (`src/crates/tm-modes`, `tm-artifacts`) | version directories, pointer, lock | install, roll back, read | deaths and power loss between rename and sync |
| Events (`chat/sinks.rs`, `api/events.rs`) | bounded channel, log, cursors | push, flush, replay, follow | order, failure latch, lag, the terminal fence |
| Dreams, scheduler, push, embeddings (`dream/`, `scheduler/`, `push/`, `store/postgres/memory_retrieval/`) | leased rows, cursors, generations | enqueue, claim, finish, retry, catch up | lapsed leases, crashes, missed fires |
| Policies and reviews (`store/postgres.rs`, `src/crates/tm-artifacts`) | episodes, rewards, proposals, addenda | value, link, propose, review, roll back | concurrent dreams, a base that moved |
| Egress and MCP (`src/crates/tm-egress`, `tm-mcp`) | journal, budgets, receipts | prepare, approve, send, settle | a crash between an effect and its record |
| Remote worker (`src/apps/tm-worker`) | job ledger, slots | submit, decide, poll, cancel | repeated requests, restarts |
| Agents (`src/crates/tm-agents`) | actor tree, mailboxes | spawn, wave, cancel, restart, send, wait | late reports of old incarnations, byte budget |
| Cells (`src/crates/tm-lang`, `tm-core`) | bindings, effects, scopes | evaluate a batch, cancel | parallel cells, terminal events of children |
| Process isolation (`src/crates/tm-host`) | pinned files, cgroup leaf | approve, fork, clean up, recover | paths replaced while the user decides, crashes |
| Delegated turns (`omp_acp/`) | one worker, channel, two buffers | run, update, finish | callers that stop waiting |
| Drive, linked folders, memory | entries, mounts, facts | put, move, organize, write, git, recall | check and use separated by an approval |
| Artifacts (`src/crates/tm-artifacts`) | ids, quota, blobs, lock files | put, read, list, open | crashes within a put, handles with old snapshots |
| Phone (`src/clients/miku_flutter`, pairing in the server) | credentials, routes, recorder, speech model | pair, change server, log out, reply, dictate | an answer that arrives under another authority |

Left out, because they are data processing or I/O without a protocol of their
own: projects and resources API, LLM client, prompts, command line, deployment
tools, the text of the language (lexer, parser, type checker).  The components
of `PROJECT.json` say what each module leaves out within a component.

### How they interact

A client posts a message; the API writes a turn and its user message into the
store.  A dispatcher of any process claims it and starts a task: the body reads
the history, hands a run to a shard thread and waits, while a heartbeat keeps
the row fresh.  The run evaluates cells, whose effects are host calls: drive,
folders, processes, agents, MCP tools, requests through the egress runtime.  Its
events go through the event sink into the session's log, which clients follow.
When the body returns, the task commits the answer and only then tells the shard
that the interpreter may be reused.  A gated call asks for an approval: a
request and a blocked effect.  A client's decision, a time-out or a sweep
resolves it; whoever claims the effect's lease makes the change and completes
the effect together with its event.  Ended sessions are dreamt about, dreams
propose memories, skills and addenda, which are approved in turn.

### What makes each part correct

Turns: one at a time per session, never repeated, final once final, in
agreement with the transcript, and eventually ended.  Interpreters: nothing of a
turn survives in one unless the turn was completed.  Approvals: decided once,
applied if and only if approved, told once, always concluded.  Leased work: one
holder, attempts bounded, ended for good.  Effects beyond the process: at most
once, under what was shown, and what nobody heard of is filed as uncertain.
Agents: a record is ended by its own run.  Phone: a token travels only home.
The hazards of `PROJECT.json` list what could go wrong, line by line.

## 2. Modules

| Module | Models |
|---|---|
| `TurnStore` | the atomic store's turn operations and `bounded_prior_messages` |
| `PostgresStore` (extends `TurnStore`) | turns and approvals as Postgres statements: snapshots, advisory and row locks, unique keys, retries; a sweep selects first and resolves row by row |
| `TurnDispatch` (extends `TurnStore`) | dispatchers, tasks, shards, processes |
| `ApprovalStore` | the atomic store's approval requests, effects, leases, events |
| `ApprovalFlow` (extends `ApprovalStore`) | waiting requesters, clients, workers, and what an effect changes |
| `ManagedCatalog` | versions, pointer and lock of one managed asset on disk |
| `Leases`, `LeasedWork` | what a lease is; the abstract specification of leased work |
| `DreamQueue`, `CronScheduler`, `PushOutbox`, `EmbeddingGenerations` | the four background queues |
| `PolicyEvolution`, `EvolutionReview` | policies and rewards from dreams; proposals, reviews and addenda |
| `SessionEvents` | events of a turn on their way to the log; replay, follow and reconnect |
| `EgressRuntime`, `McpClient`, `RemoteWorker` | requests that leave the process |
| `ActorTree`, `ActorInbox` | agents with supervision; their mailboxes |
| `CellRuntime`, `ProcIsolation`, `AcpBackend` | the cells of a run; `proc.run`; turns delegated to OMP |
| `DriveStore`, `LinkedFolders`, `ProjectMemory`, `ArtifactStore` | what host calls change |
| `PhoneAuthority`, `VoiceCapture`, `VoiceModel` | pairing, notifications and replies; dictation; the speech model on the phone |
| `MC*` | instances for TLC: model values, symmetry, scenes |
| `*Proofs` (8) | theorems, section 6 |

The comment at the head of a module says what its variables stand for; an
action has the name of the function or step it models.  Definitions headed
"Variant, not the code" are plausible mistakes, each used to show that a
property can fail; no specification refers to them.

*Scenes.* Components that share no state are checked in one run: an MC module
extends several, a variable `scene` names the one a behaviour plays, and the
others stay where they began.  The state space is the sum of the components',
not their product.  A property is that of its component in every scene.

### Refinements

* `TurnDispatch` implements `StoreSpec`, and `ApprovalFlow` implements
  `ApprovalSpec`, by the identity on the shared variables.
* `PostgresStore` is not stated as a refinement of `StoreSpec`: a claim may pass
  over an older turn whose row is locked (`for update skip locked`), and a session
  may become ended while it still has an open turn, as the snapshot of
  `end_session` is older than its advisory lock.  It keeps the invariants of the
  store that do not depend on either (`PgTurnsSafe`, `PgOutcomesFinal`).
* Dreams and cron runs implement `LeasedWork` (`DreamsAreLeasedWork`,
  `RunsAreLeasedWork`, an INSTANCE with a mapping of their rows): a row is
  claimed when it is free or its lease lapsed, an attempt is counted at each
  claim, and an ended row stays.

### Correspondence and abstractions

* *Atomicity.* An operation of the in-memory store is one action, as it holds
  its mutex; a Postgres statement is one action that waits for its locks with
  the snapshot it has.  Elsewhere an action reaches from one await, lock or
  system call that others can observe to the next.
* *Time.* Rows carry ages and remaining times instead of clock readings, capped
  where the code's comparisons stop telling them apart.  A turn's `created_at`
  is any reading, as processes have clocks of their own; ties are broken by the
  random id, hence freely.  Elsewhere a time-out may happen whenever it is armed.
* *Data.* Contents, digests and payloads are members of small sets.  Where a
  property is about a conversion (truncated history, folded text deltas, bounded
  buffers, a digest over a status) the conversion is modelled.
* *Shards.* One shard per runtime stands for the pool: more shards only separate
  sessions.  A panic of a shard thread and an abort that itself fails are left out.
* *Processes.* A worker id belongs to one process; a restart is a new worker.
  A crash and the hard abort after the drain grace are the same step.
* *Approvals.* `Propose` makes a request against the asset as it is.  A skill
  proposal is announced in the transaction that creates it; the other kinds in a
  second step.  The order in which workers pick due effects is left open.
  `addendum_rollback` stands for the mode and the persona rollback, which have
  the same checks.  Reviews whose contract is Disabled, the broker without a
  store and `await_persisted_memory_write` are left out.
* *Skill writes* take three steps (`ReadProposal`, `InstallSkill`,
  `UpdateProposal`), since the stored proposal is read across an await and its
  status, part of the reviewed digest, is written after the installation.
* *Disk.* `ManagedCatalog` tells what is visible from what is durable: a rename
  is durable only after the sync of its directory, and a loss of power keeps any
  of the states since the last sync.  `ArtifactStore` has process crashes only,
  as the code does not sync.
* *Phone.* The bootstrap of the app ends before an authority changes.  The engine
  catalogue of the speech settings is left out.
* *External parts* (kernel, OMP, MCP servers, push provider, git, the user) are
  modelled from how the code uses them and marked external in the map.

## 3. Runs

Every run ends within four minutes with two workers.  Scenes are named in
brackets.

| Run | Scenes | Properties |
|---|---|---|
| `Server` | turns, review, acp, voice | `StoreCorrect`, `ReviewsCorrect`, `DelegationSafe`, `VoiceSafe` |
| `TurnDispatchSafety` | dispatch, inbox, model | `DispatchSafe`, `StoreSpec`, `InboxSafe`, `VoiceModelSafe` |
| `TurnDispatchLiveness` | | `EveryTurnEnds` |
| `ApprovalFlowSafety` | flow, catalog | `FlowSafe`, `ApprovalSpec`, `ApprovalsCorrect`, `CatalogSafe` |
| `ApprovalFlowLiveness` | | `ApprovalsEnd` |
| `Postgres` | turns, approvals, embeddings, memory, drain | `PgTurnsSafe`, `PgOutcomesFinal`, `PgApprovalsSafe`, `EmbeddingsCorrect`, `MemoryCorrect`, `DrainedOwnsNothing` |
| `Runtime` | dream, cron, push, evolution, actors, egress, artifacts | `DreamsCorrect`, `CronCorrect`, `PushCorrect`, `EvolutionCorrect`, `ActorsSafe`, `EgressSafe`, `ArtifactsSafe` |
| `Progress` | dream, cron, push, embed, actors, inbox | `WorkEnds`, `ActorsAnswer` |
| `Services` | sink, stream, mcp, worker, cells, proc, acp | `SinkSafe`, `StreamCorrect`, `McpSafe`, `WorkerSafe`, `CallsEnd` |
| `Host` | phone, cells, proc, drive, linked | `PhoneSafe`, `CellsSafe`, `IsolationSafe`, `DriveCorrect`, `LinkedCorrect` |
| `ApprovalFlowSkillWrite` | | expected to violate `FailedChangedNothing` |
| `PartialDenseRecall` | embeddings | expected to violate `DenseRecallIsComplete` |

A property with a plural name is a conjunction of named parts, each with a
comment of its own; one mutant of the code per property shows that it can fail.
What they say, in a line each:

* `StoreCorrect`: one running turn per session, ended sessions are quiet, the
  transcript is what the turn table says, client ids are unique, history holds
  answered turns only, nothing is replayed, outcomes are final.
* `DispatchSafe`: an interpreter carries effects of completed turns only.
  `DrainedOwnsNothing`: a drained process left no row running.
* `ApprovalsCorrect`, `FlowSafe`: an effect awaits its decision, each outcome is
  told once and is final; what was asked for happens if and only if it was
  approved, and the waiting requester hears the stored decision.
  `FailedChangedNothing`, which the code breaks: an effect filed as failed changed
  nothing.
* `CatalogSafe`: the pointer names a version that is kept, versions do not
  change, no activation is lost, an answer is true, a reader finds its version.
* `PgApprovalsSafe`, `PgTurnsSafe`, `PgOutcomesFinal`: of the SQL, whose claims
  and sweeps decide by snapshots older than their locks, one verdict and one
  application per approval, one running turn per session, once-events once, no
  turn twice and no outcome changed.
* `DreamsCorrect`, `CronCorrect`, `PushCorrect`, `EmbeddingsCorrect`,
  `EvolutionCorrect`: one holder, proposals before completion, no fire skipped,
  told in order, outcomes are counted once; the embedding pointer moves only to a
  generation that covers every live record at that moment, and never back.
* `ReviewsCorrect`: one open candidate, activated over the base that was shown.
* `EgressSafe`, `McpSafe`, `WorkerSafe`: a mutation is sent at most once, under
  what was shown, after the user's yes; unheard means uncertain; ok means done.
* `ActorsSafe`: an actor's record is ended by its own run, one incarnation acts
  at a time, a failed wave is stopped.  `InboxSafe`: bytes are accounted for
  exactly, each message is delivered once, unread covers what is pending, although readers
  are dropped at any await and a restart gives the actor another inbox.
* `SinkSafe`, `StreamCorrect`: the log is a prefix of what was accepted, flush is
  honest; replay has no gaps and stops at the terminal fence.
* `CellsSafe`: one outcome per node, children before parents, bindings agree
  with the log, a cell reads the last writer.
* `IsolationSafe`: a command runs as the files that were shown, inside its leaf,
  and leaves nothing behind.  `DelegationSafe`: delegated turns do not mix, and a
  prompt file left behind belongs to a turn that never ran.
* `DriveCorrect`, `LinkedCorrect`, `MemoryCorrect`, `ArtifactsSafe`: the version
  that was read is the one replaced (the read comes after the approval, so an edit
  made while an overwrite waits for its answer is overwritten); a tool acts under
  its grant, and a revoked link is not mounted unless the call that revoked it was
  cut off; recall has one answer; a reference that was given is good for ever.
* `PhoneSafe`, `VoiceSafe`, `VoiceModelSafe`: tokens go home, a reply keeps its
  authority; no draft after a cancel, one recorder; an install is alone.
* `EveryTurnEnds`, `ApprovalsEnd`, `WorkEnds`, `ActorsAnswer`, `CallsEnd`: what
  was begun ends.

### Bounds, and why they are enough

Two of each actor that can race (processes, workers, handles, clients, calls,
activities) and one row where operations touch the rows of one key only; two
rows where they meet (turns of a session, sync and reply of a phone, two
approvals never share a row).  One retry beyond the last that the code allows,
so that limits are passed, and one or two faults or crashes, as a second crash
meets a state the first one already produced.  Channels and buffers have room
for one or two entries so that they fill up.  Names: `MaxAttempts`, `MaxEpoch`,
`MaxFaults`, `MaxRetries`, `MaxLog`, `MaxDreams`, `MaxFire`, `MaxCatchUp`,
`MaxSends`, `MaxJobClaims`, `MaxTraceIds`, `MaxRestarts`, `MaxInc`, `MaxStarts`,
`MaxResumes`, `MaxPushes`, `MaxBreaks`, `MaxToolCalls`, `MaxEdits`, `MaxTrouble`
and the like; each is a guard of the action it limits.  Some are the program's
own limits (`MaxAttempts`, `MaxRestarts`, `MaxLive`, `EntrySlack`).

Larger instances, not part of the runs, were checked once for the modules whose
bounds in the runs are tight: `PhoneAuthority` with two syncs, two changes and a
crash (7.3 million states) and with three changes (2.9 million), `VoiceCapture`
with two upsets (8.7 million), `ProcIsolation` with two runs (5.7 million),
`VoiceModel` (1.8 million), `McpClient` with three calls (1.5 million),
`ManagedCatalog` (1.5 million), `RemoteWorker` with two jobs (0.9 million),
`ArtifactStore` (0.7 million).

Deadlock is not checked: when every turn has ended and every call has returned
the system may rest, and a bounded instance rests when its bounds are used up.

## 4. Fairness

* `TurnDispatch`: processes are restarted by their supervisor, dispatchers poll
  and sweep on timers, tokio polls ready tasks, shard threads serve their queue,
  runs are bounded and time passes: weak fairness of `Start`, `Claim`,
  `PeriodicSweep`, `TaskStep`, `ShardStep` and `Time`.  None of heartbeats,
  clients, shutdown, crashes or evictions.  At least one process is left to be
  started, or nothing could run.
* `ApprovalFlow`: waits poll every 25 ms, workers tick on a timer, a started job
  goes on, sweeps run on the tick and time passes.  None of clients, of
  handlers' decisions, of errors or of faults; the faults are bounded.
* Queues: a worker's next step is polled and leases run out (`DreamStep`,
  `PushStep`, `EmbedStep`, `Elapse…`).  None of new work, faults or crashes.
* Agents: threads are scheduled and the wall-clock budget ends every run
  (`RunStep`); a reader of a mailbox is polled, and takes the channel's fair
  lock eventually although others take it in between (strong fairness of
  `LockChannel`).
* Services: the writer, the stream's poll and the client are scheduled; a poll
  tick comes although broadcasts keep arriving (strong, `PollTick`); steps of a
  call and its time-outs; the clean-up of `proc.run`; OMP's worker, and a sender
  that waits for room in the channel (strong, tokio's fair semaphore).  None of
  clients, users, servers' answers or losses of a connection.

## 5. Disagreements found

Two are runs that fail as expected, quoted in `findings`:

* `ApprovalFlowSkillWrite`: the status update of an installation changes the
  digest that a repetition must match, so a crash before completion ends it as
  failed although the skill is installed.
* `PartialDenseRecall`: `complete_memory_embedding_job` compares the content in one
  statement and writes the vector in another, which asks for the lease only.  With
  two processes of one embedding version, one can have compared the old content,
  the record changes, the other stages, embeds and activates the generation, and
  the first then puts its old vector over the current one: the active generation
  misses a record until it is staged again.  (Recall withholds vectors with a stale
  content key, so nothing stale is shown.)  Document 22 says a generation is active
  only after complete current coverage.

The modules state or describe others, which no run carries:

* *Turns.* A turn posted while another is answered does not see that answer.
  After a failed heartbeat the row is swept while the shard still runs the turn,
  and the session's next turn becomes claimable.  With Postgres a turn enqueued
  while `end_session` waits for its lock stays queued in the ended session, which
  `claim_next_turn` passes over; `EveryTurnEnds` is checked over the atomic store,
  where this cannot happen.
* *Approvals.* A skill rollback does not recognise its own work.  A lease holder
  that pauses after its heartbeat changes an asset again after another applied
  and reverted it.  The Postgres sweep cancels a requester that beat between its
  select and its update.
* *Reviews.* A stale base leaves the proposal pending, so its signal counts as a
  duplicate for ever; a retried review re-activates after a rollback to its base.
* *Stream.* A client that reads status before events can reconnect in a loop to a
  session that ended.
* *Egress, worker.* A rule that is revoked and granted again during an approval
  passes (`RevocationSticks`); a cancelled remote job can still be reported as
  finished (`VerdictIsFinal`).
* *Agents.* With `one_for_all` the late report of a cancelled sibling ends its
  next incarnation; a dropped host call leaves a record running that counts
  against the limit.  The unread counter can pass what is pending.  A reader that is
  dropped with a message in hand loses it, its bytes stay reserved (`leaked`), and
  what an actor had not read is gone with the inbox a restart replaces.
* *Memory.* With Postgres a fact that was replaced and is approved again, later than
  its replacement, keeps its old `valid_to`; the record its row trigger writes then
  ends before it begins, the CHECK of migration 0014 aborts the transaction and the
  effect fails, although migration 0016 says "inactive history must not prevent
  approved content from becoming active again".  Approved late, with an earlier
  time, it succeeds but may be hidden: coffee (2), tea (4), tea (1) approved late,
  coffee (3) leaves coffee's row closed and its record behind its own cycle of
  successors.  `LatestShown` states this; it holds in memory and TLC refutes it for
  Postgres.
* *Drive, folders.* An unlink that fails or is dropped between the revocation of the
  record and the removal of the policy leaves the folder mounted until the next
  unlink or restart (`stranded`).  A folder's unlink revokes more than its comment says
  (`OnlyArchiveRevokes`); an applied proposal can be marked denied
  (`AppliedStaysApplied`); `git push` sends a head newer than the one shown
  (`PushedAsApproved`); the loser of two links removes the winner's policy.
* *Cells.* A scope removes its effects from the active execution before it tells
  their end; if that cleaning is dropped, nobody tells it.
* *proc.run.* The probe's leaf is not recovered after a crash; a disabled profile
  lets a background descendant live on after a normal exit.
* *Delegated turns.* A turn whose caller left keeps OMP busy, without a time-out,
  and later turns queue behind it; a worker that fails to boot costs the next
  turn too; a crash leaves the prompt file and the turn's directory, and a failed
  write or sync in `write_system_prompt_file` leaves the file (`stray`), which
  nothing removes.
* *Phone.* A retry during a log-out installs the old reply authority again and
  the commit does not clear it; a disable or retry overtaken by a commit leaves
  `_busy` set; a lost pairing answer leaves an orphan device; the worker that
  hears REVOKED clears whatever authority there is by then.
* *Voice.* A failed stop cancels with no id, hence possibly a newer capture;
  opening the settings cancels a running local transcription.  A delete of an
  earlier activity can remove a model the new activity found ready.
* *Catalogue.* A version whose rename was not followed by its sync is accepted by
  a retry without one, so after a loss of power the pointer can name a version
  that is gone (the variable `lapsed` marks it); an `.install-*` directory that a
  crash left makes `state` fail; a retried install of A after B activates A again.
* *Artifacts.* Every crash leaves entries that nothing cleans, and past the slack
  of 64 the session cannot be opened; a refusal of oversized metadata leaves its
  lock file; an artifact listed by an older handle may be "not found" to it.

## 6. Proofs

TLAPS checks the theorems for every value of the constants that satisfies the
named assumptions of the model's modules (`TimeAssumption`, `LeaseAssumption`,
…: counts are naturals, a null value is none of the values); TLC evaluates these
in every run.  The invariants the runs check are seldom inductive.  Each proof
first states an inductive invariant, which TLC checked too, shows that the
initial states satisfy it, then has one lemma per action, and ends with the
temporal theorem.

* **`TurnStoreProofs`** (`StoreIsCorrect` and its parts).  The checked
  invariants are inductive only together: that a completed turn has exactly one
  answer needs that every message belongs to a turn of its session, and that a
  claim keeps one running turn needs the claimable set to exclude sessions with a
  running one.
* **`TurnDispatchProofs`** (`DispatchImplementsStore`, `ServiceKeepsTheQueue`,
  `InterpretersAreClean`, `DrainLeavesNothing`).  Every step is a store step or
  leaves the store alone.  For the interpreters: what one carries belongs to its
  session, a running shard's interpreter is not pending, a promotion is requested
  for completed turns only, and a turn has at most one request waiting, the one
  its task awaits.  `DrainLeavesNothing` assumes a store that answers
  (`~StoreErrors`): a refused call leaves the row to the sweeps of others.
* **`ApprovalProofs`** (`ApprovalsAreCorrect`, `FlowImplementsStore`,
  `FlowKeepsApprovals`, `FlowIsSafe`, `CatalogIsSafe`).  The invariant of the
  tables is local to an approval: `RowOK` relates its request, its effect and its
  events, and `OneRow` lifts each operation to the tables.  The flow adds where a
  job of an owner can be while its lease epoch is current.  The catalogue's
  `CatalogInv` is mutual exclusion by the file lock, what is durable
  (`KeptIsDurable`, `PointersDurable`), where each request is (`CallHolds`) and
  what each reader has been told (`ReaderHolds`).
* **`PostgresProofs`** (`PgOutcomesAreFinal`, `PgTurnsAreSafe`,
  `PgApprovalsAreSafe`).  A statement waits with an old snapshot; the invariant
  says what the snapshot still implies when the lock is granted, and for a claim
  that its candidate is looked at again under the lock.
* **`EgressProofs`** (`EgressIsSafe`, `ReviewsAreCorrect`, `DriveIsCorrect`): where a call is
  determines its journal entry (`CallOK`, `EffectOK`), one call carries an effect
  (`OneCarrier`), and what is reserved covers the calls in flight, counted by
  cardinality.  For the reviews, `ReviewInv` says what the row, its verdict and its
  outbox entry tell of each other (`RowHolds`), what the holder of a current lease
  may rely on at each of its steps (`ApplierHolds`), what a detector that read the
  open rows knows when it inserts (`DetectorHolds`), that ids are given in order
  (`IdsInOrder`) and that the pointer names what was installed.  For the drive,
  `DriveInv` says what each call may rely on between its store calls: a claim that
  still fits was found on a run nobody holds (`LeaseHolds`), a proposal that has the
  listed version is the listed one, and a document still at the version read is
  where it was found (`ListHolds`, `Stands`); versions only grow (`StoreMoves`), so
  the other calls keep it (`TaskStays`).  `unique_path` finds a copy by the
  pigeonhole principle.  It needs entry ids never to be used again, as the random
  ids of the code are not: with reused ids a version read of one document would fit
  another.
* **`RuntimeProofs`** (`SchedulerIsCorrect`, `PushIsCorrect`,
  `DreamsAreCorrect`, `ActorsAreSafe`, `EvolutionIsCorrect`): facts about leases first, then rows,
  cursors and holders; dreams and cron runs implement `LeasedWork` step by step.
  The actors' `ActorInv` says where each incarnation can be (`ThreadHolds`: earlier
  ones are over or told to stop, later ones have not begun), what a reporter still
  has to do (`RestartsItself`) and that a failed wave member has told, or will tell,
  every live one (`WaveHolds`).  `ActorsAreSafe` assumes `DefaultSupervision`, what
  `configure_supervision_from_opts` sets unless the options ask for another
  strategy with restarts.  Under one_for_all with restarts it is false: TLC finds
  a sibling that is restarted before its earlier incarnation reported, and the late
  report then ends the new record.
  For what dreams learn, `EvInv` says that a trace has its episode's value or none
  (`TracesHold`), that the turns with an outcome are counted once each
  (`OutcomesHold`), and what a run may still rely on of what it read before its
  next statement (`EvolverOK`).
* **`RemoteCallProofs`**: `RemoteWorkIsSafe` (ledger ahead of the effect),
  `McpIsSafe` (`RpcHolds` per call, `OneBegun` and `TargetHolds` per receipt),
  `IsolationIsSafe` (`ProcsHold`, `RunHolds` per run, `ServiceHolds`), and
  `DelegationIsSafe`: a turn is in one place (idle, in the channel, at the
  worker, done), the events of the running turn are the tail of the log, and the
  buffers tell exactly its chunks, by an order-preserving map of positions.
* **`PhoneProofs`**: `VoiceModelIsSafe` (`OpHolds` per thread, `HereHolds`,
  `DictHolds`) and `PhoneIsSafe` (`ServerHolds` per origin, `SendersHold` and
  `CoordinatorHolds` for what was read before an await, `Homes` for where a token
  belongs, `Silence` for what native code holds after a clearing), and
  `StreamIsCorrect`: the end of a session is written once and its status tells
  (`EndsOnce`), the handler's window continues at its cursor and stops at the end
  (`WindowHolds`), and what travels continues at what the client has taken
  (`WireHolds`), so that a row is neither skipped nor shown behind the end.

`PROJECT.json` lists the theorems with what each establishes.

Only model-checked:

* liveness and everything that needs ENABLED, which the prover does not reach:
  `EveryTurnEnds`, `ApprovalsEnd`, `WorkEnds`, `ActorsAnswer`, `CallsEnd`;
* properties that fold or count over data, which would need induction over it:
  `SinkSafe` (a flattened sequence), `InboxSafe` (sums and counts over
  sequences), `WithinQuota` of `ArtifactsSafe`, the successor chains of
  `MemoryCorrect`;
* `CellsSafe`, `VoiceSafe`, `LinkedCorrect`: not proved;
* `EmbeddingsCorrect`, with workers of one version and of two.

## 7. Not modelled

Request handling over single rows or files (projects, resources, most of the
HTTP API), wire formats and transports (LLM, MCP over stdio, TLS, push
encryption), the text and types of the language, prompts and modes, ranking and
redaction of memories, listing and searching of drive and folders, transducers,
speech recognition, the web UI, the command line and the deployment tools: data
or I/O, with nothing for a model checker to interleave.  Within the modelled
components the notes of `PROJECT.json` name what is left out.
