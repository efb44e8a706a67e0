--------------------------- MODULE ProjectMemory ---------------------------
(***************************************************************************)
(* Approved memory and the projects that own it, in both stores            *)
(* (store/postgres.rs, store/in_memory.rs and the SQL triggers of          *)
(* migrations/0014 and 0017).  Facts are the objects of ONE predicate of   *)
(* the owner: the record's id is a digest of (subject, predicate, object), *)
(* so an object names its record.  A fact carries the time its proposal    *)
(* was made, which is not the order in which proposals are approved.       *)
(* Chunks are the approved notes of a project's scope; a session's memory  *)
(* scope is its project's, or global.                                      *)
(* `backend' chooses the store and never changes.                          *)
(***************************************************************************)
EXTENDS Naturals, FiniteSets

CONSTANTS
    Objects,       \* values the fact can take
    ProjectIds,
    NoProject,     \* a session with the global scope; a record with no link
    Backends,      \* the stores looked at, a subset of {"memory", "postgres"}
    MaxFactProposals \* bound on the facts proposed

ASSUME ProjectMemoryAssumption ==
    /\ IsFiniteSet(Objects) /\ IsFiniteSet(ProjectIds)
    /\ NoProject \notin Objects \union ProjectIds
    /\ Backends \subseteq {"memory", "postgres"}
    /\ MaxFactProposals \in Nat

VARIABLES
    backend,
    facts,      \* profile_facts: valid_from (0 when absent) and valid_to (0 for null)
    recs,       \* memory_records of the facts, with the two links apply writes
    chunks,     \* projects whose scope holds an approved note
    tombs,      \* memory_scope_tombstones
    projects,   \* projects table
    folder,     \* drive_links: the folder attached to the project
    archiving,  \* archive_project of the in-memory store, between its two locks
    scope,      \* the session's project
    asked,      \* proposals waiting for their approval, with the scope they were made in
    made,       \* facts proposed so far, the time of the next one
    latest      \* history: the fact applied last

memVars == <<backend, facts, recs, chunks, tombs, projects, folder, archiving, scope, asked,
             made, latest>>

Times == 1..MaxFactProposals
Proposals == (Objects \X {NoProject} \X Times) \union ({NoProject} \X ProjectIds \X {0})
NoFact == [from |-> 0, to |-> 0]
NoRecord == [st |-> "none", from |-> 0, to |-> 0, supersedes |-> NoProject, supersededBy |-> NoProject]
Links == Objects \union {NoProject}

MemTypeOK ==
    /\ backend \in Backends
    /\ facts \in [Objects -> [from : Times \union {0}, to : Times \union {0}]]
    /\ recs \in [Objects -> [st : {"none", "active", "superseded"},
                             from : Times \union {0}, to : Times \union {0},
                             supersedes : Links, supersededBy : Links]]
    /\ chunks \subseteq ProjectIds /\ tombs \subseteq ProjectIds /\ archiving \subseteq ProjectIds
    /\ projects \in [ProjectIds -> {"none", "active", "archived"}]
    /\ folder \in [ProjectIds -> {"none", "active", "revoked", "invalid"}]
    /\ scope \in ProjectIds \union {NoProject}
    /\ asked \subseteq Proposals
    /\ made \in 0..MaxFactProposals
    /\ latest \in Links

MemInit ==
    /\ backend \in Backends
    /\ facts = [o \in Objects |-> NoFact]
    /\ recs = [o \in Objects |-> NoRecord]
    /\ chunks = {} /\ tombs = {} /\ archiving = {} /\ asked = {}
    /\ projects = [p \in ProjectIds |-> "none"]
    /\ folder = [p \in ProjectIds |-> "none"]
    /\ scope = NoProject
    /\ made = 0
    /\ latest = NoProject

-----------------------------------------------------------------------------
(* What recall may show: a record that is active and has no active successor.  *)

\* The records that name o as what they replace, or that o names as its successor.
DirectSuccessors(o) ==
    {x \in Objects : /\ recs[x].st # "none"
                     /\ \/ recs[x].supersedes = o
                        \/ recs[o].supersededBy = x}

Successors(o) ==
    {x \in Objects : \A S \in SUBSET Objects :
        (DirectSuccessors(o) \subseteq S /\ \A y \in S : DirectSuccessors(y) \subseteq S)
            => x \in S}

\* The SQL walk starts after the record and can come back to it; the in-memory
\* walk has visited the record before it starts.
HasActiveSuccessorSql(o) == \E x \in Successors(o) : recs[x].st = "active"

HasActiveSuccessorMem(o) == \E x \in Successors(o) \ {o} : recs[x].st = "active"

RetrievableFact(o) ==
    /\ recs[o].st = "active"
    /\ \/ backend = "postgres" /\ ~HasActiveSuccessorSql(o)
       \/ backend = "memory" /\ ~HasActiveSuccessorMem(o)

\* A row of profile_facts whose valid_to is null.
ValidFact(row) == row.from # 0 /\ row.to = 0

\* The profile part of the prompt: a valid fact whose record is active.
ProfileFacts == {o \in Objects : ValidFact(facts[o]) /\ recs[o].st = "active"}

ScopeReadable(p) == p = NoProject \/ p \notin tombs

-----------------------------------------------------------------------------
(* Applying an approved proposal.                                            *)

PredecessorsSql(o) == {x \in Objects \ {o} : recs[x].st = "active"}
PredecessorsMem(o) == {x \in Objects \ {o} : recs[x].st = "active" \/ ValidFact(facts[x])}
Predecessors(o) == IF backend = "postgres" THEN PredecessorsSql(o) ELSE PredecessorsMem(o)

ClosedFact(row, t) == IF ValidFact(row) THEN [row EXCEPT !.to = t] ELSE row

\* The upsert keeps the valid_to a row of the same id already has ...
FactsAfterSql(o, t) ==
    [x \in Objects |-> IF x = o THEN [from |-> t, to |-> facts[o].to] ELSE ClosedFact(facts[x], t)]
\* ... and the in-memory store replaces the row.
FactsAfterMem(o, t) ==
    [x \in Objects |-> IF x = o THEN [from |-> t, to |-> 0] ELSE ClosedFact(facts[x], t)]

FactsAfter(o, t) == IF backend = "postgres" THEN FactsAfterSql(o, t) ELSE FactsAfterMem(o, t)

\* In Postgres a trigger of profile_facts copies every row written into its record,
\* leaving the links alone.
Mirrored(o, rows) ==
    [x \in Objects |->
        IF backend = "postgres" /\ (x = o \/ rows[x] # facts[x])
        THEN [recs[x] EXCEPT !.st = IF rows[x].to = 0 THEN "active" ELSE "superseded",
                             !.from = rows[x].from, !.to = rows[x].to]
        ELSE recs[x]]

\* The new record is active and links back; every predecessor is superseded by it.
RecordsAfter(o, t, mirrored, forward) ==
    [x \in Objects |->
        CASE x = o -> [st |-> "active", from |-> t, to |-> 0,
                       supersedes |-> forward, supersededBy |-> NoProject]
          [] x \in Predecessors(o) /\ recs[x].st # "none" ->
                [recs[x] EXCEPT !.st = "superseded", !.to = t, !.supersededBy = o]
          [] OTHER -> mirrored[x]]

\* The newest predecessor, or the link the record already has.
ForwardLink(o) ==
    IF Predecessors(o) = {} THEN {recs[o].supersedes}
    ELSE {x \in Predecessors(o) : \A y \in Predecessors(o) : facts[y].from <= facts[x].from}

\* CHECK of memory_records and InvalidEffectiveRange of the contract.
RangesHold(records) == \A x \in Objects : records[x].to = 0 \/ records[x].to >= records[x].from

\* One transaction, or one lock.  A worker that dies before it settles the effect
\* leaves the proposal to be applied again.
ApplyFact(o, t, settled) ==
    /\ <<o, NoProject, t>> \in asked
    /\ LET mirrored == Mirrored(o, FactsAfter(o, t)) IN
       \E forward \in ForwardLink(o) :
            /\ RangesHold(mirrored)
            /\ RangesHold(RecordsAfter(o, t, mirrored, forward))
            /\ recs' = RecordsAfter(o, t, mirrored, forward)
    /\ facts' = FactsAfter(o, t)
    /\ latest' = o
    /\ asked' = IF settled THEN asked \ {<<o, NoProject, t>>} ELSE asked
    /\ UNCHANGED <<backend, chunks, tombs, projects, folder, archiving, scope, made>>

\* A range that ends before it begins is refused, by the CHECK on what the trigger or
\* the store writes, or by the contract: nothing is written and the effect fails.
FactFails(o, t) ==
    /\ <<o, NoProject, t>> \in asked
    /\ LET mirrored == Mirrored(o, FactsAfter(o, t)) IN
       \E forward \in ForwardLink(o) :
            ~RangesHold(mirrored) \/ ~RangesHold(RecordsAfter(o, t, mirrored, forward))
    /\ asked' = asked \ {<<o, NoProject, t>>}
    /\ UNCHANGED <<backend, facts, recs, chunks, tombs, projects, folder, archiving, scope,
                   made, latest>>

\* Variant, not the code: nothing looks at the tombstone when the effect runs.
WriteAllowedAlways(p) == TRUE

\* The in-memory store looks at the tombstones under its lock; in Postgres the
\* guard row refuses the write with TM001.
WriteAllowed(p) == p \notin tombs

ApplyChunk(p) ==
    /\ <<NoProject, p, 0>> \in asked
    /\ chunks' = IF WriteAllowed(p) THEN chunks \union {p} ELSE chunks
    /\ asked' = asked \ {<<NoProject, p, 0>>}
    /\ UNCHANGED <<backend, facts, recs, tombs, projects, folder, archiving, scope, made, latest>>

\* The approval ends another way: denied, timed out or cancelled.
Refuse(q) ==
    /\ q \in asked
    /\ asked' = asked \ {q}
    /\ UNCHANGED <<backend, facts, recs, chunks, tombs, projects, folder, archiving, scope,
                   made, latest>>

\* A proposal needs the session's scope, whatever it will write to.
ProposeFact(q) ==
    /\ ScopeReadable(scope)
    /\ q[2] # NoProject => q[2] = scope
    /\ q[2] = NoProject => q[3] = made + 1
    /\ made' = IF q[2] = NoProject THEN made + 1 ELSE made
    /\ asked' = asked \union {q}
    /\ UNCHANGED <<backend, facts, recs, chunks, tombs, projects, folder, archiving, scope, latest>>

-----------------------------------------------------------------------------
(* Projects, their folders and their tombstones.                             *)

EnsureProject(p) ==
    /\ projects[p] = "none"
    /\ projects' = [projects EXCEPT ![p] = "active"]
    /\ UNCHANGED <<backend, facts, recs, chunks, tombs, folder, archiving, scope, asked,
                   made, latest>>

\* set_session_scope: the project is made if need be and must be active.
SetScope(p) ==
    /\ p # NoProject => projects[p] # "archived"
    /\ projects' = IF p = NoProject THEN projects ELSE [projects EXCEPT ![p] = "active"]
    /\ scope' = p
    /\ UNCHANGED <<backend, facts, recs, chunks, tombs, folder, archiving, asked, made, latest>>

\* One transaction: an unknown project rolls the tombstone back.
ArchiveSql(p) ==
    /\ backend = "postgres"
    /\ projects[p] # "none"
    /\ tombs' = tombs \union {p}
    /\ projects' = [projects EXCEPT ![p] = "archived"]
    /\ UNCHANGED <<backend, facts, recs, chunks, folder, archiving, scope, asked, made, latest>>

\* In memory the scope is revoked first, even that of a project nobody made.
RevokeMem(p) ==
    /\ backend = "memory"
    /\ p \notin archiving
    /\ tombs' = tombs \union {p}
    /\ archiving' = archiving \union {p}
    /\ UNCHANGED <<backend, facts, recs, chunks, projects, folder, scope, asked, made, latest>>

ArchiveMem(p) ==
    /\ p \in archiving
    /\ archiving' = archiving \ {p}
    /\ projects' = [projects EXCEPT ![p] = IF @ = "none" THEN "none" ELSE "archived"]
    /\ UNCHANGED <<backend, facts, recs, chunks, tombs, folder, scope, asked, made, latest>>

LinkFolder(p) ==
    /\ projects[p] = "active" /\ folder[p] # "active"
    /\ folder' = [folder EXCEPT ![p] = "active"]
    /\ UNCHANGED <<backend, facts, recs, chunks, tombs, projects, archiving, scope, asked,
                   made, latest>>

\* project.unlink, or a link that no longer validates after a restart.  The row's
\* change of status fires tm_memory_drive_link_tombstone in Postgres.
DropFolder(p, why) ==
    /\ folder[p] = "active"
    /\ folder' = [folder EXCEPT ![p] = why]
    /\ tombs' = IF backend = "postgres" THEN tombs \union {p} ELSE tombs
    /\ UNCHANGED <<backend, facts, recs, chunks, projects, archiving, scope, asked, made, latest>>

MemNext ==
    \/ \E o \in Objects, t \in Times :
            FactFails(o, t) \/ \E settled \in BOOLEAN : ApplyFact(o, t, settled)
    \/ \E q \in Proposals : ProposeFact(q) \/ Refuse(q)
    \/ \E p \in ProjectIds :
            \/ ApplyChunk(p) \/ EnsureProject(p) \/ ArchiveSql(p) \/ RevokeMem(p) \/ ArchiveMem(p)
            \/ LinkFolder(p) \/ DropFolder(p, "revoked") \/ DropFolder(p, "invalid")
    \/ \E p \in ProjectIds \union {NoProject} : SetScope(p)

MemSpec == MemInit /\ [][MemNext]_memVars

-----------------------------------------------------------------------------
(* apply_approved_memory_proposal keeps at most one answer: never are two    *)
(* objects of the predicate both valid facts or both active records,         *)
(* whatever the order in which proposals are approved, refused and applied   *)
(* again by a worker that did not hear it had done so.                       *)
OneAnswer ==
    /\ Cardinality({o \in Objects : ValidFact(facts[o])}) <= 1
    /\ Cardinality({o \in Objects : recs[o].st = "active"}) <= 1

(* A superseded record can be followed to the one that replaced it: history   *)
(* is linked, never cut, so an old fact's record leads to the active one.     *)
HistoryLeadsToAnswer ==
    \A o \in Objects : recs[o].st = "superseded" => \E x \in Successors(o) : recs[x].st = "active"

\* The fact applied last is in the prompt's profile and among the records recall may show.
LatestShown == latest # NoProject => latest \in ProfileFacts /\ RetrievableFact(latest)

(* In-memory store: the fact applied last is what recall shows, one that was   *)
(* replaced before included: its row is valid again and the walk over its      *)
(* successors, which lead back to it, does not hide it behind itself.          *)
LatestShownInMemory == backend = "memory" => LatestShown

(* Archiving revokes: an archived project's scope is revoked, at every point  *)
(* of both stores' archive_project.                                           *)
ArchivedIsRevoked == \A p \in ProjectIds : projects[p] = "archived" => p \in tombs

(* The scope of a revoked project is frozen: a proposal made while it was      *)
(* readable and approved after writes nothing into it.                         *)
RevokedScopeIsFrozen == [][\A p \in tombs : p \in chunks' => p \in chunks]_memVars

\* What the memory of a project keeps.
MemoryCorrect ==
  /\ []MemTypeOK
  /\ []OneAnswer
  /\ []HistoryLeadsToAnswer
  /\ []LatestShownInMemory
  /\ []ArchivedIsRevoked
  /\ RevokedScopeIsFrozen
=============================================================================
