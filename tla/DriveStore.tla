----------------------------- MODULE DriveStore -----------------------------
(***************************************************************************)
(* The drive of crate tm-drive: versioned document entries under unique    *)
(* paths, the organizer's proposals to move them, the organizer's leased   *)
(* run, and the host calls drive.put, drive.move, drive.tag and            *)
(* drive.organize of several sessions at once.                             *)
(*                                                                         *)
(* Every method of DriveMetadataStore is atomic (one lock in memory, one   *)
(* transaction in Postgres, server store/drive_metadata.rs); a host call   *)
(* of DriveOperations makes several of them, with an approval in between,  *)
(* and relies on the version each record carries.  A path is a directory   *)
(* and the copy suffixes of its file name: <<>> is file, <<2>> is file-2.  *)
(***************************************************************************)
EXTENDS Integers, Sequences, FiniteSets, FiniteSetsExt

CONSTANTS
    DriveCalls,     \* host calls that may be in flight at once
    Dirs,           \* directories
    Contents,       \* content hashes
    Filing,         \* Filing[h]: directory proposed_path_for_entry wants, per content
    MaxEntries,     \* bound on entries ever inserted
    MaxProposals,   \* bound on proposals ever inserted
    MaxRuns,        \* bound on organizer runs
    MaxDriveCalls   \* bound on host calls ever begun

ASSUME DriveAssumption ==
    /\ Contents # {}
    /\ Filing \in [Contents -> Dirs] /\ \E d \in Dirs : \A h \in Contents : d # Filing[h]
    /\ MaxEntries \in Nat \ {0} /\ MaxProposals \in Nat
    /\ MaxRuns \in Nat /\ MaxDriveCalls \in Nat

VARIABLES
    entries,        \* EntryIds -> record, NoEntry or GoneEntry (drive_entries)
    proposals,      \* ProposalIds -> record or NoProposal (drive_proposals)
    runs,           \* RunIds -> record or NoRun (drive_organizer_runs)
    corrections,    \* sequence of the moves made (drive_corrections)
    tasks,          \* DriveCalls -> the call's local state
    begun           \* calls begun so far

driveVars == <<entries, proposals, runs, corrections, tasks, begun>>

EntryIds == 1..MaxEntries
ProposalIds == 1..MaxProposals
RunIds == 1..MaxRuns
Collisions == {"keep-both", "overwrite", "reject"}
PathIn(dir) == [dir |-> dir, copies |-> <<>>]
NoPath == PathIn("none")
NoEntry == [path |-> NoPath, hash |-> "none", ver |-> 0]
\* A removed entry; ids are random (Uuid::new_v4), so its id is not used again.
GoneEntry == [NoEntry EXCEPT !.hash = "gone"]
NoProposal == [status |-> "none", entry |-> 0, from |-> NoPath, to |-> NoPath,
               hash |-> "none", ver |-> 0, run |-> 0]
NoRun == [status |-> "none", ver |-> 0, fresh |-> FALSE]

(***************************************************************************)
(* A host call's local state.  saw is the entry version it read last,      *)
(* victim the entry it overwrites, ids the proposals it was asked about,   *)
(* todo those still to do, plan the proposals it will insert and snap the  *)
(* proposals as it listed them.                                            *)
(***************************************************************************)
NoCallState ==
    [op |-> "none", pc |-> "idle", path |-> NoPath, to |-> NoPath, hash |-> "none",
     collision |-> "keep-both", auto |-> FALSE, id |-> 0, saw |-> 0, victim |-> 0, victimSaw |-> 0,
     run |-> 0, runSaw |-> 0, ids |-> {}, todo |-> {}, verdict |-> "none",
     plan |-> [e \in EntryIds |-> NoProposal],
     snap |-> [p \in ProposalIds |-> NoProposal]]

Unsettled == {"pending", "approved"}
HasEntry(e) == entries[e].ver > 0
IdAt(path) == {e \in EntryIds : HasEntry(e) /\ entries[e].path = path}
FreeEntry == {e \in EntryIds : entries[e] = NoEntry}
FreeProposal == {p \in ProposalIds : proposals[p] = NoProposal}
ActiveRuns == {r \in RunIds : runs[r].status \in {"queued", "running"}}

\* unique_path: the first free copy, counted from 2.
UniquePath(path) ==
    LET copy(k) == [path EXCEPT !.copies = Append(@, k)]
    IN  copy(Min({k \in 2..(MaxEntries + 2) : IdAt(copy(k)) = {}}))

\* proposed_path_for_entry, for an entry with this content.
DesiredPath(e) == PathIn(Filing[entries[e].hash])
Misplaced == {e \in EntryIds : HasEntry(e) /\ entries[e].path # DesiredPath(e)}

DriveInit ==
    /\ entries = [e \in EntryIds |->
                    IF e = 1 THEN [path |-> PathIn(CHOOSE d \in Dirs : \A h \in Contents : d # Filing[h]),
                                   hash |-> CHOOSE h \in Contents : TRUE, ver |-> 1]
                             ELSE NoEntry]
    /\ proposals = [p \in ProposalIds |-> NoProposal]
    /\ runs = [r \in RunIds |-> NoRun]
    /\ corrections = <<>>
    /\ tasks = [c \in DriveCalls |-> NoCallState]
    /\ begun = 0

InCall(c, pc) == tasks[c].pc = pc
Goto(c, pc) == tasks' = [tasks EXCEPT ![c].pc = pc]
EndCall(c) == tasks' = [tasks EXCEPT ![c] = NoCallState]
StoreUnchanged == UNCHANGED <<entries, proposals, runs, corrections>>

-----------------------------------------------------------------------------
(* A call begins and, if its operation asks, waits for the approval.       *)

BeginDriveCall(c, state) ==
    /\ InCall(c, "idle") /\ begun < MaxDriveCalls
    /\ tasks' = [tasks EXCEPT ![c] = state]
    /\ begun' = begun + 1
    /\ StoreUnchanged

\* drive.put: overwriting and automatic filing ask first, a plain write does
\* not.  The path planned for the question is planned again for the write.
CallPut(c, dir, h, collision, auto) ==
    BeginDriveCall(c, [NoCallState EXCEPT
        !.op = "put", !.path = PathIn(dir), !.to = PathIn(dir), !.hash = h,
        !.collision = collision, !.auto = auto,
        !.pc = IF auto \/ collision = "overwrite" THEN "ask" ELSE "read"])

\* drive.move and drive.tag look the entry up, then always ask.
CallMove(c, e, dir, collision) ==
    /\ HasEntry(e)
    /\ BeginDriveCall(c, [NoCallState EXCEPT
        !.op = "move", !.path = entries[e].path, !.to = PathIn(dir),
        !.collision = collision, !.pc = "ask"])

CallTag(c, e) ==
    /\ HasEntry(e)
    /\ BeginDriveCall(c, [NoCallState EXCEPT
        !.op = "tag", !.path = entries[e].path, !.pc = "ask"])

\* drive.organize: apply reads the pending proposals first and organizes
\* only when there are none.
CallOrganize(c, apply) ==
    LET pending == {p \in ProposalIds : proposals[p].status \in Unsettled}
        go == apply /\ pending # {}
    IN  BeginDriveCall(c, [NoCallState EXCEPT
            !.op = IF apply THEN "apply" ELSE "organize",
            !.ids = IF go THEN pending ELSE {},
            !.pc = IF go THEN "ask" ELSE "findRun"])

\* require_approval: refused calls change nothing, except that an apply
\* goes on to mark the proposals it listed.
Decide(c, verdict) ==
    /\ InCall(c, "ask")
    /\ IF verdict = "approved"
       THEN Goto(c, IF tasks[c].op = "apply" THEN "list" ELSE "read")
       ELSE IF tasks[c].op = "apply"
       THEN tasks' = [tasks EXCEPT ![c].pc = "list", ![c].verdict = verdict]
       ELSE EndCall(c)
    /\ StoreUnchanged /\ UNCHANGED begun

-----------------------------------------------------------------------------
(* put_bytes, move_entry, tag_entry: read, then one versioned write.       *)

\* put_bytes up to its first write, after the approval: the same content is already
\* there, overwrite, reject, or a copy.  dedupe is the call's option ContentHash.
ReadForPut(c, dedupe) ==
    /\ InCall(c, "read") /\ tasks[c].op = "put"
    /\ LET at == IdAt(tasks[c].path) IN
       IF at = {} THEN Goto(c, "insert")
       ELSE LET e == CHOOSE x \in at : TRUE
                stored == dedupe /\ entries[e].hash = tasks[c].hash IN
            CASE stored -> EndCall(c)
              [] ~stored /\ tasks[c].collision = "overwrite" ->
                   tasks' = [tasks EXCEPT ![c].pc = "swap", ![c].id = e,
                                          ![c].saw = entries[e].ver]
              [] ~stored /\ tasks[c].collision = "reject" -> EndCall(c)
              [] OTHER -> tasks' = [tasks EXCEPT ![c].pc = "insert",
                                                 ![c].path = UniquePath(tasks[c].path)]
    /\ StoreUnchanged /\ UNCHANGED begun

\* insert_entry: a path that is taken is a collision; keep-both looks for
\* the next copy and tries again.
PathFree(path) == IdAt(path) = {}

InsertEntry(c) ==
    /\ InCall(c, "insert")
    /\ IF PathFree(tasks[c].path)
       THEN /\ FreeEntry # {}
            /\ entries' = [entries EXCEPT ![Min(FreeEntry)] =
                             [path |-> tasks[c].path, hash |-> tasks[c].hash, ver |-> 1]]
            /\ IF tasks[c].auto
               THEN tasks' = [tasks EXCEPT ![c].pc = "offer", ![c].id = Min(FreeEntry)]
               ELSE EndCall(c)
       ELSE /\ IF tasks[c].collision = "keep-both"
               THEN tasks' = [tasks EXCEPT ![c].path = UniquePath(tasks[c].path)]
               ELSE EndCall(c)
            /\ UNCHANGED entries
    /\ UNCHANGED <<proposals, runs, corrections, begun>>

\* The proposal an automatic put leaves behind: a second write, with no
\* content hash to hold it to.
OfferProposal(c) ==
    /\ InCall(c, "offer") /\ FreeProposal # {}
    /\ proposals' = [proposals EXCEPT ![Min(FreeProposal)] =
         [status |-> "pending", entry |-> tasks[c].id, from |-> tasks[c].path,
          to |-> tasks[c].to, hash |-> "none", ver |-> 1, run |-> 0]]
    /\ EndCall(c)
    /\ UNCHANGED <<entries, runs, corrections, begun>>

\* compare_and_swap_entry: the write is made only over the version read.
SwapFits(c) == HasEntry(tasks[c].id) /\ entries[tasks[c].id].ver = tasks[c].saw

SwapEntry(c) ==
    /\ InCall(c, "swap")
    /\ IF SwapFits(c)
       THEN entries' = [entries EXCEPT
              ![tasks[c].id].hash = IF tasks[c].op = "put" THEN tasks[c].hash ELSE @,
              ![tasks[c].id].ver = @ + 1]
       ELSE UNCHANGED entries
    /\ EndCall(c)
    /\ UNCHANGED <<proposals, runs, corrections, begun>>

ReadForTag(c) ==
    /\ InCall(c, "read") /\ tasks[c].op = "tag"
    /\ IF IdAt(tasks[c].path) = {} THEN EndCall(c)
       ELSE LET e == CHOOSE x \in IdAt(tasks[c].path) : TRUE IN
            tasks' = [tasks EXCEPT ![c].pc = "swap", ![c].id = e, ![c].saw = entries[e].ver]
    /\ StoreUnchanged /\ UNCHANGED begun

\* move_entry's reads: the source, the entry at the target, a free copy.
ReadForMove(c) ==
    /\ InCall(c, "read") /\ tasks[c].op = "move"
    /\ LET source == IdAt(tasks[c].path)
           s == CHOOSE x \in source : TRUE
           other == IdAt(tasks[c].to) \ {s}
           o == CHOOSE x \in other : TRUE
           found == [tasks[c] EXCEPT !.pc = "commitMove", !.id = s, !.saw = entries[s].ver]
       IN  CASE source = {} -> EndCall(c)
             [] source # {} /\ other = {} -> tasks' = [tasks EXCEPT ![c] = found]
             [] source # {} /\ other # {} /\ tasks[c].collision = "reject" -> EndCall(c)
             [] source # {} /\ other # {} /\ tasks[c].collision = "overwrite" ->
                  tasks' = [tasks EXCEPT ![c] = [found EXCEPT
                              !.victim = o, !.victimSaw = entries[o].ver]]
             [] OTHER -> tasks' = [tasks EXCEPT ![c] =
                              [found EXCEPT !.to = UniquePath(tasks[c].to)]]
    /\ StoreUnchanged /\ UNCHANGED begun

\* commit_move: source and overwritten entry at the versions read, nothing
\* else at the target; move, removal and correction are one transaction.
MoveFits(c) ==
    LET m == tasks[c] IN
    /\ HasEntry(m.id) /\ entries[m.id].ver = m.saw
    /\ m.victim # 0 => /\ HasEntry(m.victim) /\ entries[m.victim].ver = m.victimSaw
                       /\ entries[m.victim].path = m.to
    /\ IdAt(m.to) \subseteq {m.id, m.victim}

CommitMove(c) ==
    /\ InCall(c, "commitMove")
    /\ IF MoveFits(c)
       THEN /\ entries' = [e \in EntryIds |->
                 IF e = tasks[c].id THEN [entries[e] EXCEPT !.path = tasks[c].to, !.ver = @ + 1]
                 ELSE IF e = tasks[c].victim THEN GoneEntry ELSE entries[e]]
            /\ corrections' = Append(corrections,
                 [entry |-> tasks[c].id, from |-> entries[tasks[c].id].path, to |-> tasks[c].to])
       ELSE UNCHANGED <<entries, corrections>>
    /\ EndCall(c)
    /\ UNCHANGED <<proposals, runs, begun>>

-----------------------------------------------------------------------------
(* organize: claim the run, propose a move per misplaced entry, complete.  *)

\* The lease test of organize: a running run is taken over only when stale.
LeaseHeld(r) == runs[r].status = "running" /\ runs[r].fresh

\* organizer_runs, the 30 s lease test, and the choice between a new run
\* and the one found.
FindRun(c) ==
    /\ InCall(c, "findRun")
    /\ IF ActiveRuns = {} THEN Goto(c, "insertRun")
       ELSE LET r == Min(ActiveRuns) IN
            IF LeaseHeld(r) THEN EndCall(c)
            ELSE tasks' = [tasks EXCEPT ![c].pc = "claim", ![c].run = r,
                                        ![c].runSaw = runs[r].ver]
    /\ StoreUnchanged /\ UNCHANGED begun

\* insert_organizer_run refuses while another run is queued or running.
RunRefused == ActiveRuns # {}

InsertRun(c) ==
    /\ InCall(c, "insertRun")
    /\ IF RunRefused THEN EndCall(c) /\ UNCHANGED runs
       ELSE LET unused == {x \in RunIds : runs[x] = NoRun}
                r == Min(unused)
            IN  /\ unused # {}
                /\ runs' = [runs EXCEPT ![r] = [status |-> "queued", ver |-> 1, fresh |-> FALSE]]
                /\ tasks' = [tasks EXCEPT ![c].pc = "claim", ![c].run = r, ![c].runSaw = 1]
    /\ UNCHANGED <<entries, proposals, corrections, begun>>

RunFits(c) == runs[tasks[c].run].ver = tasks[c].runSaw

\* compare_and_swap_organizer_run to running.
ClaimRun(c) ==
    /\ InCall(c, "claim")
    /\ IF RunFits(c)
       THEN /\ runs' = [runs EXCEPT ![tasks[c].run] =
                          [status |-> "running", ver |-> @.ver + 1, fresh |-> TRUE]]
            /\ tasks' = [tasks EXCEPT ![c].pc = "generate", ![c].runSaw = @ + 1]
       ELSE EndCall(c) /\ UNCHANGED runs
    /\ UNCHANGED <<entries, proposals, corrections, begun>>

\* generate_organizer_proposals_for_run, from the entries read now; the
\* proposals themselves are inserted one call at a time.
Generate(c) ==
    /\ InCall(c, "generate")
    /\ tasks' = [tasks EXCEPT ![c].pc = "propose",
                   ![c].todo = Misplaced,
                   ![c].plan = [e \in EntryIds |->
                      IF e \in Misplaced
                      THEN [status |-> "pending", entry |-> e, from |-> entries[e].path,
                            to |-> DesiredPath(e), hash |-> entries[e].hash, ver |-> 1,
                            run |-> tasks[c].run]
                      ELSE NoProposal]]
    /\ StoreUnchanged /\ UNCHANGED begun

InsertProposal(c) ==
    /\ InCall(c, "propose") /\ tasks[c].todo # {} /\ FreeProposal # {}
    /\ LET e == Min(tasks[c].todo)
           p == Min(FreeProposal)
       IN  /\ proposals' = [proposals EXCEPT ![p] = tasks[c].plan[e]]
           /\ tasks' = [tasks EXCEPT ![c].todo = @ \ {e}, ![c].ids = @ \cup {p}]
    /\ UNCHANGED <<entries, runs, corrections, begun>>

\* compare_and_swap_organizer_run to completed: a reclaimed run is no
\* longer this call's to complete, and its proposals stay behind.
CompleteRun(c) ==
    /\ InCall(c, "propose") /\ tasks[c].todo = {}
    /\ IF RunFits(c)
       THEN /\ runs' = [runs EXCEPT ![tasks[c].run] =
                          [status |-> "completed", ver |-> @.ver + 1, fresh |-> FALSE]]
            /\ IF tasks[c].op = "apply" /\ tasks[c].ids # {} THEN Goto(c, "ask") ELSE EndCall(c)
       ELSE EndCall(c) /\ UNCHANGED runs
    /\ UNCHANGED <<entries, proposals, corrections, begun>>

\* Thirty seconds pass over a running run.
RunLeaseLapses(r) ==
    /\ runs[r].status = "running" /\ runs[r].fresh
    /\ runs' = [runs EXCEPT ![r].fresh = FALSE]
    /\ UNCHANGED <<entries, proposals, corrections, tasks, begun>>

-----------------------------------------------------------------------------
(* Applying or refusing the proposals of an approved or refused apply.     *)

\* apply_proposals and mark_proposals_status both list the proposals anew.
ListProposals(c) ==
    /\ InCall(c, "list")
    /\ tasks' = [tasks EXCEPT ![c].snap = proposals, ![c].todo = tasks[c].ids,
                   ![c].pc = IF tasks[c].verdict = "none" THEN "look" ELSE "mark"]
    /\ StoreUnchanged /\ UNCHANGED begun

\* mark_proposals_status: the next listed proposal, whatever its status; a
\* version conflict ends the call.
MarkProposal(c) ==
    /\ InCall(c, "mark")
    /\ IF tasks[c].todo = {} THEN EndCall(c) /\ UNCHANGED proposals
       ELSE LET p == Min(tasks[c].todo) IN
            IF proposals[p].ver = tasks[c].snap[p].ver
            THEN /\ proposals' = [proposals EXCEPT ![p].status = tasks[c].verdict,
                                                   ![p].ver = @ + 1]
                 /\ tasks' = [tasks EXCEPT ![c].todo = @ \ {p}]
            ELSE EndCall(c) /\ UNCHANGED proposals
    /\ UNCHANGED <<entries, runs, corrections, begun>>

\* The reads of apply_proposals for the next proposal: a settled one is
\* skipped, the others are stale, failed or to be applied.
Outcome(q) ==
    IF /\ HasEntry(q.entry) /\ entries[q.entry].path = q.from
       /\ q.hash \in {"none", entries[q.entry].hash}
    THEN IF IdAt(q.to) \subseteq {q.entry} THEN "applied" ELSE "failed"
    ELSE "stale"

LookAtProposal(c) ==
    /\ InCall(c, "look")
    /\ IF tasks[c].todo = {} THEN EndCall(c)
       ELSE LET p == Min(tasks[c].todo)
                q == tasks[c].snap[p]
            IN  IF q.status \notin Unsettled
                THEN tasks' = [tasks EXCEPT ![c].todo = @ \ {p}]
                ELSE tasks' = [tasks EXCEPT ![c].pc = "commit", ![c].verdict = Outcome(q),
                                            ![c].saw = entries[q.entry].ver]
    /\ StoreUnchanged /\ UNCHANGED begun

\* Variant, not the code: the entry may have changed since it was read.
CommitFitsTarget(c, p) ==
    LET q == tasks[c].snap[p] IN proposals[p].ver = q.ver /\ IdAt(q.to) \subseteq {q.entry}

\* commit_organizer_proposal: proposal and entry at the versions read, the
\* target still free.
CommitFits(c, p) ==
    LET q == tasks[c].snap[p] IN
    /\ proposals[p].ver = q.ver
    /\ tasks[c].verdict = "applied" =>
         HasEntry(q.entry) /\ entries[q.entry].ver = tasks[c].saw
             /\ IdAt(q.to) \subseteq {q.entry}

CommitProposal(c) ==
    /\ InCall(c, "commit")
    /\ LET p == Min(tasks[c].todo)
           q == tasks[c].snap[p]
       IN  IF CommitFits(c, p)
           THEN /\ proposals' = [proposals EXCEPT ![p].status = tasks[c].verdict,
                                                  ![p].ver = @ + 1]
                /\ IF tasks[c].verdict = "applied"
                   THEN /\ entries' = [entries EXCEPT ![q.entry].path = q.to,
                                                      ![q.entry].ver = @ + 1]
                        /\ corrections' = Append(corrections,
                             [entry |-> q.entry, from |-> q.from, to |-> q.to])
                   ELSE UNCHANGED <<entries, corrections>>
                /\ tasks' = [tasks EXCEPT ![c].todo = @ \ {p}, ![c].pc = "look",
                                          ![c].verdict = "none"]
           ELSE EndCall(c) /\ UNCHANGED <<entries, proposals, corrections>>
    /\ UNCHANGED <<runs, begun>>

\* The server stops: the calls are gone, the records stay.
DriveCrash ==
    /\ tasks # [c \in DriveCalls |-> NoCallState]
    /\ tasks' = [c \in DriveCalls |-> NoCallState]
    /\ StoreUnchanged /\ UNCHANGED begun

CallStep(c) ==
    \/ \E v \in {"approved", "denied", "failed"} : Decide(c, v)
    \/ \E dedupe \in BOOLEAN : ReadForPut(c, dedupe)
    \/ InsertEntry(c) \/ OfferProposal(c) \/ SwapEntry(c) \/ ReadForTag(c)
    \/ ReadForMove(c) \/ CommitMove(c)
    \/ FindRun(c) \/ InsertRun(c) \/ ClaimRun(c) \/ Generate(c)
    \/ InsertProposal(c) \/ CompleteRun(c)
    \/ ListProposals(c) \/ MarkProposal(c) \/ LookAtProposal(c) \/ CommitProposal(c)

DriveNext ==
    \/ \E c \in DriveCalls : CallStep(c)
    \/ \E c \in DriveCalls, d \in Dirs, h \in Contents, k \in Collisions, auto \in BOOLEAN :
         CallPut(c, d, h, k, auto)
    \/ \E c \in DriveCalls, e \in EntryIds, d \in Dirs, k \in Collisions : CallMove(c, e, d, k)
    \/ \E c \in DriveCalls, e \in EntryIds : CallTag(c, e)
    \/ \E c \in DriveCalls, apply \in BOOLEAN : CallOrganize(c, apply)
    \/ \E r \in RunIds : RunLeaseLapses(r)
    \/ DriveCrash

DriveSpec == DriveInit /\ [][DriveNext]_driveVars

-----------------------------------------------------------------------------
(* Properties.                                                             *)

DriveTypeOK ==
    /\ \A e \in EntryIds : entries[e] \in {NoEntry, GoneEntry} \/
         /\ entries[e].path \in [dir : Dirs, copies : Seq(Nat)]
         /\ entries[e].hash \in Contents /\ entries[e].ver \in Nat \ {0}
    /\ \A p \in ProposalIds : proposals[p].status \in
         Unsettled \cup {"none", "applied", "denied", "failed", "stale"}
    /\ \A r \in RunIds : runs[r].status \in {"none", "queued", "running", "completed"}
    /\ \A c \in DriveCalls : tasks[c].ids \subseteq ProposalIds
    /\ begun \in 0..MaxDriveCalls

(* However puts, moves and applied proposals interleave, two documents     *)
(* never share a path, so no document is hidden behind another.            *)
OneEntryPerPath ==
    \A e, f \in EntryIds : HasEntry(e) /\ HasEntry(f) /\ entries[e].path = entries[f].path => e = f

(* A document's content is replaced, or the document removed, only by a    *)
(* call that had read the very version it replaces: an edit made between   *)
(* that read and the write is not lost.  The read comes after the approval *)
(* (put_bytes, move_entry), so an edit made while an overwrite waits for   *)
(* its answer is read with it and overwritten.                             *)
SeenBeforeReplaced ==
    [][\A e \in EntryIds :
         HasEntry(e) /\ entries'[e].hash # entries[e].hash
           => \E c \in DriveCalls :
                \/ tasks[c].id = e /\ tasks[c].saw = entries[e].ver
                \/ tasks[c].victim = e /\ tasks[c].victimSaw = entries[e].ver]_driveVars

(* A proposal becomes applied only in the step that moves its document     *)
(* from the place and content it was proposed for to the place proposed,   *)
(* and that move is logged in the same step.                               *)
AppliedAsProposed ==
    [][\A p \in ProposalIds :
         LET q == proposals[p] IN
         q.status # "applied" /\ proposals'[p].status = "applied" =>
           /\ entries[q.entry].path = q.from /\ entries'[q.entry].path = q.to
           /\ q.hash \in {"none", entries[q.entry].hash}
           /\ entries'[q.entry].hash = entries[q.entry].hash
           /\ corrections' = Append(corrections, [entry |-> q.entry, from |-> q.from, to |-> q.to])
      ]_driveVars

(* At most one organizer run is active, and at most one call in flight     *)
(* still owns it: two never complete, or generate for, the same claim.     *)
OneOrganizer ==
    /\ Cardinality(ActiveRuns) <= 1
    /\ \A c, d \in {x \in DriveCalls : tasks[x].pc \in {"generate", "propose"}} :
         RunFits(c) /\ RunFits(d) => c = d

(* "duplicate workers cannot claim a fresh running organizer lease": while *)
(* a run's lease is fresh only the call that holds it changes the run,     *)
(* also against a caller that looked before the lease was taken.           *)
LeaseIsRespected ==
    [][\A r \in RunIds : runs[r].fresh /\ runs'[r].ver # runs[r].ver =>
         \E c \in DriveCalls : tasks[c].pc = "propose" /\ tasks[c].run = r /\ RunFits(c)]_driveVars

\* What the drive keeps under concurrent calls.
DriveCorrect ==
  /\ []DriveTypeOK
  /\ []OneEntryPerPath
  /\ []OneOrganizer
  /\ SeenBeforeReplaced
  /\ AppliedAsProposed
  /\ LeaseIsRespected
=============================================================================
