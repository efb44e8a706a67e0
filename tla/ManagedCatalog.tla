---------------------------- MODULE ManagedCatalog ----------------------------
(***************************************************************************)
(* The versioned catalogue of one managed asset: a skill, or the addendum  *)
(* of a mode or of the persona.  A version is a directory named after the  *)
(* digest of its content and is never written again; active.json points at *)
(* the version in force.  An install or a rollback holds the asset's flock *)
(* from its first read to its answer; readers take no lock.  A skill is    *)
(* installed over whatever is active, an addendum only over the version it *)
(* was reviewed against, and a pointer that a rollback wrote says so.  The *)
(* process can die between any two file operations, and the machine can    *)
(* lose what no fsync of the directory has made durable.                   *)
(***************************************************************************)
EXTENDS Naturals, FiniteSets

CONSTANTS
  Families,        \* the kinds of asset: a subset of {"skill", "addendum"}
  Versions,      \* digests of contents
  Proposals,     \* source proposals: the provenance kept in a manifest
  Requests,      \* installs and rollbacks, each of which may be tried again
  Readers,       \* tasks that read the active version
  Nothing,       \* no version, no request
  Pids,          \* process ids: that of a container comes again
  MaxTries,      \* bound: tries of one request
  MaxMishaps,     \* bound: file operations that fail
  MaxDeaths      \* bound: deaths of the process and losses of power

ASSUME CatalogAssumption ==
  /\ Nothing \notin Versions /\ Nothing \notin Proposals /\ Nothing \notin Requests
  /\ Families \subseteq {"skill", "addendum"}
  /\ Pids \subseteq Nat

VARIABLES
  family,     \* which kind of asset this is
  kept,      \* per digest: the proposal in its version directory, or Nothing
  safe,      \* the same as the disk would show it after a loss of power
  pointer,   \* active.json: the active digest and the one a rollback left
  safePtr,   \* the same after a loss of power
  temps,     \* temporary directories and pointers left in the asset's directory
  pid,       \* the server's process id
  seq,       \* TEMP_FILE_SEQUENCE
  flock,     \* the request that holds .catalog.lock, or Nothing
  call,       \* per request: what is asked and how far it is
  reader,    \* per reader: the digest its pointer named, and what it then found
  lapsed,    \* digests whose directory was renamed and then not synced
  mishaps    \* how often the bounded faults happened

catalogVars == <<family, kept, safe, pointer, safePtr, temps, pid, seq, flock, call, reader,
                 lapsed, mishaps>>
shelf == <<kept, safe, lapsed>>
active == <<pointer, safePtr>>

Asked(op, d, p, e) ==
  [op |-> op, digest |-> d, from |-> p, expected |-> e, at |-> "idle", tries |-> 0]
NotAsked == Asked("none", Nothing, Nothing, Nothing)
NoPointer == [digest |-> Nothing, from |-> Nothing, there |-> FALSE]
Resting == [at |-> "idle", saw |-> Nothing]

CatalogInit ==
  /\ family \in Families
  /\ kept = [d \in Versions |-> Nothing] /\ safe = kept /\ lapsed = {}
  /\ pointer = NoPointer /\ safePtr = NoPointer
  /\ temps = {} /\ pid \in Pids /\ seq = 1
  /\ flock = Nothing /\ call = [r \in Requests |-> NotAsked]
  /\ reader = [x \in Readers |-> Resting]
  /\ mishaps = [faults |-> 0, deaths |-> 0]

Mishap == mishaps.faults < MaxMishaps /\ mishaps' = [mishaps EXCEPT !.faults = @ + 1]
NoMishap == UNCHANGED mishaps

Goes(r, at) == call' = [call EXCEPT ![r].at = at]

\* An addendum change, and any rollback, compares the pointer with what was reviewed.
Compares(r) == family = "addendum" \/ call[r].op = "rollback"

-----------------------------------------------------------------------------
(* The requests that validation lets through, as they were reviewed: the digest that was *)
(* active then is the expected one.                                                       *)

\* The digest is the one of the content, and of a known form, as is the provenance.
Installs == {Asked("install", d, p, pointer.digest) : d \in Versions, p \in Proposals}

\* Only an addendum can be rolled back to none.
Targets == Versions \cup (IF family = "addendum" THEN {Nothing} ELSE {})
Rollbacks == {Asked("rollback", d, Nothing, pointer.digest) : d \in Targets}

Review(r) ==
  /\ call[r].op = "none"
  /\ \E q \in Installs \cup (IF pointer.digest = Nothing THEN {} ELSE Rollbacks) :
       call' = [call EXCEPT ![r] = q]
  /\ UNCHANGED <<family, shelf, active, temps, pid, seq, flock, reader, mishaps>>

\* lock_skill, lock_mode: the validated call waits for the lock.
LockAnyway == TRUE
NoOneElse == flock = Nothing
Lock(r) ==
  /\ call[r].op # "none" /\ call[r].at \in {"idle", "failed"} /\ call[r].tries < MaxTries
  /\ NoOneElse
  /\ flock' = r
  /\ call' = [call EXCEPT ![r].at = "begin", ![r].tries = @ + 1]
  /\ UNCHANGED <<family, shelf, active, temps, pid, seq, reader, mishaps>>

\* An addendum that is active already is not installed again: the answer of the first try.
AlreadyInstalled(r) == family = "addendum" /\ pointer.digest = call[r].digest
StillExpected(r) == pointer.digest = call[r].expected

\* A version that is there is this request's if its manifest agrees, provenance included.
SameVersion(r) == kept[call[r].digest] = call[r].from

BeginInstall(r) ==
  /\ call[r].at = "begin" /\ call[r].op = "install"
  /\ Goes(r, IF AlreadyInstalled(r)
             THEN IF SameVersion(r) THEN "answered" ELSE "refused"
             ELSE IF Compares(r) /\ ~StillExpected(r) THEN "refused"
             ELSE "version")
  /\ UNCHANGED <<family, shelf, active, temps, pid, seq, flock, reader, mishaps>>

\* rollback: an addendum's pointer tells a retry from a second rollback.
RolledBackAlready(r) ==
  /\ family = "addendum"
  /\ pointer.digest = call[r].digest /\ pointer.from = call[r].expected

Readable(d) == d = Nothing \/ kept[d] # Nothing

BeginRollback(r) ==
  /\ call[r].at = "begin" /\ call[r].op = "rollback"
  /\ Goes(r, IF ~pointer.there THEN "refused"
             ELSE IF RolledBackAlready(r)
                  THEN IF Readable(call[r].digest) THEN "answered" ELSE "refused"
             ELSE IF StillExpected(r) /\ Readable(call[r].digest) THEN "point"
             ELSE "refused")
  /\ UNCHANGED <<family, shelf, active, temps, pid, seq, flock, reader, mishaps>>

-----------------------------------------------------------------------------
(* install_immutable_version.                                               *)

\* .install-<pid>-<seq> and .active-<pid>-<seq>.tmp are created, never overwritten; only
\* the holder of the lock draws from the sequence, so that its own name is the last drawn.
TempName(of) == <<of, pid, seq>>
OwnTemp(of) == <<of, pid, seq - 1>>

\* A version that is there is read and compared; else a temporary directory is made,
\* which fails on a name left over from a process of the same id.
MakeVersion(r) ==
  LET d == call[r].digest  t == TempName("install")
  IN /\ call[r].at = "version"
     /\ \/ /\ kept[d] # Nothing
           /\ Goes(r, IF SameVersion(r) THEN "point" ELSE "refused")
           /\ UNCHANGED <<temps, seq>> /\ NoMishap
        \/ /\ kept[d] = Nothing
           /\ seq' = seq + 1
           /\ \/ /\ t \notin temps
                 /\ temps' = temps \cup {t}
                 /\ Goes(r, "fill")
                 /\ NoMishap
              \/ t \in temps /\ Goes(r, "refused") /\ UNCHANGED temps /\ NoMishap
              \/ Mishap /\ Goes(r, "refused") /\ UNCHANGED temps
     /\ UNCHANGED <<family, shelf, active, pid, flock, reader>>

\* The files are written and synced before the directory gets its name; what fails
\* before that is cleared away, if it can be.
RenameVersion(r) ==
  /\ call[r].at = "fill"
  /\ \/ /\ kept' = [kept EXCEPT ![call[r].digest] = call[r].from]
        /\ temps' = temps \ {OwnTemp("install")}
        /\ Goes(r, "syncVersion")
        /\ NoMishap
     \/ /\ Mishap
        /\ temps' \in {temps, temps \ {OwnTemp("install")}}
        /\ Goes(r, "refused")
        /\ UNCHANGED kept
  /\ UNCHANGED <<family, safe, lapsed, active, pid, seq, flock, reader>>

SyncVersions(r) ==
  /\ call[r].at = "syncVersion"
  /\ \/ safe' = kept /\ Goes(r, "point") /\ UNCHANGED lapsed /\ NoMishap
     \/ Mishap /\ lapsed' = lapsed \cup {call[r].digest} /\ Goes(r, "refused") /\ UNCHANGED safe
  /\ UNCHANGED <<family, kept, active, temps, pid, seq, flock, reader>>

-----------------------------------------------------------------------------
(* write_active_pointer.                                                    *)

WritePointer(r) ==
  LET t == TempName("active")
  IN /\ call[r].at = "point"
     /\ seq' = seq + 1
     /\ \/ /\ t \notin temps
           /\ temps' = temps \cup {t}
           /\ \/ Goes(r, "swap") /\ NoMishap
              \/ Mishap /\ Goes(r, "refused")
        \/ t \in temps /\ Goes(r, "refused") /\ UNCHANGED temps /\ NoMishap
     /\ UNCHANGED <<family, shelf, active, pid, flock, reader>>

SwapPointer(r) ==
  /\ call[r].at = "swap"
  /\ \/ /\ pointer' = [digest |-> call[r].digest, there |-> TRUE,
                       from |-> IF family = "addendum" /\ call[r].op = "rollback"
                                THEN call[r].expected ELSE Nothing]
        /\ temps' = temps \ {OwnTemp("active")}
        /\ Goes(r, "syncPointer")
        /\ NoMishap
     \/ /\ Mishap
        /\ temps' \in {temps, temps \ {OwnTemp("active")}}
        /\ Goes(r, "refused")
        /\ UNCHANGED pointer
  /\ UNCHANGED <<family, shelf, safePtr, pid, seq, flock, reader>>

SyncPointer(r) ==
  /\ call[r].at = "syncPointer"
  /\ \/ safePtr' = pointer /\ Goes(r, "answered") /\ NoMishap
     \/ Mishap /\ Goes(r, "refused") /\ UNCHANGED safePtr
  /\ UNCHANGED <<family, shelf, pointer, temps, pid, seq, flock, reader>>

\* The answer, with which the lock is dropped.
DropLock(r) ==
  /\ call[r].at \in {"answered", "refused"}
  /\ flock' = Nothing
  /\ Goes(r, IF call[r].at = "answered" THEN "done" ELSE "failed")
  /\ UNCHANGED <<family, shelf, active, temps, pid, seq, reader, mishaps>>

-----------------------------------------------------------------------------
(* active, active_body, state: no lock, so other calls move between the reads. *)

ReadPointer(x) ==
  /\ reader[x].at \in {"idle", "blind", "lost"} /\ pointer.digest # Nothing
  /\ reader' = [reader EXCEPT ![x] = [at |-> "read", saw |-> pointer.digest]]
  /\ UNCHANGED <<family, shelf, active, temps, pid, seq, flock, call, mishaps>>

ReadVersion(x) ==
  /\ reader[x].at = "read"
  /\ reader' = [reader EXCEPT ![x].at = IF kept[reader[x].saw] # Nothing THEN "found" ELSE "lost"]
  /\ UNCHANGED <<family, shelf, active, temps, pid, seq, flock, call, mishaps>>

\* A temporary directory, of an install at work or left by one that died.
TempSeen == \E t \in temps : t[1] = "install"

\* state also reads every directory beside the active one; a temporary one is not a
\* version and fails the whole listing.
ListVersions(x) ==
  /\ reader[x].at = "found"
  /\ reader' = [reader EXCEPT ![x].at = IF TempSeen THEN "blind" ELSE "idle"]
  /\ UNCHANGED <<family, shelf, active, temps, pid, seq, flock, call, mishaps>>

-----------------------------------------------------------------------------
\* The process dies; the kernel drops its lock and the files stay as they are.
Died ==
  /\ mishaps.deaths < MaxDeaths /\ mishaps' = [mishaps EXCEPT !.deaths = @ + 1]
  /\ flock' = Nothing
  /\ call' = [r \in Requests |->
               [call[r] EXCEPT !.at = IF @ \in {"idle", "done"} THEN @ ELSE "failed"]]
  /\ reader' = [x \in Readers |-> Resting]
  /\ pid' \in Pids /\ seq' = 1
  /\ lapsed' = lapsed \cup {call[r].digest : r \in {q \in Requests : call[q].at = "syncVersion"}}
  /\ UNCHANGED family

ProcessDeath == Died /\ UNCHANGED <<kept, safe, active, temps>>

\* Power is lost: of what was not synced, any part may be gone.
PowerLoss ==
  /\ Died
  /\ \E D \in SUBSET Versions : kept' = [d \in Versions |-> IF d \in D THEN safe[d] ELSE kept[d]]
  /\ safe' = kept'
  /\ pointer' \in {pointer, safePtr} /\ safePtr' = pointer'
  /\ temps' \in SUBSET temps

CatalogNext ==
  \/ \E r \in Requests :
       \/ Review(r) \/ Lock(r) \/ BeginInstall(r) \/ BeginRollback(r) \/ MakeVersion(r)
       \/ RenameVersion(r) \/ SyncVersions(r) \/ WritePointer(r) \/ SwapPointer(r)
       \/ SyncPointer(r) \/ DropLock(r)
  \/ \E x \in Readers : ReadPointer(x) \/ ReadVersion(x) \/ ListVersions(x)
  \/ ProcessDeath \/ PowerLoss

CatalogSpec == CatalogInit /\ [][CatalogNext]_catalogVars

-----------------------------------------------------------------------------
\* The pointer names a version whose directory is there and, wherever its rename was
\* synced, still there after a loss of power.
PointerHolds ==
  /\ pointer.digest \in Versions => kept[pointer.digest] # Nothing \/ pointer.digest \in lapsed
  /\ safePtr.digest \in Versions => safe[safePtr.digest] # Nothing \/ safePtr.digest \in lapsed

\* A version that is durable is never written again.
VersionsAreImmutable == \A d \in Versions : safe[d] # Nothing => kept[d] = safe[d]

\* The pointer is moved from the version the change was reviewed against: between the
\* comparison and the rename nobody else moves it.
NoLostUpdate ==
  \A r \in Requests :
    call[r].at \in {"version", "fill", "syncVersion", "point", "swap"} /\ Compares(r) =>
      pointer.digest = call[r].expected

\* A success is true when it is answered: the change is in force, with its provenance.
AnswerIsTrue ==
  \A r \in Requests :
    call[r].at = "answered" =>
      /\ pointer.digest = call[r].digest
      /\ call[r].op = "install" => kept[call[r].digest] = call[r].from

\* A reader whose pointer is overtaken still finds the version it named.
ReadersFind == \A x \in Readers : reader[x].at = "lost" => reader[x].saw \in lapsed

CatalogSafe ==
  /\ PointerHolds
  /\ VersionsAreImmutable
  /\ NoLostUpdate
  /\ AnswerIsTrue
  /\ ReadersFind
=============================================================================
