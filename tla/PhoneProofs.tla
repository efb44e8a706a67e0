----------------------------- MODULE PhoneProofs -----------------------------
(***************************************************************************)
(* Proofs about the phone: the speech model and the isolates that load it, *)
(* for any number of files, activities, dictations and mishaps; the        *)
(* authority it holds, for any number of origins, codes, devices, syncs,   *)
(* changes and crashes; and the session events it shows, for any number    *)
(* of events, breaks and loads.                                            *)
(***************************************************************************)
EXTENDS VoiceModel, PhoneAuthority, SessionEvents, SequenceTheorems, TLAPS

-----------------------------------------------------------------------------
(* The speech model: the inductive invariant.                              *)

Outcomes == {"none", "missing", "ready", "corrupt", "error"}
Loadings == {"loading", "hearing", "close"}
Spawning == {"inspect", "inspected", "spawned", "configured"}
ModelOp == [kind : {"none", "inspect", "install", "delete"},
            at : {"idle", "start", "remove", "load", "answer", "clear"},
            who : 0 .. MaxDictations + 1, n : 0 .. ModelFiles, res : Outcomes]
SheetCall == [kind : {"none", "install", "delete"},
              at : {"idle", "begin", "cancel", "native", "apply", "applying"}, res : Outcomes]
DictRecord == [at : Loadings \cup Spawning \cup {"none", "done"}, cut : BOOLEAN, own : BOOLEAN,
               ok : BOOLEAN, iso : BOOLEAN, rec : BOOLEAN, whole : BOOLEAN, killed : BOOLEAN]

ModelTypeOK ==
  /\ version = Absent \/ version \in SUBSET Full
  /\ opLock \in Activity \cup {0} /\ here \in Activity /\ foreign \in BOOLEAN
  /\ op \in [Activity -> ModelOp]
  /\ busyFlag \in [Activity -> BOOLEAN] /\ stopFlag \in [Activity -> BOOLEAN]
  /\ manage \in SheetCall /\ refresh \in SheetCall
  /\ dict \in [Dictation -> DictRecord] /\ now \in Dictation \cup {0}
  /\ asked \in [dictations : 0 .. MaxDictations, managed : Nat, snags : Nat]

\* A thread that moves files holds the lock; an install removes only what is not whole
\* and, once it downloads, has the directories to itself.
OpHolds(a) ==
  /\ op[a].at # "idle" => busyFlag[a]
  /\ op[a].at \in {"remove", "load"} => opLock = a
  /\ op[a].at \in {"start", "remove"} => op[a].n = 0
  /\ op[a].at = "remove" => op[a].kind \in {"install", "delete"}
  /\ op[a].at = "remove" /\ op[a].kind = "install" => version # Full
  /\ op[a].at = "load" => version = Absent /\ staged = 1 .. op[a].n /\ op[a].kind = "install"
  /\ a > here => op[a].at = "idle"

\* The activity in being deletes only while the sheet waits for it and nothing is
\* dictated, and inspects for a dictation only while that one waits.
HereHolds ==
  /\ op[here].kind = "delete" /\ op[here].at \in {"start", "remove"} =>
       manage.kind = "delete" /\ manage.at = "native"
  /\ manage.kind = "delete" /\ manage.at = "native" => now = 0
  /\ op[here].at \in {"start", "remove", "load", "answer"} /\ op[here].who \in Dictation =>
       op[here].kind = "inspect" /\ dict[op[here].who].at = "inspect"
  /\ op[here].at = "answer" /\ op[here].who \in Dictation /\ op[here].res = "ready" /\ ~foreign =>
       version = Full

Untouched(d) == d.at = "none" /\ ~d.cut /\ ~d.own /\ ~d.ok /\ ~d.rec

\* A dictation past the spawn is the one in progress; one before it is, or was given up.
\* As long as it is the one in progress, the model it inspected stays whole.
DictHolds(k) ==
  /\ dict[k].own => dict[k].at \in Loadings \cup {"done"}
  /\ dict[k].at \in Loadings => now = k /\ dict[k].ok /\ dict[k].own
  /\ dict[k].at \in Spawning => now = k \/ dict[k].cut
  /\ dict[k].at \in {"spawned", "configured"} => dict[k].ok
  /\ now = k => dict[k].at \in Spawning \cup Loadings
  /\ now = k /\ dict[k].at \notin Loadings => ~dict[k].cut
  /\ dict[k].ok /\ now = k /\ ~foreign => version = Full
  /\ dict[k].rec /\ ~dict[k].killed =>
       dict[k].at \in {"hearing", "close"} /\ (foreign \/ dict[k].whole)
  /\ k > asked.dictations => Untouched(dict[k])

ModelInv ==
  /\ ModelTypeOK
  /\ \A a \in Activity : OpHolds(a)
  /\ HereHolds
  /\ \A k \in Dictation : DictHolds(k)

\* Which values the constants of the model are.
LEMMA ModelConstants ==
  /\ 0 \notin Dictation /\ ByRefresh \notin Dictation /\ BySheet \notin Dictation
  /\ Full # Absent /\ Full # {} /\ Dictation \subseteq Nat /\ Activity \subseteq Nat
  /\ Dictation = 1 .. MaxDictations
  /\ NoOp \in ModelOp /\ NoDict \in DictRecord /\ Unasked \in SheetCall
BY ModelAssumption
DEF Dictation, ByRefresh, BySheet, Full, Absent, Activity, NoOp, ModelOp, NoDict, DictRecord, Unasked,
    SheetCall, Outcomes, Loadings, Spawning

LEMMA ModelInitHolds == ModelInit => ModelInv
<1> SUFFICES ASSUME ModelInit PROVE ModelInv
  OBVIOUS
<1> USE ModelAssumption, ModelConstants
<1>1. ModelTypeOK
  <2>1. version = Absent \/ version \in SUBSET Full
    BY DEF ModelInit, Full, Manifest
  <2>2. refresh \in SheetCall
    BY DEF ModelInit, Unasked, SheetCall, Outcomes
  <2>3. here \in Activity /\ asked \in [dictations : 0 .. MaxDictations, managed : Nat, snags : Nat]
    BY DEF ModelInit, Activity
  <2> QED BY <2>1, <2>2, <2>3 DEF ModelInit, ModelTypeOK
<1>2. \A a \in Activity : OpHolds(a)
  BY DEF ModelInit, OpHolds, NoOp
<1>3. HereHolds
  BY DEF ModelInit, HereHolds, NoOp, Unasked, Activity
<1>4. \A k \in Dictation : DictHolds(k)
  BY DEF ModelInit, DictHolds, Untouched, NoDict, Loadings, Spawning
<1> QED BY <1>1, <1>2, <1>3, <1>4 DEF ModelInv

-----------------------------------------------------------------------------
(* A step of a thread that works on the directories.                       *)

\* Where the thread is after its step.
ThreadAt(a, x) ==
  /\ op' \in [Activity -> ModelOp]
  /\ \A b \in Activity \ {a} : op'[b] = op[b]
  /\ op'[a].at = x /\ op'[a].kind = op[a].kind /\ op'[a].who = op[a].who

\* What the step may do to the model: break it only as another activity's thread, or while
\* nothing is dictated.
VersionMoves(a) ==
  /\ version' = Absent \/ version' \in SUBSET Full
  /\ foreign' \in BOOLEAN /\ (foreign => foreign')
  /\ foreign' \/ version' = version \/ version' = Full \/ version # Full \/ (a = here /\ now = 0)

CountStays == asked' \in [dictations : 0 .. MaxDictations, managed : Nat, snags : Nat]
              /\ asked'.dictations = asked.dictations

LEMMA SnagCounts == ASSUME ModelTypeOK, Snag \/ UNCHANGED asked PROVE CountStays
BY DEF ModelTypeOK, Snag, CountStays

LEMMA OpMoves ==
  ASSUME ModelTypeOK, NEW a \in Activity, NEW x \in {"remove", "load", "answer", "clear"},
         op' = [op EXCEPT ![a].at = x]
  PROVE  ThreadAt(a, x) /\ op'[a].n = op[a].n /\ op'[a].res = op[a].res
BY DEF ModelTypeOK, ThreadAt, ModelOp

LEMMA OpEnded ==
  ASSUME ModelTypeOK, NEW a \in Activity, NEW r \in Outcomes, OpEnds(a, r)
  PROVE  ThreadAt(a, "answer") /\ op'[a].res = r
BY DEF ModelTypeOK, ThreadAt, ModelOp, OpEnds

\* Only the thread that holds the lock moves files.
LEMMA OthersWait ==
  ASSUME ModelInv, NEW a \in Activity, opLock \in {0, a}, NEW b \in Activity \ {a}
  PROVE  op[b].at \notin {"remove", "load"}
<1>1. OpHolds(b) /\ 0 \notin Activity
  BY DEF ModelInv, Activity
<1> QED BY <1>1 DEF OpHolds

LEMMA ThreadMoves ==
  ASSUME ModelInv, NEW a \in Activity, NEW x \in {"remove", "load", "answer"}, ThreadAt(a, x),
         op[a].at \in {"start", "remove", "load"}, x = "remove" => op[a].at \in {"start", "remove"},
         opLock \in {0, a}, opLock' \in {0, a}, VersionMoves(a), CountStays,
         UNCHANGED <<busyFlag, stopFlag, here, sheet, dict, now>>,
         x \in {"remove", "load"} => opLock' = a,
         x = "remove" => /\ op[a].kind = "delete" \/ (op[a].kind = "install" /\ version' # Full)
                         /\ op'[a].n = op[a].n,
         x = "load" => op[a].kind = "install" /\ version' = Absent /\ staged' = 1 .. op'[a].n,
         x = "answer" /\ op[a].kind = "inspect" /\ op'[a].res = "ready" => version' = Full
  PROVE  ModelInv'
<1>1. ModelTypeOK /\ OpHolds(a) /\ here \in Activity
  BY DEF ModelInv, ModelTypeOK
<1>2. ModelTypeOK'
  BY <1>1 DEF ModelTypeOK, ThreadAt, VersionMoves, CountStays, sheet
<1>3. ASSUME NEW b \in Activity PROVE OpHolds(b)'
  <2>1. CASE b = a
    BY <2>1, <1>1 DEF OpHolds, ThreadAt
  <2>2. CASE b # a
    <3>1. OpHolds(b) /\ op'[b] = op[b] /\ op[b].at \notin {"remove", "load"}
      BY <2>2, OthersWait DEF ModelInv, ThreadAt
    <3> QED BY <3>1 DEF OpHolds
  <2> QED BY <2>1, <2>2
<1>4. HereHolds'
  <2>1. UNCHANGED <<here, manage, dict, now>> /\ HereHolds
    BY DEF sheet, ModelInv
  <2>2. CASE a = here
    BY <2>1, <2>2 DEF HereHolds, ThreadAt
  <2>3. CASE a # here
    <3>1. op'[here] = op[here] /\ (foreign \/ version = Full => foreign' \/ version' = Full)
      BY <1>1, <2>3 DEF ThreadAt, VersionMoves
    <3> QED BY <2>1, <3>1, <1>1 DEF HereHolds, VersionMoves
  <2> QED BY <2>2, <2>3
<1>5. ASSUME NEW k \in Dictation PROVE DictHolds(k)'
  <2>1. DictHolds(k) /\ k # 0
    BY ModelConstants DEF ModelInv
  <2>2. now = k => (foreign \/ version = Full => foreign' \/ version' = Full)
    BY <2>1 DEF VersionMoves
  <2> QED BY <2>1, <2>2 DEF DictHolds, CountStays, VersionMoves
<1> QED BY <1>2, <1>3, <1>4, <1>5 DEF ModelInv

LEMMA CleanupFailsHolds == ASSUME ModelInv, NEW a \in Activity, CleanupFails(a) PROVE ModelInv'
<1>1. ModelTypeOK
  BY DEF ModelInv
<1>2. ThreadAt(a, "answer") /\ op'[a].res = "error"
  BY <1>1, OpEnded DEF CleanupFails, Outcomes
<1>3. VersionMoves(a) /\ CountStays
  BY <1>1, SnagCounts DEF CleanupFails, VersionMoves, ModelTypeOK
<1> QED BY <1>2, <1>3, ThreadMoves DEF CleanupFails, Unlocked

LEMMA InspectRunsHolds == ASSUME ModelInv, NEW a \in Activity, InspectRuns(a) PROVE ModelInv'
<1>1. ModelTypeOK /\ State(version) \in Outcomes
  BY DEF ModelInv, State, Outcomes
<1>2. ThreadAt(a, "answer") /\ op'[a].res = State(version)
  BY <1>1, OpEnded DEF InspectRuns
<1>3. VersionMoves(a) /\ CountStays
  BY <1>1, SnagCounts DEF InspectRuns, VersionMoves, ModelTypeOK
<1>4. op'[a].res = "ready" => version' = Full
  BY <1>2 DEF State, InspectRuns
<1> QED BY <1>2, <1>3, <1>4, ThreadMoves DEF InspectRuns, Unlocked

LEMMA InstallStartsHolds == ASSUME ModelInv, NEW a \in Activity, InstallStarts(a) PROVE ModelInv'
<1>1. ModelTypeOK /\ OpHolds(a)
  BY DEF ModelInv
<1>2. VersionMoves(a) /\ CountStays
  BY <1>1, SnagCounts DEF InstallStarts, VersionMoves, ModelTypeOK
<1>3. CASE OpEnds(a, "ready") \/ OpEnds(a, "error")
  <2>1. ThreadAt(a, "answer")
    BY <1>1, <1>3, OpEnded DEF Outcomes
  <2>2. opLock' \in {0, a}
    BY DEF InstallStarts, Unlocked
  <2> QED BY <2>1, <2>2, <1>2, ThreadMoves DEF InstallStarts, Unlocked
<1>4. CASE /\ op' = [op EXCEPT ![a].at = IF version = Absent THEN "load" ELSE "remove"]
           /\ version # Full /\ opLock' = a
           /\ staged' = IF version = Absent /\ opLock' = a THEN {} ELSE Absent
  <2>1. CASE version = Absent
    <3>1. ThreadAt(a, "load") /\ op'[a].n = op[a].n
      BY <1>1, <1>4, <2>1, OpMoves
    <3>2. op[a].n = 0
      BY <1>1 DEF InstallStarts, OpHolds
    <3> QED BY <3>1, <3>2, <1>2, <1>4, <2>1, ThreadMoves DEF InstallStarts, Unlocked
  <2>2. CASE version # Absent
    <3>1. ThreadAt(a, "remove") /\ op'[a].n = op[a].n
      BY <1>1, <1>4, <2>2, OpMoves
    <3> QED BY <3>1, <1>2, <1>4, ThreadMoves DEF InstallStarts, Unlocked
  <2> QED BY <2>1, <2>2
<1> QED BY <1>3, <1>4 DEF InstallStarts

LEMMA DeleteStartsHolds == ASSUME ModelInv, NEW a \in Activity, DeleteStarts(a) PROVE ModelInv'
<1>1. ModelTypeOK
  BY DEF ModelInv
<1>2. VersionMoves(a) /\ CountStays
  BY <1>1, SnagCounts DEF DeleteStarts, VersionMoves, ModelTypeOK
<1>3. ThreadAt(a, "remove") /\ op'[a].n = op[a].n
  BY <1>1, OpMoves DEF DeleteStarts
<1> QED BY <1>2, <1>3, ThreadMoves DEF DeleteStarts, Unlocked

LEMMA RemoveFileHolds == ASSUME ModelInv, NEW a \in Activity, RemoveFile(a) PROVE ModelInv'
<1>1. ModelTypeOK /\ OpHolds(a) /\ HereHolds /\ opLock = a
  BY DEF ModelInv, RemoveFile, OpHolds
<1>2. op[a].kind \in {"install", "delete"}
  BY <1>1 DEF OpHolds, RemoveFile
<1>3. CountStays
  BY <1>1, SnagCounts DEF RemoveFile
<1>4. CASE UNCHANGED <<op, opLock, asked>> /\ Removing(a) /\ \E f \in version : version' = version \ {f}
  <2>1. ThreadAt(a, "remove")
    BY <1>1, <1>4 DEF ThreadAt, ModelTypeOK, RemoveFile
  <2>2. version' \in SUBSET Full /\ version' # Full
    BY <1>1, <1>4 DEF ModelTypeOK, RemoveFile
  <2>3. VersionMoves(a)
    <3>1. op[a].kind = "install" => version # Full
      BY <1>1 DEF OpHolds, RemoveFile
    <3>2. a = here /\ op[a].kind = "delete" => now = 0
      BY <1>1 DEF HereHolds, RemoveFile
    <3> QED BY <1>1, <1>2, <1>4, <2>2, <3>1, <3>2 DEF VersionMoves, Removing, ModelTypeOK
  <2>4. op'[a].n = op[a].n
    BY <1>4
  <2> QED BY <1>1, <1>2, <1>3, <1>4, <2>1, <2>2, <2>3, <2>4, ThreadMoves DEF RemoveFile
<1>5. CASE OpEnds(a, "error") /\ opLock' = 0 /\ UNCHANGED <<version, foreign>>
  <2>1. ThreadAt(a, "answer")
    BY <1>1, <1>5, OpEnded DEF Outcomes
  <2>2. VersionMoves(a)
    BY <1>1, <1>5 DEF VersionMoves, ModelTypeOK
  <2> QED BY <1>1, <1>2, <1>3, <1>5, <2>1, <2>2, ThreadMoves DEF RemoveFile
<1> QED BY <1>4, <1>5 DEF RemoveFile

LEMMA RemoveDirectoryHolds == ASSUME ModelInv, NEW a \in Activity, RemoveDirectory(a) PROVE ModelInv'
<1>1. ModelTypeOK /\ OpHolds(a) /\ opLock = a /\ version # Full
  BY ModelConstants DEF ModelInv, RemoveDirectory, OpHolds
<1>2. VersionMoves(a) /\ CountStays
  BY <1>1, SnagCounts DEF RemoveDirectory, VersionMoves, ModelTypeOK
<1>3. CASE op[a].kind = "install" /\ op' = [op EXCEPT ![a].at = "load"] /\ staged' = {} /\ UNCHANGED opLock
  <2>1. ThreadAt(a, "load") /\ op'[a].n = op[a].n
    BY <1>1, <1>3, OpMoves
  <2>2. op[a].n = 0
    BY <1>1 DEF RemoveDirectory, OpHolds
  <2> QED BY <1>1, <1>2, <1>3, <2>1, <2>2, ThreadMoves DEF RemoveDirectory
<1>4. CASE op[a].kind = "delete" /\ OpEnds(a, "missing") /\ opLock' = 0
  <2>1. ThreadAt(a, "answer")
    BY <1>1, <1>4, OpEnded DEF Outcomes
  <2> QED BY <1>1, <1>2, <1>4, <2>1, ThreadMoves DEF RemoveDirectory
<1> QED BY <1>3, <1>4 DEF RemoveDirectory

LEMMA DownloadHolds == ASSUME ModelInv, NEW a \in Activity, Download(a) PROVE ModelInv'
<1>1. ModelTypeOK /\ OpHolds(a) /\ opLock = a
  BY DEF ModelInv, Download, OpHolds
<1>2. VersionMoves(a) /\ CountStays
  BY <1>1, SnagCounts DEF Download, VersionMoves, ModelTypeOK
<1>3. ThreadAt(a, "load") /\ op'[a].n = op[a].n + 1
  BY <1>1, ModelAssumption DEF Download, ThreadAt, ModelTypeOK, ModelOp
<1>4. staged' = 1 .. op'[a].n
  <2>1. op[a].n \in Nat /\ staged = 1 .. op[a].n
    BY <1>1, ModelAssumption DEF OpHolds, Download, ModelTypeOK, ModelOp
  <2> QED BY <1>3, <2>1 DEF Download
<1>5. op[a].kind = "install" /\ version = Absent
  BY <1>1 DEF OpHolds, Download
<1> QED BY <1>1, <1>2, <1>3, <1>4, <1>5, ThreadMoves DEF Download

LEMMA DownloadFailsHolds == ASSUME ModelInv, NEW a \in Activity, DownloadFails(a) PROVE ModelInv'
<1>1. ModelTypeOK /\ opLock = a
  BY DEF ModelInv, DownloadFails, OpHolds
<1>2. VersionMoves(a) /\ CountStays
  BY <1>1, SnagCounts DEF DownloadFails, VersionMoves, ModelTypeOK
<1>3. ThreadAt(a, "answer") /\ op[a].kind = "install"
  BY <1>1, OpEnded DEF DownloadFails, Outcomes, ModelInv, OpHolds
<1> QED BY <1>1, <1>2, <1>3, ThreadMoves DEF DownloadFails

LEMMA ActivateHolds == ASSUME ModelInv, NEW a \in Activity, Activate(a) PROVE ModelInv'
<1>1. ModelTypeOK /\ opLock = a /\ op[a].kind = "install"
  BY DEF ModelInv, Activate, OpHolds
<1>2. version' = Full
  BY ModelAssumption DEF Activate, Full, Manifest
<1>3. VersionMoves(a) /\ CountStays
  BY <1>1, <1>2, SnagCounts DEF Activate, VersionMoves, ModelTypeOK
<1>4. ThreadAt(a, "answer")
  <2>1. State(version') \in Outcomes
    BY DEF State, Outcomes
  <2> QED BY <1>1, <2>1, OpEnded DEF Activate
<1> QED BY <1>1, <1>3, <1>4, ThreadMoves DEF Activate

-----------------------------------------------------------------------------
(* Steps that leave the directories alone.                                 *)

LEMMA OpsStay ==
  ASSUME ModelInv, UNCHANGED <<modelDisk, op, busyFlag, here>> PROVE \A a \in Activity : OpHolds(a)'
BY DEF ModelInv, OpHolds, modelDisk

LEMMA DictsStay ==
  ASSUME ModelInv, UNCHANGED <<modelDisk, dict, now>>, CountStays
  PROVE  \A k \in Dictation : DictHolds(k)'
BY DEF ModelInv, DictHolds, modelDisk, CountStays

\* The answer of an operation reaches whoever asked for it.
LEMMA ModelAnswerHolds == ASSUME ModelInv, NEW a \in Activity, ModelAnswer(a) PROVE ModelInv'
<1>1. ModelTypeOK /\ ThreadAt(a, "clear") /\ HereHolds /\ CountStays
  BY OpMoves, SnagCounts DEF ModelInv, ModelAnswer
<1>2. ASSUME NEW b \in Activity PROVE OpHolds(b)'
  BY <1>1 DEF ModelInv, OpHolds, ThreadAt, ModelAnswer, modelDisk
<1>3. op[a].res \in Outcomes /\ UNCHANGED <<modelDisk, busyFlag, stopFlag, here, shown, now, asked>>
  BY <1>1 DEF ModelAnswer, ModelTypeOK, ModelOp
<1>4. refresh' \in SheetCall /\ manage' \in SheetCall
  BY <1>1, <1>3, ModelConstants DEF ModelAnswer, ModelTypeOK, SheetCall
<1>5. ASSUME NEW w \in Dictation, w = op[a].who, a = here PROVE ModelInv'
  <2>1. dict[w].at = "inspect" /\ DictHolds(w) /\ op[a].at = "answer"
    BY <1>1, <1>5 DEF HereHolds, ModelAnswer, ModelInv
  <2>2. dict' = [dict EXCEPT ![w] = [@ EXCEPT !.at = "inspected", !.ok = op[a].res = "ready"]]
    BY <1>5, ModelConstants DEF ModelAnswer
  <2>3. dict' \in [Dictation -> DictRecord] /\ manage' = manage
    <3>1. [dict[w] EXCEPT !.at = "inspected", !.ok = op[a].res = "ready"] \in DictRecord
      BY <1>1 DEF ModelTypeOK, DictRecord, Spawning
    <3> QED BY <1>1, <1>5, <2>2, <3>1, ModelConstants DEF ModelTypeOK, ModelAnswer
  <2>4. /\ dict'[w].at = "inspected" /\ (dict'[w].ok <=> op[a].res = "ready")
        /\ dict'[w].cut = dict[w].cut /\ dict'[w].own = dict[w].own /\ dict'[w].rec = dict[w].rec
        /\ dict'[w].killed = dict[w].killed
    <3>1. dict[w] \in DictRecord /\ (op[a].res = "ready") \in BOOLEAN
      BY <1>1 DEF ModelTypeOK
    <3>2. dict'[w] = [dict[w] EXCEPT !.at = "inspected", !.ok = op[a].res = "ready"]
      BY <1>1, <2>2 DEF ModelTypeOK
    <3>3. PICK ready \in BOOLEAN : ready = (op[a].res = "ready")
      BY Zenon
    <3>4. dict'[w] = [dict[w] EXCEPT !.at = "inspected", !.ok = ready]
      BY <3>2, <3>3, Zenon
    <3>5. /\ dict'[w].at = "inspected" /\ dict'[w].ok = ready
          /\ dict'[w].cut = dict[w].cut /\ dict'[w].own = dict[w].own /\ dict'[w].rec = dict[w].rec
          /\ dict'[w].killed = dict[w].killed
      BY <3>1, <3>4 DEF DictRecord
    <3> QED BY <3>3, <3>5
  <2>5. DictHolds(w)'
    <3>1. w \leq asked.dictations
      BY <1>1, <1>5, <2>1, ModelConstants DEF DictHolds, Untouched, ModelTypeOK
    <3>2. op[a].res = "ready" /\ ~foreign => version = Full
      BY <1>1, <1>5, <2>1 DEF HereHolds
    <3>3. ~dict[w].own /\ (~dict[w].rec \/ dict[w].killed)
      BY <2>1, <2>4 DEF DictHolds, Loadings
    <3>4. /\ UNCHANGED <<version, foreign, now>> /\ asked' = asked
          /\ w \in Nat /\ asked.dictations \in Nat
      BY <1>1, <1>3, <1>5, ModelConstants DEF modelDisk, ModelTypeOK
    <3>5. (now = w \/ dict[w].cut) /\ (now = w => ~dict[w].cut)
      BY <2>1 DEF DictHolds, Loadings, Spawning
    <3> QED BY <2>4, <3>1, <3>2, <3>3, <3>4, <3>5 DEF DictHolds, Loadings, Spawning
  <2>6. ASSUME NEW k \in Dictation PROVE DictHolds(k)'
    <3>1. CASE k # w
      <4>1. dict'[k] = dict[k] /\ DictHolds(k)
        BY <1>1, <2>2, <3>1 DEF ModelTypeOK, ModelInv
      <4> QED BY <4>1, <1>3 DEF DictHolds, modelDisk
    <3> QED BY <2>5, <3>1
  <2>7. HereHolds'
    BY <1>1, <1>3, <1>5, <2>3 DEF HereHolds, ThreadAt
  <2> QED BY <1>1, <1>2, <1>3, <1>4, <2>3, <2>6, <2>7 DEF ModelInv, ModelTypeOK, ThreadAt, modelDisk
<1>6. ASSUME ~(a = here /\ op[a].who \in Dictation) PROVE ModelInv'
  <2>1. dict' = dict
    BY <1>6 DEF ModelAnswer
  <2>2. HereHolds'
    <3>1. CASE a = here
      <4>1. op'[here].at = "clear" /\ (now = 0 => now' = 0)
        BY <3>1, <1>1, <1>3 DEF ThreadAt
      <4>2. manage'.kind = "delete" /\ manage'.at = "native" => manage' = manage
        <5>1. manage \in SheetCall
          BY <1>1 DEF ModelTypeOK
        <5>2. [manage EXCEPT !.at = "apply", !.res = op[a].res].at = "apply" /\ Unasked.kind = "none"
          BY <5>1 DEF SheetCall, Unasked
        <5> QED BY <5>2 DEF ModelAnswer
      <4>3. manage'.kind = "delete" /\ manage'.at = "native" => now' = 0
        BY <1>1, <1>3, <4>2 DEF HereHolds
      <4> QED BY <1>3, <4>1, <4>3 DEF HereHolds
    <3>2. CASE a # here
      <4>1. manage' = manage /\ op'[here] = op[here]
        BY <3>2, <1>1 DEF ModelAnswer, ThreadAt, ModelTypeOK
      <4> QED BY <1>1, <1>3, <2>1, <4>1 DEF HereHolds, modelDisk
    <3> QED BY <3>1, <3>2
  <2>3. \A k \in Dictation : DictHolds(k)'
    BY <1>1, <1>3, <2>1, DictsStay
  <2> QED BY <1>1, <1>2, <1>3, <1>4, <2>1, <2>2, <2>3 DEF ModelInv, ModelTypeOK, ThreadAt, modelDisk
<1> QED BY <1>5, <1>6

LEMMA ClearFlagHolds == ASSUME ModelInv, NEW a \in Activity, ClearFlag(a) PROVE ModelInv'
<1>1. ModelTypeOK /\ CountStays /\ HereHolds
  BY SnagCounts DEF ModelInv, ClearFlag
<1>2. ModelTypeOK'
  BY <1>1, ModelConstants DEF ModelTypeOK, ClearFlag, modelDisk, sheet
<1>3. \A b \in Activity : OpHolds(b)'
  BY <1>1 DEF ModelInv, OpHolds, ClearFlag, modelDisk, NoOp, ModelTypeOK
<1>4. HereHolds'
  BY <1>1, ModelConstants DEF HereHolds, ClearFlag, modelDisk, sheet, NoOp, ModelTypeOK, ByRefresh
<1>5. \A k \in Dictation : DictHolds(k)'
  BY <1>1, DictsStay DEF ClearFlag
<1> QED BY <1>2, <1>3, <1>4, <1>5 DEF ModelInv

\* A call that is taken starts the thread of the activity in being.
LEMMA CallStarts ==
  ASSUME ModelInv, CallTaken, NEW kind \in {"inspect", "install", "delete"},
         NEW who \in 0 .. MaxDictations + 1, Called(kind, who), UNCHANGED <<modelDisk, here>>
  PROVE  /\ op' \in [Activity -> ModelOp] /\ busyFlag' \in [Activity -> BOOLEAN]
         /\ op'[here].kind = kind /\ op'[here].at = "start" /\ op'[here].who = who
         /\ \A a \in Activity : OpHolds(a)'
<1>1. ModelTypeOK /\ here \in Activity
  BY DEF ModelInv, ModelTypeOK
<1> DEFINE new == [kind |-> kind, at |-> "start", who |-> who, n |-> 0, res |-> "none"]
<1>2. new \in ModelOp /\ new.kind = kind /\ new.at = "start" /\ new.who = who /\ new.n = 0
  BY ModelAssumption DEF ModelOp, Outcomes
<1> HIDE DEF new
<1>3. /\ op' = [op EXCEPT ![here] = new] /\ busyFlag' = [busyFlag EXCEPT ![here] = TRUE]
  BY DEF Called, new
<1>4. ASSUME NEW a \in Activity PROVE OpHolds(a)'
  <2>1. CASE a = here
    <3>1. op'[a] = new /\ busyFlag'[a] /\ here' = here /\ a \in Nat
      BY <1>1, <1>3, <2>1, ModelConstants DEF ModelTypeOK
    <3> QED BY <3>1, <1>2, <2>1 DEF OpHolds
  <2>2. CASE a # here
    <3>1. op'[a] = op[a] /\ busyFlag'[a] = busyFlag[a] /\ OpHolds(a)
      BY <1>1, <1>3, <2>2 DEF ModelTypeOK, ModelInv
    <3> QED BY <3>1 DEF OpHolds, modelDisk
  <2> QED BY <2>1, <2>2
<1> QED BY <1>1, <1>2, <1>3, <1>4 DEF ModelTypeOK

\* A call that is taken finds the activity without an operation.
LEMMA NothingRuns == ASSUME ModelInv, CallTaken PROVE op[here].at = "idle"
BY DEF ModelInv, ModelTypeOK, OpHolds, CallTaken

\* A step of the screen that neither calls nor touches a dictation.
LEMMA ScreenSteps ==
  ASSUME ModelInv, UNCHANGED <<modelDisk, op, busyFlag, here, dict, now>>, CountStays,
         stopFlag' \in [Activity -> BOOLEAN], refresh' \in SheetCall, manage' \in SheetCall,
         \/ manage' = manage
         \/ /\ manage.kind # "delete" \/ manage.at # "native"
            /\ manage'.kind # "delete" \/ manage'.at # "native"
  PROVE  ModelInv'
<1>1. ModelTypeOK' /\ HereHolds
  BY DEF ModelInv, ModelTypeOK, modelDisk, CountStays
<1>2. HereHolds'
  BY <1>1 DEF HereHolds, modelDisk
<1> QED BY <1>1, <1>2, OpsStay, DictsStay DEF ModelInv

\* A step of the screen that calls for the sheet or for the refresh.
LEMMA CallSteps ==
  ASSUME ModelInv, CallTaken, NEW kind \in {"inspect", "install", "delete"},
         NEW who \in {ByRefresh, BySheet}, Called(kind, who),
         UNCHANGED <<modelDisk, here, dict, now>>, CountStays,
         stopFlag' \in [Activity -> BOOLEAN], refresh' \in SheetCall, manage' \in SheetCall,
         kind = "delete" => now = 0 /\ manage'.kind = "delete" /\ manage'.at = "native",
         kind # "delete" => manage' = manage \/ manage'.kind # "delete"
  PROVE  ModelInv'
<1>1. who \in 0 .. MaxDictations + 1 /\ who \notin Dictation
  BY ModelAssumption, ModelConstants DEF ByRefresh, BySheet
<1>2. /\ op' \in [Activity -> ModelOp] /\ busyFlag' \in [Activity -> BOOLEAN]
      /\ op'[here].kind = kind /\ op'[here].at = "start" /\ op'[here].who = who
      /\ \A a \in Activity : OpHolds(a)'
  BY <1>1, CallStarts
<1>3. ModelTypeOK' /\ HereHolds
  BY <1>2 DEF ModelInv, ModelTypeOK, modelDisk, CountStays
<1>4. HereHolds'
  BY <1>1, <1>2, <1>3 DEF HereHolds, modelDisk
<1> QED BY <1>2, <1>3, <1>4, DictsStay DEF ModelInv

LEMMA Counts ==
  ASSUME ModelTypeOK, asked' = [asked EXCEPT !.managed = @ + 1] \/ UNCHANGED asked PROVE CountStays
BY DEF ModelTypeOK, CountStays

LEMMA SheetTypes ==
  ASSUME ModelTypeOK
  PROVE  /\ refresh \in SheetCall /\ manage \in SheetCall /\ stopFlag \in [Activity -> BOOLEAN]
         /\ [Unasked EXCEPT !.at = "begin"] \in SheetCall
         /\ [Unasked EXCEPT !.kind = "install", !.at = "native"] \in SheetCall
         /\ [Unasked EXCEPT !.kind = "delete", !.at = "cancel"] \in SheetCall
         /\ \A at \in {"native", "apply", "applying"} :
              /\ [refresh EXCEPT !.at = at] \in SheetCall /\ [manage EXCEPT !.at = at] \in SheetCall
         /\ [Unasked EXCEPT !.kind = "install", !.at = "native"].kind = "install"
         /\ Unasked.kind = "none" /\ Unasked.at = "idle"
BY DEF ModelTypeOK, SheetCall, Unasked, Outcomes

LEMMA StartRefreshHolds == ASSUME ModelInv, StartRefresh PROVE ModelInv'
<1>1. ModelTypeOK
  BY DEF ModelInv
<1> QED BY <1>1, SheetTypes, Counts, ScreenSteps DEF StartRefresh, threads

LEMMA RefreshCallsHolds == ASSUME ModelInv, RefreshCalls PROVE ModelInv'
<1>1. ModelTypeOK
  BY DEF ModelInv
<1>2. CASE CallTaken /\ Called("inspect", ByRefresh) /\ refresh' = [refresh EXCEPT !.at = "native"]
  BY <1>1, <1>2, SheetTypes, Counts, CallSteps DEF RefreshCalls
<1>3. CASE refresh' = Unasked /\ UNCHANGED <<op, busyFlag>>
  BY <1>1, <1>3, SheetTypes, Counts, ScreenSteps, ModelConstants DEF RefreshCalls
<1> QED BY <1>2, <1>3 DEF RefreshCalls

LEMMA StartInstallHolds == ASSUME ModelInv, StartInstall PROVE ModelInv'
<1>1. ModelTypeOK /\ stopFlag' \in [Activity -> BOOLEAN]
  BY DEF ModelInv, ModelTypeOK, StartInstall
<1>2. CASE /\ CallTaken /\ Called("install", BySheet)
           /\ manage' = [Unasked EXCEPT !.kind = "install", !.at = "native"]
  BY <1>1, <1>2, SheetTypes, Counts, CallSteps DEF StartInstall
<1>3. CASE UNCHANGED <<op, busyFlag, manage>>
  BY <1>1, <1>3, SheetTypes, Counts, ScreenSteps DEF StartInstall
<1> QED BY <1>2, <1>3 DEF StartInstall

LEMMA CancelInstallHolds == ASSUME ModelInv, CancelInstall PROVE ModelInv'
<1>1. ModelTypeOK /\ stopFlag' \in [Activity -> BOOLEAN]
  BY DEF ModelInv, ModelTypeOK, CancelInstall
<1> QED BY <1>1, SheetTypes, Counts, ScreenSteps DEF CancelInstall, sheet

LEMMA DeleteCallsHolds == ASSUME ModelInv, DeleteCalls PROVE ModelInv'
<1>1. ModelTypeOK
  BY DEF ModelInv
<1>2. CASE CallTaken /\ Called("delete", BySheet) /\ manage' = [manage EXCEPT !.at = "native"]
  <2>1. manage'.kind = "delete" /\ manage'.at = "native" /\ manage' \in SheetCall
    BY <1>1, <1>2 DEF DeleteCalls, ModelTypeOK, SheetCall
  <2> QED BY <1>1, <1>2, <2>1, SheetTypes, Counts, CallSteps DEF DeleteCalls, MayDelete, NoneDictated
<1>3. CASE manage' = Unasked /\ UNCHANGED <<op, busyFlag>>
  BY <1>1, <1>3, SheetTypes, Counts, ScreenSteps, ModelConstants DEF DeleteCalls
<1> QED BY <1>2, <1>3 DEF DeleteCalls

LEMMA ApplyEndsHolds == ASSUME ModelInv, ApplyEnds PROVE ModelInv'
<1>1. ModelTypeOK
  BY DEF ModelInv
<1> QED BY <1>1, SheetTypes, Counts, ScreenSteps, ModelConstants DEF ApplyEnds, threads

-----------------------------------------------------------------------------
(* Cancelling what is dictated.                                            *)

LEMMA CutHolds ==
  ASSUME ModelInv, CutNow, UNCHANGED modelDisk, CountStays
  PROVE  /\ dict' \in [Dictation -> DictRecord] /\ now' \in Dictation \cup {0} /\ (now = 0 => now' = 0)
         /\ \A k \in Dictation : DictHolds(k)' /\ (dict[k].at = "inspect" => dict'[k].at = "inspect")
<1>1. ModelTypeOK
  BY DEF ModelInv
<1>2. CASE now = 0
  BY <1>1, <1>2, DictsStay DEF CutNow, NoneDictated, ModelTypeOK
<1>3. CASE now # 0
  <2>1. now \in Dictation /\ dict[now] \in DictRecord /\ DictHolds(now)
    BY <1>1, <1>3 DEF ModelTypeOK, ModelInv
  <2> DEFINE at == IF dict[now].own THEN "close" ELSE dict[now].at
             d == [dict[now] EXCEPT !.cut = TRUE, !.at = at]
  <2>2. at \in Loadings \cup Spawning /\ (dict[now].own => at = "close")
        /\ (~dict[now].own => at = dict[now].at /\ at \in Spawning)
    BY <2>1 DEF DictHolds, Loadings, Spawning
  <2> HIDE DEF at
  <2>3. /\ d \in DictRecord /\ d.cut /\ d.at = at /\ d.own = dict[now].own /\ d.ok = dict[now].ok
        /\ d.rec = dict[now].rec /\ d.killed = dict[now].killed /\ d.whole = dict[now].whole
    <3>1. dict[now] \in DictRecord /\ at \in Loadings \cup Spawning \cup {"none", "done"}
      BY <2>1, <2>2
    <3> QED BY <3>1 DEF DictRecord
  <2>4. dict' = [dict EXCEPT ![now] = d] /\ now' = IF dict[now].own THEN now ELSE 0
    BY <1>3 DEF CutNow, NoneDictated, at
  <2> HIDE DEF d
  <2>5. dict' \in [Dictation -> DictRecord] /\ now' \in Dictation \cup {0}
    BY <1>1, <2>1, <2>3, <2>4 DEF ModelTypeOK
  <2>6. ASSUME NEW k \in Dictation PROVE DictHolds(k)' /\ (dict[k].at = "inspect" => dict'[k].at = "inspect")
    <3>1. DictHolds(k) /\ k # 0 /\ UNCHANGED <<version, foreign>>
      BY ModelConstants DEF ModelInv, modelDisk
    <3>2. CASE k = now
      <4>1. dict'[k] = d
        BY <1>1, <2>4, <3>2 DEF ModelTypeOK
      <4>2. ~(k > asked.dictations)
        BY <3>1, <3>2 DEF DictHolds, Untouched, Loadings, Spawning
      <4>3. CASE dict[now].own
        <5>1. d.at = "close" /\ now' = k /\ d.own /\ dict[k].at \in Loadings
          BY <2>1, <2>2, <2>3, <2>4, <3>2, <4>3 DEF DictHolds, Loadings, Spawning
        <5> QED BY <2>3, <3>1, <3>2, <4>1, <4>2, <5>1 DEF DictHolds, CountStays, Loadings, Spawning
      <4>4. CASE ~dict[now].own
        <5>1. d.at = dict[k].at /\ d.at \in Spawning /\ now' = 0
          BY <2>2, <2>3, <2>4, <3>2, <4>4
        <5> QED BY <2>3, <3>1, <3>2, <4>1, <4>2, <4>4, <5>1 DEF DictHolds, CountStays, Loadings, Spawning
      <4> QED BY <4>3, <4>4
    <3>3. CASE k # now
      <4>1. dict'[k] = dict[k] /\ now' # k
        BY <1>1, <2>4, <3>1, <3>3 DEF ModelTypeOK
      <4> QED BY <3>1, <3>3, <4>1 DEF DictHolds, CountStays
    <3> QED BY <3>2, <3>3
  <2> QED BY <1>3, <2>5, <2>6
<1> QED BY <1>2, <1>3

\* A step of the screen that cancels.
LEMMA CutSteps ==
  ASSUME ModelInv, CutNow, UNCHANGED <<modelDisk, threads, here>>, CountStays,
         refresh' \in SheetCall, manage' \in SheetCall,
         \/ manage' = manage
         \/ /\ manage.kind # "delete" \/ manage.at # "native"
            /\ manage'.kind # "delete" \/ manage'.at # "native"
  PROVE  ModelInv'
<1>1. /\ dict' \in [Dictation -> DictRecord] /\ now' \in Dictation \cup {0} /\ (now = 0 => now' = 0)
      /\ \A k \in Dictation : DictHolds(k)' /\ (dict[k].at = "inspect" => dict'[k].at = "inspect")
  BY CutHolds
<1>2. ModelTypeOK' /\ HereHolds
  BY <1>1 DEF ModelInv, ModelTypeOK, modelDisk, CountStays, threads
<1>3. HereHolds'
  BY <1>1, <1>2 DEF HereHolds, modelDisk, threads
<1>4. \A a \in Activity : OpHolds(a)'
  BY OpsStay DEF threads
<1> QED BY <1>1, <1>2, <1>3, <1>4 DEF ModelInv

LEMMA StartDeleteHolds == ASSUME ModelInv, StartDelete PROVE ModelInv'
<1>1. ModelTypeOK /\ [Unasked EXCEPT !.kind = "delete", !.at = "cancel"].at = "cancel"
  BY DEF ModelInv, Unasked
<1> QED BY <1>1, SheetTypes, Counts, CutSteps DEF StartDelete

LEMMA ApplyBeginsHolds == ASSUME ModelInv, ApplyBegins PROVE ModelInv'
<1>1. ModelTypeOK
  BY DEF ModelInv
<1>2. [manage EXCEPT !.at = "applying"].at = "applying"
  BY <1>1 DEF ModelTypeOK, SheetCall
<1> QED BY <1>1, <1>2, SheetTypes, Counts, CutSteps DEF ApplyBegins

LEMMA TimedOutHolds == ASSUME ModelInv, TimedOut PROVE ModelInv'
<1>1. ModelTypeOK
  BY DEF ModelInv
<1> QED BY <1>1, SheetTypes, SnagCounts, CutSteps DEF TimedOut, sheet

-----------------------------------------------------------------------------
(* The steps of a dictation.                                               *)

\* Everything but dictation k stays.
OnlyDict(k, d) ==
  /\ d \in DictRecord /\ dict' = [dict EXCEPT ![k] = d]
  /\ UNCHANGED <<modelDisk, threads, here, sheet>> /\ CountStays

LEMMA DictMoves ==
  ASSUME ModelInv, NEW k \in Dictation, NEW d, OnlyDict(k, d), dict[k].at # "inspect",
         now' = now \/ (now = k /\ now' = 0), DictHolds(k)'
  PROVE  ModelInv'
<1>1. ModelTypeOK /\ HereHolds
  BY DEF ModelInv
<1>2. dict' \in [Dictation -> DictRecord] /\ \A j \in Dictation : j # k => dict'[j] = dict[j]
  BY <1>1 DEF ModelTypeOK, OnlyDict
<1>3. ModelTypeOK'
  BY <1>1, <1>2 DEF ModelTypeOK, OnlyDict, modelDisk, threads, sheet, CountStays
<1>4. HereHolds'
  BY <1>1, <1>2 DEF HereHolds, OnlyDict, modelDisk, threads, sheet
<1>5. ASSUME NEW j \in Dictation PROVE DictHolds(j)'
  <2>1. CASE j # k
    <3>1. DictHolds(j) /\ dict'[j] = dict[j] /\ j # 0
      BY <1>2, <2>1, ModelConstants DEF ModelInv
    <3> QED BY <2>1, <3>1 DEF DictHolds, OnlyDict, modelDisk, CountStays
  <2> QED BY <2>1
<1>6. \A a \in Activity : OpHolds(a)'
  BY OpsStay DEF OnlyDict, threads
<1> QED BY <1>3, <1>4, <1>5, <1>6 DEF ModelInv

\* A dictation that ends without a recognizer, or is shut down.
LEMMA DictEnds ==
  ASSUME ModelInv, NEW k \in Dictation, NEW d, OnlyDict(k, d),
         dict[k].at \in {"inspected", "spawned", "configured", "close"}, d.at = "done",
         d.rec => d.killed \/ (dict[k].rec /\ d.rec = dict[k].rec /\ dict[k].at # "close"
                                /\ d.killed = dict[k].killed),
         now' = IF now = k THEN 0 ELSE now
  PROVE  ModelInv'
<1>1. dict'[k] = d /\ DictHolds(k) /\ k # 0 /\ UNCHANGED <<version, foreign>>
  BY ModelConstants DEF ModelInv, ModelTypeOK, OnlyDict, modelDisk
<1>2. ~(k > asked.dictations) /\ asked'.dictations = asked.dictations
  BY <1>1 DEF DictHolds, Untouched, OnlyDict, CountStays
<1>3. ~(d.rec /\ ~d.killed)
  BY <1>1 DEF DictHolds
<1>4. DictHolds(k)'
  BY <1>1, <1>2, <1>3 DEF DictHolds, Loadings, Spawning
<1> QED BY <1>4, DictMoves

LEMMA SpawnFailedHolds ==
  ASSUME ModelInv, NEW k \in Dictation, SpawnFailed(k), dict[k].at \in {"inspected", "spawned", "configured"},
         UNCHANGED <<modelDisk, threads, here, sheet>>, CountStays
  PROVE  ModelInv'
<1> DEFINE d == [dict[k] EXCEPT !.at = "done", !.iso = FALSE]
<1>1. dict[k] \in DictRecord
  BY DEF ModelInv, ModelTypeOK
<1>2. d \in DictRecord /\ d.at = "done" /\ d.rec = dict[k].rec /\ d.killed = dict[k].killed
  BY <1>1 DEF DictRecord
<1>3. dict' = [dict EXCEPT ![k] = d]
  BY DEF SpawnFailed
<1> HIDE DEF d
<1>4. OnlyDict(k, d)
  BY <1>2, <1>3 DEF OnlyDict
<1> QED BY <1>2, <1>4, DictEnds DEF SpawnFailed

\* A dictation that goes on towards its worker.
LEMMA DictSpawns ==
  ASSUME ModelInv, NEW k \in Dictation, NEW d, OnlyDict(k, d), ~dict[k].cut, dict[k].ok, now' = now,
         dict[k].at \in {"inspected", "spawned", "configured"},
         d.at \in {"spawned", "configured", "loading"}, d.own <=> d.at = "loading",
         d.cut = dict[k].cut, d.ok = dict[k].ok, d.rec = dict[k].rec, d.killed = dict[k].killed
  PROVE  ModelInv'
<1>1. dict'[k] = d /\ DictHolds(k) /\ k # 0 /\ UNCHANGED <<version, foreign>>
  BY ModelConstants DEF ModelInv, ModelTypeOK, OnlyDict, modelDisk
<1>2. ~(k > asked.dictations) /\ asked'.dictations = asked.dictations
  BY <1>1 DEF DictHolds, Untouched, OnlyDict, CountStays
<1>3. now = k /\ (~dict[k].rec \/ dict[k].killed) /\ (~foreign => version = Full)
  BY <1>1 DEF DictHolds, Spawning
<1>4. DictHolds(k)'
  BY <1>1, <1>2, <1>3 DEF DictHolds, Loadings, Spawning
<1> QED BY <1>4, DictMoves

LEMMA SpawnIsolateHolds == ASSUME ModelInv, NEW k \in Dictation, SpawnIsolate(k) PROVE ModelInv'
<1>1. ModelTypeOK /\ dict[k] \in DictRecord /\ CountStays
  BY SnagCounts DEF ModelInv, ModelTypeOK, SpawnIsolate
<1>2. CASE SpawnFailed(k)
  BY <1>1, <1>2, SpawnFailedHolds DEF SpawnIsolate
<1>3. CASE /\ ~Cut(k) /\ dict[k].ok /\ now' = now
           /\ dict' = [dict EXCEPT ![k] = [@ EXCEPT !.at = "spawned", !.iso = TRUE]]
  <2> DEFINE d == [dict[k] EXCEPT !.at = "spawned", !.iso = TRUE]
  <2>1. /\ d \in DictRecord /\ d.at = "spawned" /\ d.cut = dict[k].cut /\ d.ok = dict[k].ok
        /\ d.own = dict[k].own /\ d.rec = dict[k].rec /\ d.killed = dict[k].killed
    BY <1>1 DEF DictRecord, Spawning
  <2>2. dict' = [dict EXCEPT ![k] = d]
    BY <1>3
  <2> HIDE DEF d
  <2>3. OnlyDict(k, d) /\ ~dict[k].own
    BY <1>1, <2>1, <2>2 DEF OnlyDict, SpawnIsolate, ModelInv, DictHolds, Loadings
  <2> QED BY <1>3, <2>1, <2>3, DictSpawns DEF SpawnIsolate, Cut
<1> QED BY <1>2, <1>3 DEF SpawnIsolate

LEMMA ConfigureHolds == ASSUME ModelInv, NEW k \in Dictation, Configure(k) PROVE ModelInv'
<1>1. ModelTypeOK /\ dict[k] \in DictRecord /\ CountStays
  BY SnagCounts DEF ModelInv, ModelTypeOK, Configure
<1>2. CASE SpawnFailed(k)
  BY <1>1, <1>2, SpawnFailedHolds DEF Configure
<1>3. CASE ~Cut(k) /\ now' = now /\ dict' = [dict EXCEPT ![k].at = "configured"]
  <2> DEFINE d == [dict[k] EXCEPT !.at = "configured"]
  <2>1. /\ d \in DictRecord /\ d.at = "configured" /\ d.cut = dict[k].cut /\ d.ok = dict[k].ok
        /\ d.own = dict[k].own /\ d.rec = dict[k].rec /\ d.killed = dict[k].killed
    BY <1>1 DEF DictRecord, Spawning
  <2>2. dict' = [dict EXCEPT ![k] = d]
    BY <1>3
  <2> HIDE DEF d
  <2>3. OnlyDict(k, d) /\ ~dict[k].own /\ dict[k].ok
    BY <1>1, <2>1, <2>2 DEF OnlyDict, Configure, ModelInv, DictHolds, Loadings
  <2> QED BY <1>3, <2>1, <2>3, DictSpawns DEF Configure, Cut
<1> QED BY <1>2, <1>3 DEF Configure

LEMMA WorkerReturnedHolds == ASSUME ModelInv, NEW k \in Dictation, WorkerReturned(k) PROVE ModelInv'
<1>1. ModelTypeOK /\ dict[k] \in DictRecord /\ CountStays
  BY SnagCounts DEF ModelInv, ModelTypeOK, WorkerReturned
<1>2. CASE SpawnFailed(k)
  BY <1>1, <1>2, SpawnFailedHolds DEF WorkerReturned
<1>3. CASE ~Cut(k) /\ now' = now /\ dict' = [dict EXCEPT ![k] = [@ EXCEPT !.at = "loading", !.own = TRUE]]
  <2> DEFINE d == [dict[k] EXCEPT !.at = "loading", !.own = TRUE]
  <2>1. /\ d \in DictRecord /\ d.at = "loading" /\ d.cut = dict[k].cut /\ d.ok = dict[k].ok
        /\ d.own /\ d.rec = dict[k].rec /\ d.killed = dict[k].killed
    BY <1>1 DEF DictRecord, Loadings
  <2>2. dict' = [dict EXCEPT ![k] = d]
    BY <1>3
  <2> HIDE DEF d
  <2>3. OnlyDict(k, d) /\ dict[k].ok
    BY <1>1, <2>1, <2>2 DEF OnlyDict, WorkerReturned, ModelInv, DictHolds
  <2> QED BY <1>3, <2>1, <2>3, DictSpawns DEF WorkerReturned, Cut
<1> QED BY <1>2, <1>3 DEF WorkerReturned

LEMMA LoadHolds == ASSUME ModelInv, NEW k \in Dictation, Load(k) PROVE ModelInv'
<1>1. ModelTypeOK /\ dict[k] \in DictRecord /\ CountStays /\ DictHolds(k)
  BY SnagCounts DEF ModelInv, ModelTypeOK, Load
<1>2. PICK whole \in BOOLEAN : whole = (version = Full)
  BY Zenon
<1> DEFINE d == [dict[k] EXCEPT !.at = "hearing", !.rec = TRUE, !.whole = whole]
<1>3. /\ d \in DictRecord /\ d.at = "hearing" /\ d.cut = dict[k].cut /\ d.ok = dict[k].ok
      /\ d.own = dict[k].own /\ d.rec /\ d.killed = dict[k].killed /\ d.whole = whole
  BY <1>1 DEF DictRecord, Loadings
<1>4. dict' = [dict EXCEPT ![k] = d]
  BY <1>2, Zenon DEF Load
<1> HIDE DEF d
<1>5. OnlyDict(k, d) /\ dict'[k] = d /\ UNCHANGED <<version, foreign, now>>
  BY <1>1, <1>3, <1>4 DEF OnlyDict, Load, modelDisk, ModelTypeOK
<1>6. now = k /\ dict[k].ok /\ dict[k].own /\ (foreign \/ version = Full) /\ ~(k > asked.dictations)
  BY <1>1 DEF DictHolds, Load, Loadings, Untouched
<1>7. asked'.dictations = asked.dictations /\ (foreign \/ d.whole)
  BY <1>1, <1>2, <1>3, <1>6 DEF CountStays
<1>8. DictHolds(k)'
  BY <1>3, <1>5, <1>6, <1>7 DEF DictHolds, Loadings, Spawning
<1> QED BY <1>5, <1>8, DictMoves DEF Load

LEMMA HeardHolds == ASSUME ModelInv, NEW k \in Dictation, Heard(k) PROVE ModelInv'
<1>1. ModelTypeOK /\ dict[k] \in DictRecord /\ CountStays /\ DictHolds(k)
  BY SnagCounts DEF ModelInv, ModelTypeOK, Heard
<1> DEFINE d == [dict[k] EXCEPT !.at = "close", !.cut = TRUE]
<1>2. /\ d \in DictRecord /\ d.at = "close" /\ d.cut /\ d.ok = dict[k].ok
      /\ d.own = dict[k].own /\ d.rec = dict[k].rec /\ d.killed = dict[k].killed /\ d.whole = dict[k].whole
  BY <1>1 DEF DictRecord, Loadings
<1>3. dict' = [dict EXCEPT ![k] = d]
  BY DEF Heard
<1> HIDE DEF d
<1>4. OnlyDict(k, d) /\ dict'[k] = d /\ UNCHANGED <<version, foreign, now>>
  BY <1>1, <1>2, <1>3 DEF OnlyDict, Heard, modelDisk, ModelTypeOK
<1>5. asked'.dictations = asked.dictations /\ ~(k > asked.dictations)
  BY <1>1 DEF CountStays, DictHolds, Untouched, Heard
<1>6. DictHolds(k)'
  BY <1>1, <1>2, <1>4, <1>5 DEF DictHolds, Loadings, Spawning, Heard
<1> QED BY <1>4, <1>6, DictMoves DEF Heard

LEMMA ShutIsolateHolds == ASSUME ModelInv, NEW k \in Dictation, ShutIsolate(k) PROVE ModelInv'
<1>1. ModelTypeOK /\ dict[k] \in DictRecord /\ CountStays
  BY SnagCounts DEF ModelInv, ModelTypeOK, ShutIsolate
<1> DEFINE freed == [dict[k] EXCEPT !.at = "done", !.iso = FALSE, !.rec = FALSE]
           slain == [dict[k] EXCEPT !.at = "done", !.iso = FALSE, !.killed = TRUE]
<1>2. freed \in DictRecord /\ freed.at = "done" /\ ~freed.rec
  BY <1>1 DEF DictRecord
<1>3. slain \in DictRecord /\ slain.at = "done" /\ slain.killed
  BY <1>1 DEF DictRecord
<1>4. dict' = [dict EXCEPT ![k] = freed] \/ dict' = [dict EXCEPT ![k] = slain]
  BY DEF ShutIsolate
<1> HIDE DEF freed, slain
<1>5. OnlyDict(k, freed) \/ OnlyDict(k, slain)
  BY <1>1, <1>2, <1>3, <1>4 DEF OnlyDict, ShutIsolate
<1> QED BY <1>2, <1>3, <1>5, DictEnds DEF ShutIsolate

LEMMA DictateHolds == ASSUME ModelInv, Dictate PROVE ModelInv'
<1>1. ModelTypeOK /\ HereHolds /\ now = 0 /\ UNCHANGED <<modelDisk, stopFlag, here, sheet>>
  BY DEF ModelInv, Dictate, NoneDictated
<1>2. PICK k \in Dictation : k = asked.dictations + 1
  BY <1>1, ModelAssumption DEF Dictate, ModelTypeOK, Dictation
<1>3. Untouched(dict[k]) /\ dict[k] \in DictRecord
  <2>1. k > asked.dictations
    BY <1>1, <1>2, ModelAssumption DEF ModelTypeOK
  <2> QED BY <2>1 DEF ModelInv, DictHolds, ModelTypeOK
<1>4. /\ asked' \in [dictations : 0 .. MaxDictations, managed : Nat, snags : Nat]
      /\ asked'.dictations = k
  BY <1>1, <1>2, ModelAssumption DEF Dictate, ModelTypeOK
<1>5. ASSUME NEW j \in Dictation, j # k, dict'[j] = dict[j], now' = 0 \/ now' = k PROVE DictHolds(j)'
  <2>1. DictHolds(j) /\ UNCHANGED <<version, foreign>> /\ j # 0
    BY <1>1, ModelConstants DEF ModelInv, modelDisk
  <2>2. j > k => j > asked.dictations
    BY <1>1, <1>2, ModelConstants, ModelAssumption DEF ModelTypeOK
  <2> QED BY <1>1, <1>4, <1>5, <2>1, <2>2 DEF DictHolds
<1>6. CASE /\ CallTaken /\ Called("inspect", k) /\ now' = k
           /\ dict' = [dict EXCEPT ![k].at = "inspect"]
  <2>1. k \in 0 .. MaxDictations + 1
    BY ModelAssumption, ModelConstants
  <2>2. /\ op' \in [Activity -> ModelOp] /\ busyFlag' \in [Activity -> BOOLEAN]
        /\ op'[here].kind = "inspect" /\ op'[here].at = "start" /\ op'[here].who = k
        /\ \A a \in Activity : OpHolds(a)'
    BY <1>1, <1>6, <2>1, CallStarts
  <2>3. /\ dict' \in [Dictation -> DictRecord] /\ \A j \in Dictation : j # k => dict'[j] = dict[j]
        /\ dict'[k] = [dict[k] EXCEPT !.at = "inspect"]
    BY <1>1, <1>3, <1>6, ModelConstants DEF ModelTypeOK, DictRecord, Spawning
  <2>4. /\ dict'[k].at = "inspect" /\ ~dict'[k].cut /\ ~dict'[k].own /\ ~dict'[k].ok /\ ~dict'[k].rec
    BY <1>3, <2>3 DEF Untouched, DictRecord
  <2>5. DictHolds(k)'
    BY <1>4, <1>6, <2>4, ModelConstants DEF DictHolds, Loadings, Spawning
  <2>6. \A j \in Dictation : DictHolds(j)'
    BY <1>5, <1>6, <2>3, <2>5
  <2>7. HereHolds'
    <3>1. here' = here /\ manage' = manage /\ manage.kind # "delete"
      BY <1>1 DEF sheet, Dictate
    <3> QED BY <2>2, <2>4, <3>1 DEF HereHolds
  <2>8. ModelTypeOK'
    BY <1>1, <1>4, <1>6, <2>2, <2>3 DEF ModelTypeOK, modelDisk, sheet
  <2> QED BY <2>2, <2>6, <2>7, <2>8 DEF ModelInv
<1>7. CASE dict' = [dict EXCEPT ![k].at = "done"] /\ UNCHANGED <<op, busyFlag, now>>
  <2>1. /\ dict' \in [Dictation -> DictRecord] /\ \A j \in Dictation : j # k => dict'[j] = dict[j]
        /\ dict'[k] = [dict[k] EXCEPT !.at = "done"]
    BY <1>1, <1>3, <1>7, ModelConstants DEF ModelTypeOK, DictRecord
  <2>2. /\ dict'[k].at = "done" /\ ~dict'[k].cut /\ ~dict'[k].own /\ ~dict'[k].ok /\ ~dict'[k].rec
    BY <1>3, <2>1 DEF Untouched, DictRecord
  <2>3. DictHolds(k)'
    BY <1>1, <1>4, <1>7, <2>2, ModelConstants DEF DictHolds, Loadings, Spawning
  <2>4. \A j \in Dictation : DictHolds(j)'
    BY <1>1, <1>5, <1>7, <2>1, <2>3
  <2>5. HereHolds'
    <3>1. dict[k].at # "inspect"
      BY <1>3 DEF Untouched
    <3> QED BY <1>1, <1>7, <2>1, <3>1 DEF HereHolds, modelDisk, sheet
  <2>6. ModelTypeOK'
    BY <1>1, <1>4, <1>7, <2>1 DEF ModelTypeOK, modelDisk, sheet
  <2>7. \A a \in Activity : OpHolds(a)'
    BY <1>1, <1>7, OpsStay
  <2> QED BY <2>4, <2>5, <2>6, <2>7 DEF ModelInv
<1> QED BY <1>2, <1>6, <1>7 DEF Dictate

-----------------------------------------------------------------------------
(* The activity is recreated, the process dies.                            *)

\* What the two have in common: a screen that starts afresh and without isolates.
DictsAfresh ==
  dict' = [k \in Dictation |-> [dict[k] EXCEPT !.at = IF @ = "none" THEN @ ELSE "done",
                                               !.iso = FALSE, !.rec = FALSE]]
Afresh ==
  /\ here < MaxActivities /\ here' = here + 1
  /\ refresh' = [Unasked EXCEPT !.at = "begin"] /\ manage' = Unasked /\ now' = 0
  /\ UNCHANGED <<version, staged, foreign, asked>>
  /\ DictsAfresh

LEMMA AfreshHolds ==
  ASSUME ModelInv, Afresh
  PROVE  /\ here' \in Activity /\ refresh' \in SheetCall /\ manage' \in SheetCall
         /\ dict' \in [Dictation -> DictRecord] /\ \A k \in Dictation : DictHolds(k)'
         /\ op'[here'].at = "idle" => HereHolds'
<1>1. ModelTypeOK /\ here' \in Activity
  <2>1. ModelTypeOK /\ here \in Activity
    BY DEF ModelInv, ModelTypeOK
  <2> QED BY <2>1, ModelAssumption DEF Afresh, Activity
<1>2. refresh' \in SheetCall /\ manage' \in SheetCall
  BY <1>1, SheetTypes, ModelConstants DEF Afresh
<1>3. ASSUME NEW k \in Dictation PROVE dict'[k] \in DictRecord /\ DictHolds(k)'
  <2> DEFINE at == IF dict[k].at = "none" THEN dict[k].at ELSE "done"
             d == [dict[k] EXCEPT !.at = at, !.iso = FALSE, !.rec = FALSE]
  <2>1. dict'[k] = d /\ dict[k] \in DictRecord /\ DictHolds(k) /\ k # 0
    BY <1>1, ModelConstants DEF Afresh, DictsAfresh, ModelTypeOK, ModelInv
  <2>2. at \in {"none", "done"} /\ (dict[k].at = "none" => at = "none")
    OBVIOUS
  <2> HIDE DEF at
  <2>3. d \in DictRecord /\ d.at = at /\ ~d.rec /\ d.own = dict[k].own
        /\ d.cut = dict[k].cut /\ d.ok = dict[k].ok
    BY <2>1, <2>2 DEF DictRecord
  <2>4. Untouched(dict[k]) => Untouched(d)
    BY <2>2, <2>3 DEF Untouched
  <2>5. dict[k].own => at = "done"
    BY <2>1 DEF DictHolds, Loadings, at
  <2> HIDE DEF d
  <2> QED BY <2>1, <2>2, <2>3, <2>4, <2>5 DEF DictHolds, Afresh, Loadings, Spawning
<1>4. op'[here'].at = "idle" => HereHolds'
  BY DEF HereHolds, Afresh, Unasked
<1> QED BY <1>1, <1>2, <1>3, <1>4 DEF Afresh, DictsAfresh

LEMMA RecreateHolds == ASSUME ModelInv, Recreate PROVE ModelInv'
<1>1. Afresh /\ UNCHANGED <<modelDisk, threads>>
  BY DEF Recreate, Afresh, DictsAfresh, modelDisk
<1>2. ModelTypeOK /\ here \in Nat
  BY DEF ModelInv, ModelTypeOK, Activity
<1>3. op'[here'].at = "idle"
  <2>1. here' \in Activity /\ here' > here
    BY <1>1, <1>2, AfreshHolds DEF Afresh
  <2> QED BY <1>1, <2>1 DEF ModelInv, OpHolds, threads
<1>4. ASSUME NEW a \in Activity PROVE OpHolds(a)'
  <2>1. a > here' => a > here
    BY <1>1, <1>2, ModelConstants DEF Afresh
  <2> QED BY <1>1, <2>1 DEF ModelInv, OpHolds, modelDisk, threads
<1>5. ModelTypeOK'
  BY <1>1, <1>2, AfreshHolds DEF ModelTypeOK, modelDisk, threads, Afresh
<1> QED BY <1>1, <1>3, <1>4, <1>5, AfreshHolds DEF ModelInv

LEMMA ProcessDiesHolds == ASSUME ModelInv, ProcessDies PROVE ModelInv'
<1>1. Afresh /\ here' \in Activity
  BY AfreshHolds DEF ProcessDies, Afresh, DictsAfresh
<1>2. op'[here'].at = "idle"
  BY <1>1 DEF ProcessDies, NoOp
<1>3. \A a \in Activity : OpHolds(a)'
  BY DEF OpHolds, ProcessDies, NoOp
<1>4. ModelTypeOK'
  BY <1>1, AfreshHolds, ModelConstants DEF ModelInv, ModelTypeOK, ProcessDies
<1> QED BY <1>1, <1>2, <1>3, <1>4, AfreshHolds DEF ModelInv

-----------------------------------------------------------------------------
LEMMA ModelStep == ModelInv /\ [ModelNext]_modelVars => ModelInv'
<1> SUFFICES ASSUME ModelInv, [ModelNext]_modelVars PROVE ModelInv'
  OBVIOUS
<1>1. CASE UNCHANGED modelVars
  BY <1>1 DEF modelVars, ModelInv, ModelTypeOK, OpHolds, HereHolds, DictHolds
<1>2. ASSUME NEW a \in Activity,
             \/ CleanupFails(a) \/ InspectRuns(a) \/ InstallStarts(a) \/ DeleteStarts(a) \/ RemoveFile(a)
             \/ RemoveDirectory(a) \/ Download(a) \/ DownloadFails(a) \/ Activate(a)
             \/ ModelAnswer(a) \/ ClearFlag(a)
      PROVE ModelInv'
  BY <1>2, CleanupFailsHolds, InspectRunsHolds, InstallStartsHolds, DeleteStartsHolds, RemoveFileHolds,
     RemoveDirectoryHolds, DownloadHolds, DownloadFailsHolds, ActivateHolds, ModelAnswerHolds,
     ClearFlagHolds
<1>3. ASSUME NEW k \in Dictation,
             \/ SpawnIsolate(k) \/ Configure(k) \/ WorkerReturned(k) \/ Load(k) \/ Heard(k)
             \/ ShutIsolate(k)
      PROVE ModelInv'
  BY <1>3, SpawnIsolateHolds, ConfigureHolds, WorkerReturnedHolds, LoadHolds, HeardHolds,
     ShutIsolateHolds
<1> QED BY <1>1, <1>2, <1>3, StartRefreshHolds, RefreshCallsHolds, StartInstallHolds,
     CancelInstallHolds, StartDeleteHolds, DeleteCallsHolds, ApplyBeginsHolds, ApplyEndsHolds,
     DictateHolds, TimedOutHolds, RecreateHolds, ProcessDiesHolds DEF ModelNext

LEMMA ModelInvSafe == ModelInv => VoiceModelSafe
<1> SUFFICES ASSUME ModelInv PROVE VoiceModelSafe
  OBVIOUS
<1>1. InstallIsAlone
  BY DEF InstallIsAlone, ModelInv, OpHolds
<1>2. OneRecognizer
  BY DEF OneRecognizer, ModelInv, DictHolds, Loadings
<1>3. LoadedIsWhole
  BY DEF LoadedIsWhole, ModelInv, DictHolds, Loadings
<1> QED BY <1>1, <1>2, <1>3 DEF VoiceModelSafe

\* The files of an install in progress are its own, one recognizer is loaded at a time,
\* from a whole model, and the model is not removed under it except by a thread left over
\* from an earlier activity: for any number of files, activities and dictations.
THEOREM VoiceModelIsSafe == ModelSpec => []VoiceModelSafe
<1>1. ModelSpec => []ModelInv
  BY ModelInitHolds, ModelStep, PTL DEF ModelSpec
<1> QED BY <1>1, ModelInvSafe, PTL

-----------------------------------------------------------------------------
(* The phone and the servers it pairs with: the inductive invariant.       *)

Places == Origins \cup {Nil}
Tokens == Devs \cup {Nil}
Credential == [at : Places, token : Tokens]
ChangePcs == {"none", "clear", "unregister", "ask", "retire", "forget", "write", "publish", "leave", "commit", "abort"}

Device == [at : Places, code : Codes \cup {Nil}, revoked : BOOLEAN, route : BOOLEAN, retired : BOOLEAN]

\* A code that made a device is used up, and a device that is retired stays without a route.
ServerHolds ==
  /\ code \in [Codes -> [at : Places, state : {"none", "open", "used"}]]
  /\ dev \in [Devs -> Device]
  /\ \A d \in Devs : dev[d].code # Nil => code[dev[d].code].state = "used"
  /\ OneDevicePerCode
  /\ \A d \in Devs : dev[d].retired => dev[d].revoked /\ ~dev[d].route

ReplyRecord == [pc : {"none", "queued", "posting", "stopped"}, under : Credential, as : Credential]
WorkRecord == [queued : BOOLEAN, pc : {"none", "open", "sent", "admitted"}, as : Credential]
ChangeRecord == [pc : ChangePcs, kind : {"none", "pair", "logout"}, at : Places, got : Tokens, clean : BOOLEAN]
TurnOffRecord == [pc : {"none", "clear", "unregister"}, epoch : Nat, again : BOOLEAN]
SyncRecord == [pc : {"none", "permission", "read", "register"}, epoch : Nat, by : {"app", "retry", "enable"}, base : Places]

CredentialTypes == url \in Places /\ saved \in Credential /\ cache \in Credential \cup {NotLoaded}

\* A request is admitted for a device, a reply posted as it was written.
SendersHold ==
  /\ native \in Credential /\ reply \in ReplyRecord /\ work \in WorkRecord
  /\ work.pc = "admitted" => work.as.token # Nil
  /\ ReplyKeepsItsAuthority

\* A change raises the epoch when it begins and when it is over, and no sync is ahead.
CoordinatorHolds ==
  /\ optIn \in {"unknown", "on", "off"} /\ pref \in {"unset", "on", "off"} /\ epoch \in Nat /\ busy \in BOOLEAN
  /\ transition \in [on : BOOLEAN, optIn : {"on", "off"}] /\ change \in ChangeRecord
  /\ turnOff \in TurnOffRecord /\ sync \in [Syncs -> SyncRecord]
  /\ unclean \in BOOLEAN /\ switches \in Nat /\ appCrashes \in Nat
  /\ IF AtRest THEN epoch <= switches + switches ELSE epoch + 1 <= switches + switches
  /\ \A s \in Syncs : sync[s].epoch <= epoch

\* A credential names the server that issued its token.
Home(c) == c.token # Nil => c.at # Nil /\ dev[c.token].at = c.at
Got == [at |-> change.at, token |-> change.got]
Homes ==
  /\ Home(saved) /\ (cache # NotLoaded => Home(cache)) /\ Home(native) /\ Home(work.as)
  /\ Home(reply.as) /\ Home(reply.under) /\ Home(Got)

Quiet == native = NoCredential /\ reply.pc \notin {"queued", "posting"}
Fresh(s) == sync[s].pc = "read" /\ sync[s].epoch = epoch

\* Who may hold an authority.  After a clearing nobody brings one back before the change
\* is over; while notifications are off nobody does; and what is saved as off was quiet.
Silence ==
  /\ transition.on <=> ~AtRest
  /\ optIn = "on" => pref = "on"
  /\ optIn = "unknown" => AtRest /\ turnOff.pc = "none"
  /\ ~unclean /\ change.pc \notin {"none", "clear"} => Quiet /\ \A s \in Syncs : ~Fresh(s)
  /\ ~unclean /\ AtRest /\ optIn = "off" /\ turnOff.pc # "clear" => Quiet
  /\ ~unclean /\ optIn = "unknown" /\ pref # "on" => Quiet

PhoneInv == ServerHolds /\ CredentialTypes /\ SendersHold /\ CoordinatorHolds /\ Homes /\ Silence

LEMMA PhoneInitHolds == PhoneInit => PhoneInv
<1> SUFFICES ASSUME PhoneInit PROVE PhoneInv
  OBVIOUS
<1>1. NoCredential \in Credential /\ NoCredential.token = Nil /\ NoCredential.at = Nil
  BY DEF NoCredential, Credential, Places, Tokens
<1>2. SendersHold /\ reply.pc = "none" /\ reply.as = NoCredential /\ reply.under = NoCredential
      /\ work.as = NoCredential /\ native = NoCredential
  BY <1>1 DEF PhoneInit, SendersHold, NoReply, NoWork, ReplyRecord, WorkRecord, ReplyKeepsItsAuthority
<1>3. CoordinatorHolds /\ change.pc = "none" /\ change.got = Nil
  <2>1. change \in ChangeRecord /\ change.pc = "none" /\ change.got = Nil
    BY DEF PhoneInit, NoChange, ChangeRecord, ChangePcs, Places, Tokens
  <2>2. turnOff \in TurnOffRecord
    BY DEF PhoneInit, NoTurnOff, TurnOffRecord
  <2>3. NoSync \in SyncRecord /\ NoSync.epoch = 0
    BY DEF NoSync, SyncRecord, Places
  <2>4. sync = [s \in Syncs |-> NoSync]
    BY DEF PhoneInit
  <2>5. sync \in [Syncs -> SyncRecord] /\ \A s \in Syncs : sync[s].epoch = 0
    BY <2>3, <2>4
  <2>6. /\ optIn = "unknown" /\ pref = "unset" /\ epoch = 0 /\ busy = FALSE
        /\ transition = [on |-> FALSE, optIn |-> "off"] /\ unclean = FALSE /\ switches = 0 /\ appCrashes = 0
    BY DEF PhoneInit
  <2>7. transition \in [on : BOOLEAN, optIn : {"on", "off"}]
    BY <2>6
  <2>8. epoch \in Nat /\ switches \in Nat /\ appCrashes \in Nat /\ epoch <= switches + switches /\ 0 <= epoch
    BY <2>6
  <2>9. busy \in BOOLEAN /\ unclean \in BOOLEAN
    BY <2>6
  <2> QED BY <2>1, <2>2, <2>5, <2>6, <2>7, <2>8, <2>9 DEF CoordinatorHolds, AtRest
<1>4. ServerHolds /\ CredentialTypes /\ Home(saved)
  <2>1. NoDevice \in Device /\ NoDevice.code = Nil /\ ~NoDevice.retired /\ cache = NotLoaded
    BY DEF NoDevice, Device, Places, PhoneInit
  <2>2. CASE NeverPaired
    BY <1>1, <2>1, <2>2 DEF NeverPaired, ServerHolds, CredentialTypes, OneDevicePerCode, Places, Home
  <2>3. ASSUME NEW o \in Origins, NEW c \in Codes, NEW d \in Devs, PairedWith(o, c, d)
        PROVE  ServerHolds /\ CredentialTypes /\ Home(saved)
    <3> DEFINE q == [NoDevice EXCEPT !.at = o, !.code = c]
    <3>1. c # Nil /\ d # Nil /\ o # Nil
      BY PhoneAssumption DEF PhoneAssumption
    <3>2. /\ code = [x \in Codes |-> IF x = c THEN [at |-> o, state |-> "used"] ELSE [at |-> Nil, state |-> "none"]]
          /\ dev = [x \in Devs |-> IF x = d THEN q ELSE NoDevice]
          /\ url = o /\ saved = [at |-> o, token |-> d]
      BY <2>3 DEF PairedWith
    <3>3. q \in Device /\ q.at = o /\ q.code = c /\ ~q.retired
      BY <3>1 DEF NoDevice, Device, Places
    <3> HIDE DEF q
    <3>4. dev \in [Devs -> Device] /\ code \in [Codes -> [at : Places, state : {"none", "open", "used"}]]
      BY <2>1, <3>1, <3>2, <3>3 DEF Places
    <3>5. /\ dev[d] = q /\ (\A x \in Devs \ {d} : dev[x].code = Nil) /\ \A x \in Devs : ~dev[x].retired
          /\ code[c].state = "used"
      BY <2>1, <3>1, <3>2, <3>3
    <3>6. ServerHolds
      BY <3>3, <3>4, <3>5 DEF ServerHolds, OneDevicePerCode
    <3> QED BY <2>1, <3>1, <3>2, <3>3, <3>5, <3>6 DEF CredentialTypes, Credential, Places, Tokens, Home
  <2>4. /\ (CHOOSE x \in Origins : TRUE) \in Origins /\ (CHOOSE x \in Codes : TRUE) \in Codes
        /\ (CHOOSE x \in Devs : TRUE) \in Devs
    BY PhoneAssumption DEF PhoneAssumption
  <2> QED BY <2>2, <2>3, <2>4, Zenon DEF PhoneInit
<1>5. Homes
  BY <1>1, <1>2, <1>3, <1>4 DEF PhoneInit, Homes, Home, Got
<1>6. Silence
  BY <1>2, <1>3 DEF PhoneInit, Silence, AtRest, Quiet, NoTurnOff
<1> QED BY <1>2, <1>3, <1>4, <1>5, <1>6 DEF PhoneInv

-----------------------------------------------------------------------------
(* What a step leaves alone.                                               *)

\* No device moves to another server.
DevsStay == \A d \in Devs : dev[d].at # Nil => dev'[d].at = dev[d].at
HomeNow(c) == c.token # Nil => c.at # Nil /\ dev'[c.token].at = c.at

LEMMA SameServer == ASSUME PhoneInv, UNCHANGED serverState PROVE ServerHolds' /\ DevsStay
BY DEF PhoneInv, ServerHolds, OneDevicePerCode, DevsStay, serverState

LEMMA SameCoordinator ==
  ASSUME PhoneInv, UNCHANGED <<coordinator, change, turnOff, sync, history>> PROVE CoordinatorHolds'
BY DEF PhoneInv, CoordinatorHolds, coordinator, history, AtRest

LEMMA SameSenders == ASSUME PhoneInv, UNCHANGED <<native, reply, work>> PROVE SendersHold'
BY DEF PhoneInv, SendersHold, ReplyKeepsItsAuthority

\* What the coordinator does not touch may only become quieter.
LEMMA StillSilent ==
  ASSUME PhoneInv, UNCHANGED <<coordinator, change, turnOff, sync, unclean>>, Quiet => Quiet' PROVE Silence'
BY DEF PhoneInv, Silence, coordinator, AtRest, Fresh

LEMMA NoCredentialTyped == NoCredential \in Credential /\ NoCredential.token = Nil /\ NoCredential.at = Nil
BY DEF NoCredential, Credential, Places, Tokens

\* The credential of the app and what is read of it.
LEMMA TokensTyped ==
  ASSUME PhoneInv
  PROVE  /\ Loaded \in Credential /\ Home(Loaded)
         /\ \A b : DeviceTokenFor(b) \in Credential /\ Home(DeviceTokenFor(b))
                   /\ (DeviceTokenFor(b).token # Nil => DeviceTokenFor(b).at = b)
<1>1. Loaded \in Credential /\ Home(Loaded)
  BY DEF PhoneInv, CredentialTypes, Homes, Loaded
<1>2. \A b : DeviceTokenFor(b) \in {Loaded, NoCredential} /\ (DeviceTokenFor(b) = Loaded => Loaded.at = b \/ DeviceTokenFor(b) = NoCredential)
  BY DEF DeviceTokenFor
<1> QED BY <1>1, <1>2, NoCredentialTyped DEF Home

LEMMA StaysHome ==
  ASSUME PhoneInv, DevsStay, NEW c \in Credential, Home(c) PROVE HomeNow(c)
BY DEF HomeNow, Home, DevsStay, Credential, Tokens

LEMMA HomesKeep ==
  ASSUME PhoneInv, DevsStay
  PROVE  /\ HomeNow(saved) /\ (cache # NotLoaded => HomeNow(cache)) /\ HomeNow(native) /\ HomeNow(work.as)
         /\ HomeNow(reply.as) /\ HomeNow(reply.under) /\ HomeNow(Got) /\ HomeNow(NoCredential) /\ HomeNow(Loaded)
         /\ \A b : HomeNow(DeviceTokenFor(b))
<1>1. /\ saved \in Credential /\ (cache # NotLoaded => cache \in Credential) /\ native \in Credential
      /\ reply.as \in Credential /\ reply.under \in Credential /\ work.as \in Credential
  BY DEF PhoneInv, CredentialTypes, SendersHold, ReplyRecord, WorkRecord
<1>2. Got \in Credential
  BY DEF PhoneInv, CoordinatorHolds, ChangeRecord, Got, Credential
<1>3. Homes
  BY DEF PhoneInv
<1>4. HomeNow(NoCredential)
  BY NoCredentialTyped DEF HomeNow
<1> QED BY <1>1, <1>2, <1>3, <1>4, StaysHome, TokensTyped DEF Homes

\* The senders keep their credentials.
LEMMA SameHomes ==
  ASSUME PhoneInv, DevsStay, UNCHANGED <<saved, native, reply, change>>, cache' \in {cache, Loaded},
         work' = work \/ work'.as.token = Nil
  PROVE  Homes'
<1>1. /\ HomeNow(saved) /\ (cache # NotLoaded => HomeNow(cache)) /\ HomeNow(native) /\ HomeNow(work.as)
      /\ HomeNow(reply.as) /\ HomeNow(reply.under) /\ HomeNow(Got) /\ HomeNow(Loaded)
  BY HomesKeep
<1>2. Got' = Got
  BY DEF Got
<1>3. HomeNow(work'.as)
  BY <1>1 DEF HomeNow
<1> QED BY <1>1, <1>2, <1>3 DEF Homes, Home, HomeNow

-----------------------------------------------------------------------------
(* The servers.                                                            *)

LEMMA ServerMoves ==
  ASSUME PhoneInv, ServerHolds', DevsStay,
         UNCHANGED <<credentials, native, reply, coordinator, change, turnOff, sync, work, history>>
  PROVE  PhoneInv'
<1>1. SendersHold' /\ CoordinatorHolds'
  BY SameSenders, SameCoordinator
<1>2. Silence'
  BY StillSilent DEF history, Quiet
<1>3. Homes'
  BY SameHomes DEF credentials
<1>4. CredentialTypes'
  BY DEF PhoneInv, CredentialTypes, credentials
<1> QED BY <1>1, <1>2, <1>3, <1>4 DEF PhoneInv

\* A device that keeps its server and its code, and has no route once it is retired.
LEMMA DevChanges ==
  ASSUME PhoneInv, UNCHANGED code, NEW d \in Devs, NEW q \in Device, dev' = [dev EXCEPT ![d] = q],
         q.at = dev[d].at, q.code = dev[d].code, q.retired => q.revoked /\ ~q.route
  PROVE  ServerHolds' /\ DevsStay
<1>1. ServerHolds
  BY DEF PhoneInv
<1>2. dev' \in [Devs -> Device] /\ dev'[d] = q /\ \A e \in Devs \ {d} : dev'[e] = dev[e]
  BY <1>1 DEF ServerHolds
<1>3. \A e \in Devs : dev'[e].at = dev[e].at /\ dev'[e].code = dev[e].code
  BY <1>2
<1> QED BY <1>1, <1>2, <1>3 DEF ServerHolds, OneDevicePerCode, DevsStay

LEMMA IssueCodeHolds == ASSUME PhoneInv, NEW o \in Origins, IssueCode(o) PROVE PhoneInv'
<1> DEFINE c == CHOOSE x \in Codes : code[x].state = "none"
           q == [at |-> o, state |-> "open"]
<1>1. c \in Codes /\ code[c].state = "none" /\ code' = [code EXCEPT ![c] = q] /\ UNCHANGED dev
  BY DEF IssueCode
<1> HIDE DEF c
<1>2. ServerHolds
  BY DEF PhoneInv
<1>3. q \in [at : Places, state : {"none", "open", "used"}]
  BY DEF Places
<1> HIDE DEF q
<1>4. code' \in [Codes -> [at : Places, state : {"none", "open", "used"}]]
  BY <1>1, <1>2, <1>3 DEF ServerHolds
<1>5. \A d \in Devs : dev[d].code # Nil => code'[dev[d].code].state = "used"
  <2> SUFFICES ASSUME NEW d \in Devs, dev[d].code # Nil PROVE code'[dev[d].code].state = "used"
    OBVIOUS
  <2>1. dev[d].code \in Codes /\ code[dev[d].code].state = "used" /\ dev[d].code # c
    BY <1>1, <1>2 DEF ServerHolds, Device
  <2> QED BY <1>1, <1>2, <2>1 DEF ServerHolds
<1>6. ServerHolds' /\ DevsStay
  BY <1>1, <1>2, <1>4, <1>5 DEF ServerHolds, OneDevicePerCode, DevsStay
<1> QED BY <1>6, ServerMoves DEF IssueCode

LEMMA RevokeDeviceHolds == ASSUME PhoneInv, NEW d \in Devs, RevokeDevice(d) PROVE PhoneInv'
<1> DEFINE q == [dev[d] EXCEPT !.revoked = TRUE]
<1>1. dev[d] \in Device /\ (dev[d].retired => ~dev[d].route) /\ UNCHANGED code
  BY DEF PhoneInv, ServerHolds, RevokeDevice
<1>2. /\ q \in Device /\ q.at = dev[d].at /\ q.code = dev[d].code /\ q.revoked
      /\ q.retired = dev[d].retired /\ q.route = dev[d].route
  BY <1>1 DEF Device
<1>3. dev' = [dev EXCEPT ![d] = q]
  BY DEF RevokeDevice
<1> HIDE DEF q
<1>4. ServerHolds' /\ DevsStay
  BY <1>1, <1>2, <1>3, DevChanges
<1> QED BY <1>4, ServerMoves DEF RevokeDevice

LEMMA RetireRouteHolds == ASSUME PhoneInv, NEW d \in Devs, RetireRoute(d) PROVE PhoneInv'
<1> DEFINE q == [dev[d] EXCEPT !.route = FALSE, !.retired = TRUE]
<1>1. dev[d] \in Device /\ dev[d].revoked /\ UNCHANGED code
  BY DEF PhoneInv, ServerHolds, RetireRoute
<1>2. /\ q \in Device /\ q.at = dev[d].at /\ q.code = dev[d].code /\ q.revoked = dev[d].revoked /\ ~q.route
  BY <1>1 DEF Device
<1>3. dev' = [dev EXCEPT ![d] = q]
  BY DEF RetireRoute
<1> HIDE DEF q
<1>4. ServerHolds' /\ DevsStay
  BY <1>1, <1>2, <1>3, DevChanges
<1> QED BY <1>4, ServerMoves DEF RetireRoute

\* unregisterPush takes a route away, or nothing.
LEMMA RouteOffHolds ==
  ASSUME PhoneInv, NEW c \in Credential, RouteOff(c), UNCHANGED code PROVE ServerHolds' /\ DevsStay
<1>1. CASE UNCHANGED dev
  BY <1>1, SameServer DEF serverState
<1>2. CASE c.token # Nil /\ dev' = [dev EXCEPT ![c.token].route = FALSE]
  <2>1. PICK d \in Devs : d = c.token
    BY <1>2 DEF Credential, Tokens
  <2> DEFINE q == [dev[d] EXCEPT !.route = FALSE]
  <2>2. dev[d] \in Device /\ (dev[d].retired => dev[d].revoked)
    BY DEF PhoneInv, ServerHolds
  <2>3. /\ q \in Device /\ q.at = dev[d].at /\ q.code = dev[d].code /\ q.revoked = dev[d].revoked
        /\ q.retired = dev[d].retired /\ ~q.route
    BY <2>2 DEF Device
  <2>4. dev' = [dev EXCEPT ![d] = q]
    BY <1>2, <2>1
  <2> HIDE DEF q
  <2> QED BY <2>2, <2>3, <2>4, DevChanges
<1> QED BY <1>1, <1>2 DEF RouteOff, Authenticated

-----------------------------------------------------------------------------
(* Replies from a notification.                                            *)

LEMMA RepliesMove ==
  ASSUME PhoneInv, UNCHANGED <<serverState, credentials, coordinator, change, turnOff, sync, work, history>>,
         native' \in {native, NoCredential}, reply' \in ReplyRecord, Quiet => Quiet',
         reply'.pc \in {"posting", "stopped"} => reply'.as = reply'.under,
         reply'.as \in {reply.as, native, NoCredential}, reply'.under \in {reply.under, native, NoCredential}
  PROVE  PhoneInv'
<1>1. ServerHolds' /\ DevsStay /\ CoordinatorHolds'
  BY SameServer, SameCoordinator
<1>2. SendersHold'
  BY NoCredentialTyped DEF PhoneInv, SendersHold, ReplyKeepsItsAuthority
<1>3. Silence'
  BY StillSilent DEF history
<1>4. Homes'
  <2>1. /\ HomeNow(saved) /\ (cache # NotLoaded => HomeNow(cache)) /\ HomeNow(native) /\ HomeNow(work.as)
        /\ HomeNow(reply.as) /\ HomeNow(reply.under) /\ HomeNow(Got) /\ HomeNow(NoCredential)
    BY <1>1, HomesKeep
  <2>2. HomeNow(native') /\ HomeNow(reply'.as) /\ HomeNow(reply'.under)
    BY <2>1
  <2>3. Got' = Got /\ UNCHANGED <<saved, cache, work>>
    BY DEF Got, credentials
  <2> QED BY <2>1, <2>2, <2>3 DEF Homes, Home, HomeNow
<1>5. CredentialTypes'
  BY DEF PhoneInv, CredentialTypes, credentials
<1> QED BY <1>1, <1>2, <1>3, <1>4, <1>5 DEF PhoneInv

LEMMA NoReplyTyped ==
  NoReply \in ReplyRecord /\ NoReply.pc = "none" /\ NoReply.as = NoCredential /\ NoReply.under = NoCredential
BY NoCredentialTyped DEF NoReply, ReplyRecord

LEMMA SendersTyped ==
  ASSUME PhoneInv
  PROVE  /\ native \in Credential /\ reply \in ReplyRecord /\ reply.as \in Credential /\ reply.under \in Credential
         /\ reply.pc \in {"posting", "stopped"} => reply.as = reply.under
BY DEF PhoneInv, SendersHold, ReplyKeepsItsAuthority, ReplyRecord

LEMMA QueueReplyHolds == ASSUME PhoneInv, QueueReply PROVE PhoneInv'
<1>1. native \in Credential /\ NoCredential \in Credential
  BY SendersTyped, NoCredentialTyped
<1>2. reply' = [pc |-> "queued", under |-> native, as |-> NoCredential] /\ UNCHANGED native /\ native # NoCredential
  BY DEF QueueReply
<1>3. reply' \in ReplyRecord /\ reply'.pc = "queued" /\ reply'.under = native /\ reply'.as = NoCredential
  BY <1>1, <1>2 DEF ReplyRecord
<1>4. ~Quiet
  BY <1>2 DEF Quiet
<1> QED BY <1>2, <1>3, <1>4, RepliesMove DEF QueueReply

LEMMA PostReplyHolds == ASSUME PhoneInv, PostReply PROVE PhoneInv'
<1>1. /\ native \in Credential /\ reply \in ReplyRecord /\ ~Quiet
      /\ UNCHANGED <<serverState, credentials, native, coordinator, change, turnOff, sync, work, history>>
  BY SendersTyped DEF PostReply, Quiet, history
<1>2. CASE native = reply.under /\ reply' = [reply EXCEPT !.pc = "posting", !.as = native]
  <2>1. reply' \in ReplyRecord /\ reply'.as = native /\ reply'.under = reply.under
    BY <1>1, <1>2 DEF ReplyRecord
  <2> QED BY <1>1, <1>2, <2>1, RepliesMove
<1>3. CASE reply' = NoReply
  BY <1>1, <1>3, NoReplyTyped, RepliesMove
<1> QED BY <1>2, <1>3 DEF PostReply

LEMMA ReplyAnsweredHolds == ASSUME PhoneInv, ReplyAnswered PROVE PhoneInv'
<1>1. /\ reply \in ReplyRecord /\ native' \in {native, NoCredential}
      /\ UNCHANGED <<serverState, credentials, coordinator, change, turnOff, sync, work, history>>
  BY SendersTyped DEF ReplyAnswered
<1>2. CASE reply' = NoReply
  <2>1. Quiet => Quiet'
    BY <1>1, <1>2, NoReplyTyped DEF Quiet
  <2> QED BY <1>1, <1>2, <2>1, NoReplyTyped, RepliesMove
<1>3. CASE reply.pc = "posting" /\ reply' = [reply EXCEPT !.pc = "queued", !.as = NoCredential]
  <2>1. ~Quiet
    BY <1>3 DEF Quiet
  <2>2. reply' \in ReplyRecord /\ reply'.pc = "queued" /\ reply'.as = NoCredential /\ reply'.under = reply.under
    BY <1>1, <1>3, NoCredentialTyped DEF ReplyRecord
  <2> QED BY <1>1, <2>1, <2>2, RepliesMove
<1> QED BY <1>2, <1>3 DEF ReplyAnswered

-----------------------------------------------------------------------------
(* The queue of the coordinator.                                           *)

LEMMA NoWorkTyped ==
  /\ NoWork \in WorkRecord /\ NoWork.as = NoCredential /\ NoWork.pc = "none"
  /\ \A b \in BOOLEAN : /\ [NoWork EXCEPT !.queued = b] \in WorkRecord
                        /\ [NoWork EXCEPT !.queued = b].as = NoCredential
                        /\ [NoWork EXCEPT !.queued = b].pc = "none"
BY NoCredentialTyped DEF NoWork, WorkRecord

\* Every credential of the next state is at home.
LEMMA HomesMove ==
  ASSUME PhoneInv, DevsStay, HomeNow(saved'), cache' # NotLoaded => HomeNow(cache'), HomeNow(native'),
         HomeNow(work'.as), HomeNow(reply'.as), HomeNow(reply'.under), HomeNow(Got')
  PROVE  Homes'
BY DEF Homes, Home, HomeNow

LEMMA CacheMoves == ASSUME PhoneInv, DevsStay, cache' \in {cache, Loaded} PROVE cache' # NotLoaded => HomeNow(cache')
BY HomesKeep

LEMMA WorkMoves ==
  ASSUME PhoneInv, ServerHolds', DevsStay, cache' \in {cache, Loaded},
         UNCHANGED <<url, saved, native, reply, coordinator, change, turnOff, sync, history>>,
         work' \in WorkRecord, HomeNow(work'.as), work'.pc = "admitted" => work'.as.token # Nil
  PROVE  PhoneInv'
<1>1. CoordinatorHolds'
  BY SameCoordinator
<1>2. SendersHold'
  BY DEF PhoneInv, SendersHold, ReplyKeepsItsAuthority
<1>3. Silence'
  BY StillSilent DEF history, Quiet
<1>4. Homes'
  <2>1. Got' = Got
    BY DEF Got
  <2> QED BY <2>1, HomesKeep, CacheMoves, HomesMove
<1>5. CredentialTypes'
  BY TokensTyped DEF PhoneInv, CredentialTypes
<1> QED BY <1>1, <1>2, <1>3, <1>4, <1>5 DEF PhoneInv

LEMMA RunWorkHolds == ASSUME PhoneInv, RunWork PROVE PhoneInv'
<1>1. ServerHolds' /\ DevsStay
  BY SameServer DEF RunWork
<1>2. /\ UNCHANGED <<url, saved, cache, native, reply, coordinator, change, turnOff, sync, history>>
      /\ work' \in {[queued |-> FALSE, pc |-> "open", as |-> [NoCredential EXCEPT !.at = url]], NoWork}
  BY DEF RunWork, credentials
<1>3. CASE work' = NoWork
  BY <1>1, <1>2, <1>3, NoWorkTyped, HomesKeep, WorkMoves
<1>4. CASE work' = [queued |-> FALSE, pc |-> "open", as |-> [NoCredential EXCEPT !.at = url]]
  <2> DEFINE c == [NoCredential EXCEPT !.at = url]
  <2>1. c \in Credential /\ c.token = Nil
    BY DEF NoCredential, Credential, PhoneInv, CredentialTypes, Tokens
  <2>2. work'.as = c /\ work'.pc = "open"
    BY <1>4
  <2>3. work' = [queued |-> FALSE, pc |-> "open", as |-> c]
    BY <1>4
  <2> HIDE DEF c
  <2>4. work' \in WorkRecord /\ HomeNow(work'.as)
    BY <2>1, <2>2, <2>3 DEF WorkRecord, HomeNow
  <2> QED BY <1>1, <1>2, <2>2, <2>4, WorkMoves
<1> QED BY <1>2, <1>3, <1>4

LEMMA SendRegistrationHolds == ASSUME PhoneInv, SendRegistration PROVE PhoneInv'
<1> DEFINE c == [at |-> work.as.at, token |-> DeviceTokenFor(work.as.at).token]
<1>1. ServerHolds' /\ DevsStay
  BY SameServer DEF SendRegistration
<1>2. /\ UNCHANGED <<url, saved, native, reply, coordinator, change, turnOff, sync, history>>
      /\ cache' = Loaded /\ work' = [work EXCEPT !.pc = "sent", !.as = c]
  BY DEF SendRegistration
<1>3. work \in WorkRecord /\ work.as \in Credential
  BY DEF PhoneInv, SendersHold, WorkRecord
<1>4. /\ DeviceTokenFor(work.as.at) \in Credential /\ HomeNow(DeviceTokenFor(work.as.at))
      /\ (DeviceTokenFor(work.as.at).token # Nil => DeviceTokenFor(work.as.at).at = work.as.at)
  BY <1>1, TokensTyped, HomesKeep
<1>5. c \in Credential /\ HomeNow(c)
  BY <1>3, <1>4 DEF Credential, HomeNow
<1> HIDE DEF c
<1>6. work' \in WorkRecord /\ work'.as = c /\ work'.pc = "sent"
  BY <1>2, <1>3, <1>5 DEF WorkRecord
<1> QED BY <1>1, <1>2, <1>5, <1>6, WorkMoves

LEMMA AdmitRegistrationHolds == ASSUME PhoneInv, AdmitRegistration PROVE PhoneInv'
<1>1. ServerHolds' /\ DevsStay
  BY SameServer DEF AdmitRegistration
<1>2. /\ UNCHANGED <<url, saved, cache, native, reply, coordinator, change, turnOff, sync, history>>
      /\ work' = IF Authenticated(work.as, work.as.at) THEN [work EXCEPT !.pc = "admitted"]
                 ELSE [NoWork EXCEPT !.queued = work.queued]
  BY DEF AdmitRegistration, credentials
<1>3. work \in WorkRecord /\ work.queued \in BOOLEAN
  BY DEF PhoneInv, SendersHold, WorkRecord
<1>4. CASE Authenticated(work.as, work.as.at)
  <2>1. work' \in WorkRecord /\ work'.as = work.as /\ work.as.token # Nil
    BY <1>2, <1>3, <1>4 DEF WorkRecord, Authenticated
  <2> QED BY <1>1, <1>2, <2>1, HomesKeep, WorkMoves
<1>5. CASE ~Authenticated(work.as, work.as.at)
  <2>1. work' \in WorkRecord /\ work'.as = NoCredential /\ work'.pc = "none"
    BY <1>2, <1>3, <1>5, NoWorkTyped
  <2> QED BY <1>1, <1>2, <2>1, HomesKeep, WorkMoves
<1> QED BY <1>4, <1>5

LEMMA UpsertRegistrationHolds == ASSUME PhoneInv, UpsertRegistration PROVE PhoneInv'
<1>1. work \in WorkRecord /\ work.queued \in BOOLEAN /\ work.as.token \in Devs
  BY DEF PhoneInv, SendersHold, WorkRecord, UpsertRegistration, Credential, Tokens
<1>2. PICK d \in Devs : d = work.as.token
  BY <1>1
<1>3. dev[d] \in Device /\ (dev[d].retired => dev[d].revoked /\ ~dev[d].route)
  BY DEF PhoneInv, ServerHolds
<1>4. PICK b \in BOOLEAN : b = (dev[d].route \/ ~dev[d].revoked)
  OBVIOUS
<1> DEFINE q == [dev[d] EXCEPT !.route = b]
<1>5. /\ q \in Device /\ q.at = dev[d].at /\ q.code = dev[d].code /\ q.revoked = dev[d].revoked
      /\ q.retired = dev[d].retired /\ q.route = b
  BY <1>3, <1>4 DEF Device
<1>6. dev' = [dev EXCEPT ![d] = q] /\ UNCHANGED code
  BY <1>2, <1>4 DEF UpsertRegistration
<1> HIDE DEF q
<1>7. ServerHolds' /\ DevsStay
  BY <1>3, <1>4, <1>5, <1>6, DevChanges
<1>8. /\ UNCHANGED <<url, saved, cache, native, reply, coordinator, change, turnOff, sync, history>>
      /\ work' = [NoWork EXCEPT !.queued = work.queued]
  BY DEF UpsertRegistration, credentials
<1>9. work' \in WorkRecord /\ work'.as = NoCredential /\ work'.pc = "none"
  BY <1>1, <1>8, NoWorkTyped
<1> QED BY <1>7, <1>8, <1>9, HomesKeep, WorkMoves

-----------------------------------------------------------------------------
(* The syncs.                                                              *)

LEMMA NoSyncTyped == NoSync \in SyncRecord /\ NoSync.pc = "none" /\ NoSync.epoch = 0
BY DEF NoSync, SyncRecord, Places

\* One sync moves, and no epoch does.
LEMMA SyncMoves ==
  ASSUME PhoneInv, NEW s \in Syncs, NEW q \in SyncRecord, sync' = [sync EXCEPT ![s] = q], q.epoch <= epoch,
         UNCHANGED <<serverState, url, saved, epoch, transition, change, turnOff, switches, appCrashes>>,
         cache' \in {cache, Loaded}, optIn' \in {"unknown", "on", "off"}, pref' \in {"unset", "on", "off"},
         busy' \in BOOLEAN, unclean' \in BOOLEAN
  PROVE  /\ ServerHolds' /\ DevsStay /\ CredentialTypes' /\ CoordinatorHolds'
         /\ \A r \in Syncs : Fresh(r)' => Fresh(r) \/ (r = s /\ q.pc = "read" /\ q.epoch = epoch)
<1>1. ServerHolds' /\ DevsStay
  BY SameServer
<1>2. CredentialTypes'
  BY TokensTyped DEF PhoneInv, CredentialTypes
<1>3. CoordinatorHolds
  BY DEF PhoneInv
<1>4. sync' \in [Syncs -> SyncRecord] /\ sync'[s] = q /\ \A r \in Syncs \ {s} : sync'[r] = sync[r]
  BY <1>3 DEF CoordinatorHolds
<1>5. CoordinatorHolds'
  BY <1>3, <1>4 DEF CoordinatorHolds, AtRest
<1>6. \A r \in Syncs : Fresh(r)' => Fresh(r) \/ (r = s /\ q.pc = "read" /\ q.epoch = epoch)
  BY <1>4 DEF Fresh
<1> QED BY <1>1, <1>2, <1>5, <1>6

LEMMA CoordinatorTyped ==
  ASSUME PhoneInv
  PROVE  /\ optIn \in {"unknown", "on", "off"} /\ pref \in {"unset", "on", "off"} /\ epoch \in Nat
         /\ busy \in BOOLEAN /\ unclean \in BOOLEAN /\ url \in Places
         /\ \A s \in Syncs : sync[s] \in SyncRecord /\ sync[s].epoch \in Nat /\ sync[s].epoch <= epoch
BY DEF PhoneInv, CoordinatorHolds, CredentialTypes, SyncRecord

LEMMA PressHolds == ASSUME PhoneInv, NEW s \in Syncs, Press(s) PROVE PhoneInv'
<1>1. PICK q : /\ q \in {[pc |-> "read", epoch |-> epoch, by |-> "retry", base |-> url],
                         [pc |-> "permission", epoch |-> epoch, by |-> "enable", base |-> Nil]}
               /\ sync' = [sync EXCEPT ![s] = q]
  BY DEF Press
<1>2. q \in SyncRecord /\ q.epoch <= epoch
  BY <1>1, CoordinatorTyped DEF SyncRecord, Places
<1>3. /\ optIn' = "on" /\ pref' = "on" /\ busy' = TRUE /\ unclean' = (unclean \/ transition.on)
      /\ UNCHANGED <<serverState, credentials, native, reply, epoch, transition, change, turnOff, work, switches, appCrashes>>
  BY DEF Press, PhoneInv, Silence
<1>4. unclean' \in BOOLEAN /\ (~unclean' => ~unclean /\ ~transition.on)
  BY <1>3
<1>5. ServerHolds' /\ DevsStay /\ CredentialTypes' /\ CoordinatorHolds'
  <2>1. /\ UNCHANGED <<serverState, url, saved, epoch, transition, change, turnOff, switches, appCrashes>>
        /\ cache' = cache /\ optIn' \in {"unknown", "on", "off"} /\ pref' \in {"unset", "on", "off"}
        /\ busy' \in BOOLEAN /\ unclean' \in BOOLEAN
    BY <1>3, <1>4 DEF credentials
  <2> QED BY <1>1, <1>2, <2>1, SyncMoves
<1>6. SendersHold'
  BY <1>3, SameSenders
<1>7. Homes'
  BY <1>3, <1>5, SameHomes DEF credentials
<1>8. Silence'
  BY <1>3, <1>4 DEF PhoneInv, Silence, AtRest
<1> QED BY <1>5, <1>6, <1>7, <1>8 DEF PhoneInv

\* A sync that stops reading leaves the rest as it is.
LEMMA SyncEnds ==
  ASSUME PhoneInv, NEW s \in Syncs, NEW q \in SyncRecord, sync' = [sync EXCEPT ![s] = q], q.pc # "read", q.epoch <= epoch,
         UNCHANGED <<serverState, url, saved, native, reply, optIn, pref, epoch, transition, change, turnOff, history>>,
         cache' \in {cache, Loaded}, busy' \in BOOLEAN, work' \in WorkRecord, work'.as = work.as, work'.pc = work.pc
  PROVE  PhoneInv'
<1>1. /\ ServerHolds' /\ DevsStay /\ CredentialTypes' /\ CoordinatorHolds'
      /\ \A r \in Syncs : Fresh(r)' => Fresh(r)
  BY CoordinatorTyped, SyncMoves DEF history
<1>2. SendersHold'
  BY DEF PhoneInv, SendersHold, ReplyKeepsItsAuthority
<1>3. Homes'
  <2>1. Got' = Got
    BY DEF Got
  <2> QED BY <1>1, <2>1, HomesKeep, CacheMoves, HomesMove
<1>4. Silence'
  BY <1>1 DEF PhoneInv, Silence, AtRest, Quiet, history
<1> QED BY <1>1, <1>2, <1>3, <1>4 DEF PhoneInv

LEMMA ReleasedTyped == ASSUME PhoneInv, NEW s \in Syncs, Released(s) PROVE busy' \in BOOLEAN
BY CoordinatorTyped DEF Released

LEMMA WorkTyped ==
  ASSUME PhoneInv PROVE work \in WorkRecord /\ work.as \in Credential /\ work.queued \in BOOLEAN
BY DEF PhoneInv, SendersHold, WorkRecord

LEMMA SyncOver ==
  ASSUME PhoneInv, NEW s \in Syncs, sync' = [sync EXCEPT ![s] = NoSync], Released(s),
         UNCHANGED <<serverState, url, saved, native, reply, optIn, pref, epoch, transition, change, turnOff, history>>,
         cache' \in {cache, Loaded}, work' \in WorkRecord, work'.as = work.as, work'.pc = work.pc
  PROVE  PhoneInv'
<1>1. NoSync \in SyncRecord /\ NoSync.pc # "read" /\ NoSync.epoch <= epoch /\ busy' \in BOOLEAN
  BY NoSyncTyped, CoordinatorTyped, ReleasedTyped
<1> QED BY <1>1, SyncEnds

LEMMA PermissionHolds == ASSUME PhoneInv, NEW s \in Syncs, Permission(s) PROVE PhoneInv'
<1>1. UNCHANGED <<serverState, credentials, native, reply, optIn, pref, epoch, transition, change, turnOff, work, switches, appCrashes>>
  BY DEF Permission
<1>2. CASE sync' = [sync EXCEPT ![s] = NoSync] /\ Released(s) /\ UNCHANGED unclean
  BY <1>1, <1>2, WorkTyped, SyncOver DEF credentials, history
<1>3. CASE /\ sync' = [sync EXCEPT ![s] = [@ EXCEPT !.pc = "read", !.epoch = epoch, !.base = url]]
           /\ unclean' = (unclean \/ transition.on) /\ UNCHANGED busy
  <2> DEFINE q == [sync[s] EXCEPT !.pc = "read", !.epoch = epoch, !.base = url]
  <2>1. q \in SyncRecord /\ q.epoch <= epoch
    <3>1. sync[s] \in SyncRecord /\ epoch \in Nat /\ url \in Places
      BY CoordinatorTyped
    <3>2. q \in SyncRecord /\ q.epoch = epoch
      BY <3>1 DEF SyncRecord
    <3> QED BY <3>1, <3>2
  <2>2. sync' = [sync EXCEPT ![s] = q]
    BY <1>3
  <2> HIDE DEF q
  <2>3. unclean' \in BOOLEAN /\ (~unclean' => ~unclean /\ ~transition.on)
    BY <1>3
  <2>4. ServerHolds' /\ DevsStay /\ CredentialTypes' /\ CoordinatorHolds'
    <3>1. /\ UNCHANGED <<serverState, url, saved, epoch, transition, change, turnOff, switches, appCrashes>>
          /\ cache' = cache /\ optIn' \in {"unknown", "on", "off"} /\ pref' \in {"unset", "on", "off"}
          /\ busy' \in BOOLEAN /\ unclean' \in BOOLEAN
      BY <1>1, <1>3, <2>3, CoordinatorTyped DEF credentials
    <3> QED BY <2>1, <2>2, <3>1, SyncMoves
  <2>5. SendersHold'
    BY <1>1, SameSenders
  <2>6. Homes'
    BY <1>1, <2>4, SameHomes DEF credentials
  <2>7. Silence'
    BY <1>1, <2>3 DEF PhoneInv, Silence, AtRest, Quiet
  <2> QED BY <2>4, <2>5, <2>6, <2>7 DEF PhoneInv
<1> QED BY <1>2, <1>3 DEF Permission

\* cancelAllWorkByTag leaves nothing that is tried again.
LEMMA CancelledTyped ==
  ASSUME PhoneInv
  PROVE  /\ Cancelled \in ReplyRecord /\ Cancelled.pc \notin {"queued", "posting"}
         /\ Cancelled.as \in {reply.as, NoCredential} /\ Cancelled.under \in {reply.under, NoCredential}
         /\ Cancelled.pc = "stopped" => Cancelled.as = Cancelled.under
<1>1. reply \in ReplyRecord /\ (reply.pc \in {"posting", "stopped"} => reply.as = reply.under)
  BY SendersTyped
<1>2. CASE reply.pc = "queued"
  BY <1>2, NoReplyTyped DEF Cancelled
<1>3. CASE reply.pc = "posting"
  <2>1. Cancelled = [reply EXCEPT !.pc = "stopped"]
    BY <1>3 DEF Cancelled
  <2> QED BY <1>1, <1>3, <2>1 DEF ReplyRecord
<1>4. CASE reply.pc \notin {"queued", "posting"}
  <2>1. Cancelled = reply
    BY <1>4 DEF Cancelled
  <2> QED BY <1>1, <1>4, <2>1
<1> QED BY <1>2, <1>3, <1>4

LEMMA SyncReadsHolds == ASSUME PhoneInv, NEW s \in Syncs, SyncReads(s) PROVE PhoneInv'
<1>1. /\ cache' = Loaded /\ sync[s].pc = "read"
      /\ UNCHANGED <<serverState, url, saved, optIn, pref, epoch, transition, change, turnOff, work, history>>
  BY DEF SyncReads
<1>2. CASE sync' = [sync EXCEPT ![s] = NoSync] /\ Released(s) /\ UNCHANGED <<native, reply>>
  BY <1>1, <1>2, WorkTyped, SyncOver
<1>3. CASE /\ Current(s) /\ native' = DeviceTokenFor(sync[s].base)
           /\ reply' \in {Cancelled, reply} /\ sync' = [sync EXCEPT ![s].pc = "register"] /\ UNCHANGED busy
  <2> DEFINE q == [sync[s] EXCEPT !.pc = "register"]
  <2>1. q \in SyncRecord /\ q.epoch = sync[s].epoch /\ q.epoch <= epoch
    BY CoordinatorTyped DEF SyncRecord
  <2>2. sync' = [sync EXCEPT ![s] = q]
    BY <1>3
  <2> HIDE DEF q
  <2>3. ServerHolds' /\ DevsStay /\ CredentialTypes' /\ CoordinatorHolds'
    BY <1>1, <1>3, <2>1, <2>2, CoordinatorTyped, SyncMoves DEF history
  <2>4. native' \in Credential /\ HomeNow(native')
    BY <1>3, <2>3, TokensTyped, HomesKeep
  <2>5. /\ reply' \in ReplyRecord /\ reply'.as \in {reply.as, NoCredential} /\ reply'.under \in {reply.under, NoCredential}
        /\ reply'.pc \in {"posting", "stopped"} => reply'.as = reply'.under
    BY <1>3, SendersTyped, CancelledTyped DEF ReplyRecord
  <2>6. SendersHold'
    BY <1>1, <2>4, <2>5 DEF PhoneInv, SendersHold, ReplyKeepsItsAuthority
  <2>7. Homes'
    <3>1. Got' = Got
      BY <1>1 DEF Got
    <3>2. HomeNow(reply'.as) /\ HomeNow(reply'.under)
      BY <2>3, <2>5, HomesKeep
    <3> QED BY <1>1, <2>3, <2>4, <3>1, <3>2, HomesKeep, CacheMoves, HomesMove
  <2>8. Fresh(s) /\ optIn = "on"
    BY <1>1, <1>3 DEF Current, Fresh
  <2>9. Silence'
    BY <1>1, <2>8 DEF PhoneInv, Silence, AtRest, history
  <2> QED BY <2>3, <2>6, <2>7, <2>9 DEF PhoneInv
<1> QED BY <1>2, <1>3 DEF SyncReads

LEMMA SyncRegistersHolds == ASSUME PhoneInv, NEW s \in Syncs, SyncRegisters(s) PROVE PhoneInv'
<1>1. PICK b \in BOOLEAN : b = (work.queued \/ Current(s))
  OBVIOUS
<1>2. work' = [work EXCEPT !.queued = b]
  BY <1>1 DEF SyncRegisters
<1>3. work' \in WorkRecord /\ work'.as = work.as /\ work'.pc = work.pc
  BY <1>2, WorkTyped DEF WorkRecord
<1> QED BY <1>3, SyncOver DEF SyncRegisters, credentials

\* Bootstrap, commitAuthorityChange and abortAuthorityChange start a sync of their own.
LEMMA StartSyncHolds ==
  ASSUME PhoneInv, NEW e \in Nat, epoch <= e, StartSync(e) \/ UNCHANGED sync
  PROVE  sync' \in [Syncs -> SyncRecord] /\ \A s \in Syncs : sync'[s].epoch <= e
<1>1. sync \in [Syncs -> SyncRecord] /\ \A s \in Syncs : sync[s].epoch \in Nat /\ sync[s].epoch <= epoch
  BY DEF PhoneInv, CoordinatorHolds, SyncRecord
<1>2. epoch \in Nat /\ url \in Places
  BY CoordinatorTyped
<1>3. CASE UNCHANGED sync
  BY <1>1, <1>2, <1>3
<1>4. CASE StartSync(e)
  <2> DEFINE q == [pc |-> "read", epoch |-> e, by |-> "app", base |-> url]
  <2>1. PICK s \in Syncs : sync' = [sync EXCEPT ![s] = q]
    BY <1>4 DEF StartSync
  <2>2. q \in SyncRecord /\ q.epoch = e
    BY <1>2 DEF SyncRecord
  <2> HIDE DEF q
  <2> QED BY <1>1, <1>2, <2>1, <2>2
<1> QED BY <1>3, <1>4

LEMMA BootstrapHolds == ASSUME PhoneInv, Bootstrap PROVE PhoneInv'
<1>1. /\ optIn = "unknown" /\ cache' = Loaded
      /\ UNCHANGED <<serverState, url, saved, native, reply, epoch, busy, transition, change, turnOff, work, history>>
  BY DEF Bootstrap
<1>2. PICK on \in BOOLEAN :
        /\ on = (pref = "on" \/ (pref = "unset" /\ DeviceToken # NoCredential))
        /\ optIn' = IF on THEN "on" ELSE "off"
        /\ pref' = IF pref = "unset" THEN (IF on THEN "on" ELSE "off") ELSE pref
        /\ IF on THEN StartSync(epoch) ELSE UNCHANGED sync
  BY Zenon DEF Bootstrap
<1>3. optIn' \in {"on", "off"} /\ pref' \in {"unset", "on", "off"} /\ (optIn' = "on" => pref' = "on")
      /\ (optIn' = "off" => pref # "on")
  BY <1>2, CoordinatorTyped
<1>4. StartSync(epoch) \/ UNCHANGED sync
  BY <1>2
<1>5. epoch \in Nat /\ epoch <= epoch
  BY CoordinatorTyped
<1>6. sync' \in [Syncs -> SyncRecord] /\ \A s \in Syncs : sync'[s].epoch <= epoch
  BY <1>4, <1>5, StartSyncHolds
<1>7. CoordinatorHolds'
  BY <1>1, <1>3, <1>6 DEF PhoneInv, CoordinatorHolds, AtRest, history
<1>8. ServerHolds' /\ DevsStay /\ SendersHold'
  BY <1>1, SameServer, SameSenders
<1>9. CredentialTypes'
  BY <1>1, TokensTyped DEF PhoneInv, CredentialTypes
<1>10. Homes'
  BY <1>1, <1>8, SameHomes
<1>11. Silence'
  BY <1>1, <1>3 DEF PhoneInv, Silence, AtRest, Quiet, history
<1> QED BY <1>7, <1>8, <1>9, <1>10, <1>11 DEF PhoneInv

-----------------------------------------------------------------------------
(* A change of authority.                                                  *)

LEMMA ChangeTyped ==
  ASSUME PhoneInv
  PROVE  /\ change \in ChangeRecord /\ switches \in Nat /\ appCrashes \in Nat /\ transition.optIn \in {"on", "off"}
         /\ transition \in [on : BOOLEAN, optIn : {"on", "off"}] /\ turnOff \in TurnOffRecord
BY DEF PhoneInv, CoordinatorHolds

\* The queue is emptied; what runs goes on.
LEMMA OvertakesTyped ==
  ASSUME PhoneInv, Overtakes
  PROVE  /\ work' \in WorkRecord /\ work'.as = work.as /\ work'.pc = work.pc
         /\ epoch' = epoch + 1 /\ epoch' \in Nat /\ \A s \in Syncs : sync[s].epoch <= epoch' /\ ~(sync[s].epoch = epoch')
<1>1. work' \in WorkRecord /\ work'.as = work.as /\ work'.pc = work.pc
  BY WorkTyped DEF Overtakes, WorkRecord
<1>2. /\ epoch \in Nat /\ epoch' = epoch + 1
      /\ \A s \in Syncs : sync[s].epoch \in Nat /\ sync[s].epoch <= epoch
  BY CoordinatorTyped DEF Overtakes
<1> QED BY <1>1, <1>2

LEMMA StartChangeHolds == ASSUME PhoneInv, NEW kind \in {"pair", "logout"}, StartChange(kind) PROVE PhoneInv'
<1>1. /\ AtRest /\ optIn # "unknown" /\ transition' = [on |-> TRUE, optIn |-> optIn]
      /\ busy' = TRUE /\ switches' = switches + 1 /\ change' = [NoChange EXCEPT !.pc = "clear", !.kind = kind]
      /\ UNCHANGED <<serverState, credentials, native, reply, optIn, pref, turnOff, sync, unclean, appCrashes>>
      /\ Overtakes
  BY DEF StartChange
<1>2. change' \in ChangeRecord /\ change'.pc = "clear" /\ change'.got = Nil
  BY <1>1 DEF NoChange, ChangeRecord, ChangePcs, Places, Tokens
<1>3. /\ work' \in WorkRecord /\ work'.as = work.as /\ work'.pc = work.pc
      /\ epoch' = epoch + 1 /\ epoch' \in Nat /\ \A s \in Syncs : sync[s].epoch <= epoch'
  BY <1>1, OvertakesTyped
<1>4. transition' \in [on : BOOLEAN, optIn : {"on", "off"}] /\ transition'.on
  BY <1>1, CoordinatorTyped
<1>5. CoordinatorHolds'
  <2>1. switches' \in Nat /\ epoch' + 1 <= switches' + switches'
    BY <1>1, <1>3, CoordinatorTyped, ChangeTyped DEF PhoneInv, CoordinatorHolds
  <2>2. ~AtRest'
    BY <1>2 DEF AtRest
  <2>3. busy' \in BOOLEAN
    BY <1>1
  <2>4. CoordinatorHolds
    BY DEF PhoneInv
  <2> QED BY <1>1, <1>2, <1>3, <1>4, <2>1, <2>2, <2>3, <2>4 DEF CoordinatorHolds
<1>6. ServerHolds' /\ DevsStay
  BY <1>1, SameServer
<1>7. SendersHold'
  BY <1>1, <1>3 DEF PhoneInv, SendersHold, ReplyKeepsItsAuthority
<1>8. CredentialTypes'
  BY <1>1 DEF PhoneInv, CredentialTypes, credentials
<1>9. Homes'
  <2>1. HomeNow(Got')
    BY <1>2 DEF Got, HomeNow
  <2> QED BY <1>1, <1>3, <1>6, <2>1, HomesKeep, HomesMove DEF credentials
<1>10. Silence'
  BY <1>1, <1>2, <1>4 DEF PhoneInv, Silence, AtRest
<1> QED BY <1>5, <1>6, <1>7, <1>8, <1>9, <1>10 DEF PhoneInv

\* A clearing that worked leaves nothing, unless a sync was begun by hand.
LEMMA ClearedHolds ==
  ASSUME PhoneInv, native' = NoCredential, reply' = Cancelled, UNCHANGED work
  PROVE  SendersHold' /\ Quiet'
<1>1. SendersHold'
  BY CancelledTyped, NoCredentialTyped DEF PhoneInv, SendersHold, ReplyKeepsItsAuthority
<1> QED BY <1>1, CancelledTyped DEF Quiet

LEMMA ClearedHomes ==
  ASSUME PhoneInv, DevsStay, (native' = NoCredential /\ reply' = Cancelled) \/ UNCHANGED <<native, reply>>,
         UNCHANGED <<credentials, work>>, change'.at = change.at, change'.got = change.got
  PROVE  Homes'
<1>1. HomeNow(native') /\ HomeNow(reply'.as) /\ HomeNow(reply'.under)
  BY HomesKeep, CancelledTyped
<1>2. Got' = Got
  BY DEF Got
<1> QED BY <1>1, <1>2, HomesKeep, HomesMove DEF credentials

LEMMA ClearRepliesHolds == ASSUME PhoneInv, ClearReplies PROVE PhoneInv'
<1>1. /\ change.pc = "clear"
      /\ UNCHANGED <<serverState, credentials, coordinator, turnOff, sync, work, switches, appCrashes>>
  BY DEF ClearReplies
<1>2. PICK b \in BOOLEAN : change' = [change EXCEPT !.pc = "unregister", !.clean = b]
  <2>1. change' = [change EXCEPT !.pc = "unregister"] => change' = [change EXCEPT !.pc = "unregister", !.clean = change.clean]
        /\ change.clean \in BOOLEAN
    BY ChangeTyped DEF ChangeRecord
  <2> QED BY <2>1, ChangeTyped DEF ClearReplies, ChangeRecord
<1>3. change' \in ChangeRecord /\ change'.pc = "unregister" /\ change'.at = change.at /\ change'.got = change.got
  BY <1>2, ChangeTyped DEF ChangeRecord, ChangePcs
<1>4. /\ unclean' \in BOOLEAN
      /\ (native' = NoCredential /\ reply' = Cancelled) \/ (unclean' /\ UNCHANGED <<native, reply>>)
      /\ ~unclean' => native' = NoCredential /\ reply' = Cancelled /\ \A s \in Syncs : ~Fresh(s)
  BY DEF ClearReplies, Pressed, Fresh
<1>5. SendersHold' /\ (~unclean' => Quiet')
  BY <1>1, <1>4, ClearedHolds, SameSenders
<1>6. ServerHolds' /\ DevsStay
  BY <1>1, SameServer
<1>7. CredentialTypes'
  BY <1>1 DEF PhoneInv, CredentialTypes, credentials
<1>8. Homes'
  BY <1>1, <1>3, <1>4, <1>6, ClearedHomes
<1>9. CoordinatorHolds'
  BY <1>1, <1>3, <1>4 DEF PhoneInv, CoordinatorHolds, AtRest, coordinator
<1>10. Silence'
  BY <1>1, <1>3, <1>4, <1>5 DEF PhoneInv, Silence, AtRest, Fresh, coordinator
<1> QED BY <1>5, <1>6, <1>7, <1>8, <1>9, <1>10 DEF PhoneInv

\* A change under way goes on: nobody learns of an authority by that.
LEMMA ChangeMoves ==
  ASSUME PhoneInv, ServerHolds', DevsStay, change.pc \notin {"none", "clear"},
         change' \in ChangeRecord, change'.pc \notin {"none", "clear"}, HomeNow(Got'),
         url' \in Places, saved' \in Credential, HomeNow(saved'), cache' \in Credential \cup {NotLoaded},
         cache' # NotLoaded => HomeNow(cache'), busy' \in BOOLEAN,
         UNCHANGED <<native, reply, work, optIn, pref, epoch, transition, turnOff, sync, history>>
  PROVE  PhoneInv'
<1>1. SendersHold'
  BY SameSenders
<1>2. CredentialTypes'
  BY DEF CredentialTypes
<1>3. CoordinatorHolds'
  BY DEF PhoneInv, CoordinatorHolds, AtRest, history
<1>4. Homes'
  BY HomesKeep, HomesMove
<1>5. Silence'
  BY DEF PhoneInv, Silence, AtRest, Quiet, Fresh, history
<1> QED BY <1>1, <1>2, <1>3, <1>4, <1>5 DEF PhoneInv

LEMMA CacheTyped ==
  ASSUME PhoneInv, cache' \in {cache, Loaded} PROVE cache' \in Credential \cup {NotLoaded}
BY TokensTyped DEF PhoneInv, CredentialTypes

\* A change that only goes to another point.
LEMMA ChangeGoes ==
  ASSUME PhoneInv, ServerHolds', DevsStay, change.pc \notin {"none", "clear"}, NEW pc \in ChangePcs \ {"none", "clear"},
         change' = [change EXCEPT !.pc = pc], url' \in Places, UNCHANGED saved, cache' \in {cache, Loaded},
         busy' \in BOOLEAN, UNCHANGED <<native, reply, work, optIn, pref, epoch, transition, turnOff, sync, history>>
  PROVE  PhoneInv'
<1>1. change' \in ChangeRecord /\ change'.pc = pc /\ change'.at = change.at /\ change'.got = change.got
  BY ChangeTyped DEF ChangeRecord
<1>2. Got' = Got
  BY <1>1 DEF Got
<1>3. saved' \in Credential /\ HomeNow(saved') /\ HomeNow(Got')
  BY <1>2, HomesKeep DEF PhoneInv, CredentialTypes
<1>4. cache' \in Credential \cup {NotLoaded} /\ (cache' # NotLoaded => HomeNow(cache'))
  BY CacheTyped, CacheMoves
<1> QED BY <1>1, <1>3, <1>4, ChangeMoves

LEMMA UnregisterHolds == ASSUME PhoneInv, Unregister PROVE PhoneInv'
<1>1. /\ change.pc = "unregister" /\ RouteOff(DeviceToken) /\ cache' = Loaded /\ busy' = FALSE
      /\ UNCHANGED <<code, url, saved, native, reply, optIn, pref, epoch, transition, turnOff, sync, work, unclean, switches, appCrashes>>
  BY DEF Unregister
<1>2. PICK pc \in {"ask", "leave", "abort"} : change' = [change EXCEPT !.pc = pc]
  BY DEF Unregister
<1>3. ServerHolds' /\ DevsStay
  BY <1>1, TokensTyped, RouteOffHolds DEF DeviceToken
<1>4. url' \in Places /\ busy' \in BOOLEAN /\ pc \in ChangePcs \ {"none", "clear"}
  BY <1>1, CoordinatorTyped DEF ChangePcs
<1> QED BY <1>1, <1>2, <1>3, <1>4, ChangeGoes DEF history

\* consume_pairing_code: the device is new to its server, and the only one of its code.
LEMMA ConsumePairingCodeHolds ==
  ASSUME PhoneInv, NEW o \in Origins, NEW c \in Codes, NEW d \in Devs, dev[d].at = Nil, Redeemable(c, o),
         ConsumePairingCode(c, o, d)
  PROVE  ServerHolds' /\ DevsStay /\ dev'[d].at = o
<1> DEFINE q == [at |-> o, code |-> c, revoked |-> FALSE, route |-> FALSE, retired |-> FALSE]
           k == [code[c] EXCEPT !.state = "used"]
<1>1. ServerHolds
  BY DEF PhoneInv
<1>2. q \in Device /\ q.at = o /\ q.code = c /\ ~q.retired
  BY DEF Device, Places
<1>3. /\ k \in [at : Places, state : {"none", "open", "used"}] /\ k.state = "used" /\ code[c].state = "open"
  BY <1>1 DEF ServerHolds, Redeemable
<1>4. dev' = [dev EXCEPT ![d] = q] /\ code' = [code EXCEPT ![c] = k]
  BY DEF ConsumePairingCode
<1> HIDE DEF q, k
<1>5. /\ dev' \in [Devs -> Device] /\ dev'[d] = q /\ \A e \in Devs \ {d} : dev'[e] = dev[e]
  BY <1>1, <1>2, <1>4 DEF ServerHolds
<1>6. /\ code' \in [Codes -> [at : Places, state : {"none", "open", "used"}]] /\ code'[c] = k
      /\ \A b \in Codes \ {c} : code'[b] = code[b]
  BY <1>1, <1>3, <1>4 DEF ServerHolds
<1>7. \A e \in Devs : dev[e].code # c /\ dev[e].code \in Codes \cup {Nil}
  BY <1>1, <1>3, PhoneAssumption DEF ServerHolds, Device, PhoneAssumption
<1>8. \A e \in Devs : dev'[e].code # Nil => code'[dev'[e].code].state = "used"
  BY <1>1, <1>2, <1>3, <1>5, <1>6, <1>7 DEF ServerHolds
<1>9. OneDevicePerCode'
  BY <1>1, <1>2, <1>5, <1>7 DEF ServerHolds, OneDevicePerCode
<1>10. \A e \in Devs : dev'[e].retired => dev'[e].revoked /\ ~dev'[e].route
  BY <1>1, <1>2, <1>5 DEF ServerHolds
<1>11. DevsStay
  BY <1>5 DEF DevsStay
<1> QED BY <1>2, <1>5, <1>6, <1>8, <1>9, <1>10, <1>11 DEF ServerHolds

LEMMA AskToPairHolds == ASSUME PhoneInv, NEW o \in Origins, NEW c \in Codes, AskToPair(o, c) PROVE PhoneInv'
<1>1. /\ change.pc = "ask"
      /\ UNCHANGED <<credentials, native, reply, coordinator, turnOff, sync, work, history>>
  BY DEF AskToPair
<1>2. /\ url' \in Places /\ UNCHANGED <<saved, cache, optIn, pref, epoch, transition>> /\ busy' \in BOOLEAN
  BY <1>1, CoordinatorTyped DEF credentials, coordinator
<1>3. "abort" \in ChangePcs \ {"none", "clear"}
  BY DEF ChangePcs
<1>4. CASE change' = [change EXCEPT !.pc = "abort"] /\ UNCHANGED serverState
  <2>1. ServerHolds' /\ DevsStay
    BY <1>4, SameServer
  <2> QED BY <1>1, <1>2, <1>3, <1>4, <2>1, ChangeGoes
<1>5. ASSUME NEW d \in Devs, dev[d].at = Nil, Redeemable(c, o), ConsumePairingCode(c, o, d),
             \/ change' = [change EXCEPT !.pc = "retire", !.at = o, !.got = d]
             \/ change' = [change EXCEPT !.pc = "abort"]
      PROVE  PhoneInv'
  <2>1. ServerHolds' /\ DevsStay /\ dev'[d].at = o
    BY <1>5, ConsumePairingCodeHolds
  <2>2. CASE change' = [change EXCEPT !.pc = "abort"]
    BY <1>1, <1>2, <1>3, <2>1, <2>2, ChangeGoes
  <2>3. CASE change' = [change EXCEPT !.pc = "retire", !.at = o, !.got = d]
    <3>1. change' \in ChangeRecord /\ change'.pc = "retire" /\ change'.at = o /\ change'.got = d
      BY <2>3, ChangeTyped DEF ChangeRecord, ChangePcs, Places, Tokens
    <3>2. Got'.at = o /\ Got'.token = d /\ o # Nil
      BY <3>1, PhoneAssumption DEF Got, PhoneAssumption
    <3>3. HomeNow(Got')
      BY <2>1, <3>2 DEF HomeNow
    <3>4. saved' \in Credential /\ HomeNow(saved')
      BY <1>2, <2>1, HomesKeep DEF PhoneInv, CredentialTypes
    <3>5. cache' \in Credential \cup {NotLoaded} /\ (cache' # NotLoaded => HomeNow(cache'))
      BY <1>2, <2>1, CacheTyped, CacheMoves
    <3> QED BY <1>1, <1>2, <2>1, <3>1, <3>3, <3>4, <3>5, ChangeMoves
  <2> QED BY <1>5, <2>2, <2>3
<1>6. (\E x \in Devs : dev[x].at = Nil) =>
        (CHOOSE x \in Devs : dev[x].at = Nil) \in Devs /\ dev[CHOOSE x \in Devs : dev[x].at = Nil].at = Nil
  OBVIOUS
<1> QED BY <1>4, <1>5, <1>6, Zenon DEF AskToPair

LEMMA RetirePreviousHolds == ASSUME PhoneInv, RetirePrevious PROVE PhoneInv'
<1>1. /\ UNCHANGED <<code, url, saved, native, reply, coordinator, turnOff, sync, work, unclean, switches, appCrashes>>
      /\ cache' = Loaded /\ change.pc = "retire"
  BY DEF RetirePrevious
<1>2. PICK pc \in {"write", "forget"} : change' = [change EXCEPT !.pc = pc]
  BY DEF RetirePrevious
<1>3. RouteOff(DeviceToken)
  BY DEF RetirePrevious, RouteOff
<1>4. ServerHolds' /\ DevsStay
  BY <1>1, <1>3, TokensTyped, RouteOffHolds DEF DeviceToken
<1>5. /\ url' \in Places /\ busy' \in BOOLEAN /\ pc \in ChangePcs \ {"none", "clear"}
      /\ UNCHANGED <<optIn, pref, epoch, transition, history>>
  BY <1>1, CoordinatorTyped DEF ChangePcs, coordinator, history
<1> QED BY <1>1, <1>2, <1>4, <1>5, ChangeGoes

LEMMA ForgetTokenHolds == ASSUME PhoneInv, ForgetToken PROVE PhoneInv'
<1>1. /\ change.pc = "forget" /\ saved' = NoCredential /\ cache' = NoCredential
      /\ UNCHANGED <<serverState, url, native, reply, coordinator, turnOff, sync, work, history>>
  BY DEF ForgetToken
<1>2. PICK pc \in {"write", "commit"} : change' = [change EXCEPT !.pc = pc]
  BY DEF ForgetToken
<1>3. ServerHolds' /\ DevsStay
  BY <1>1, SameServer
<1>4. change' \in ChangeRecord /\ change'.pc = pc /\ change'.at = change.at /\ change'.got = change.got
  BY <1>2, ChangeTyped DEF ChangeRecord, ChangePcs
<1>5. Got' = Got
  BY <1>4 DEF Got
<1>6. HomeNow(Got') /\ HomeNow(saved') /\ HomeNow(cache') /\ saved' \in Credential /\ cache' \in Credential
  BY <1>1, <1>3, <1>5, HomesKeep, NoCredentialTyped
<1>7. url' \in Places /\ busy' \in BOOLEAN /\ UNCHANGED <<optIn, pref, epoch, transition>>
  BY <1>1, CoordinatorTyped DEF coordinator
<1> QED BY <1>1, <1>3, <1>4, <1>6, <1>7, ChangeMoves

LEMMA WriteTokenHolds == ASSUME PhoneInv, WriteToken PROVE PhoneInv'
<1>1. /\ change.pc = "write" /\ saved' = Got /\ cache' = Got /\ change' = [change EXCEPT !.pc = "publish"]
      /\ UNCHANGED <<serverState, url, native, reply, coordinator, turnOff, sync, work, history>>
  BY DEF WriteToken, Got
<1>2. ServerHolds' /\ DevsStay
  BY <1>1, SameServer
<1>3. change' \in ChangeRecord /\ change'.pc = "publish" /\ change'.at = change.at /\ change'.got = change.got
  BY <1>1, ChangeTyped DEF ChangeRecord, ChangePcs
<1>4. Got' = Got /\ Got \in Credential
  BY <1>3, ChangeTyped DEF Got, ChangeRecord, Credential
<1>5. HomeNow(Got') /\ HomeNow(saved') /\ HomeNow(cache') /\ saved' \in Credential /\ cache' \in Credential
  BY <1>1, <1>2, <1>4, HomesKeep
<1>6. url' \in Places /\ busy' \in BOOLEAN /\ UNCHANGED <<optIn, pref, epoch, transition>>
  BY <1>1, CoordinatorTyped DEF coordinator
<1> QED BY <1>1, <1>2, <1>3, <1>5, <1>6, ChangeMoves

LEMMA PublishOriginHolds == ASSUME PhoneInv, PublishOrigin PROVE PhoneInv'
<1>1. /\ change.pc = "publish" /\ url' = change.at /\ change' = [change EXCEPT !.pc = "commit"]
      /\ UNCHANGED <<serverState, saved, cache, native, reply, coordinator, turnOff, sync, work, history>>
  BY DEF PublishOrigin
<1>2. ServerHolds' /\ DevsStay
  BY <1>1, SameServer
<1>3. /\ url' \in Places /\ busy' \in BOOLEAN /\ "commit" \in ChangePcs \ {"none", "clear"}
      /\ UNCHANGED <<optIn, pref, epoch, transition>>
  BY <1>1, CoordinatorTyped, ChangeTyped DEF ChangePcs, ChangeRecord, coordinator
<1> QED BY <1>1, <1>2, <1>3, ChangeGoes

LEMMA LogOutHolds == ASSUME PhoneInv, LogOut PROVE PhoneInv'
<1>1. /\ change.pc = "leave" /\ cache' = Loaded /\ change' = [change EXCEPT !.pc = "forget"]
      /\ UNCHANGED <<code, url, saved, native, reply, coordinator, turnOff, sync, work, unclean, switches, appCrashes>>
  BY DEF LogOut
<1>2. ServerHolds' /\ DevsStay
  <2>1. CASE UNCHANGED dev
    BY <1>1, <2>1, SameServer DEF serverState
  <2>2. CASE /\ DeviceToken.token # Nil
             /\ dev' = [dev EXCEPT ![DeviceToken.token] = [@ EXCEPT !.revoked = TRUE, !.route = FALSE, !.retired = TRUE]]
    <3>1. PICK d \in Devs : d = DeviceToken.token
      BY <2>2, TokensTyped DEF DeviceToken, Credential, Tokens
    <3> DEFINE q == [dev[d] EXCEPT !.revoked = TRUE, !.route = FALSE, !.retired = TRUE]
    <3>2. dev[d] \in Device
      BY DEF PhoneInv, ServerHolds
    <3>3. q \in Device /\ q.at = dev[d].at /\ q.code = dev[d].code /\ q.revoked /\ ~q.route
      BY <3>2 DEF Device
    <3>4. dev' = [dev EXCEPT ![d] = q]
      BY <2>2, <3>1
    <3> HIDE DEF q
    <3> QED BY <1>1, <3>3, <3>4, DevChanges
  <2> QED BY <2>1, <2>2 DEF LogOut, Authenticated
<1>3. /\ url' \in Places /\ busy' \in BOOLEAN /\ "forget" \in ChangePcs \ {"none", "clear"}
      /\ UNCHANGED <<optIn, pref, epoch, transition, history>>
  BY <1>1, CoordinatorTyped DEF ChangePcs, coordinator, history
<1> QED BY <1>1, <1>2, <1>3, ChangeGoes

\* A change that is over has left the native side quiet, or a clearing is owed.
LEMMA ChangeEnds ==
  ASSUME PhoneInv, change.pc \notin {"none", "clear"}, change' = NoChange, Overtakes,
         transition' = [on |-> FALSE, optIn |-> "off"], StartSync(epoch + 1) \/ UNCHANGED sync,
         optIn' \in {"on", "off"}, pref' \in {"unset", "on", "off"}, optIn' = "on" => pref' = "on",
         cache' \in {cache, Loaded}, UNCHANGED <<serverState, url, saved, native, reply, turnOff, busy, history>>
  PROVE  PhoneInv'
<1>1. change' \in ChangeRecord /\ change'.pc = "none" /\ change'.got = Nil
  BY DEF NoChange, ChangeRecord, ChangePcs, Places, Tokens
<1>2. /\ work' \in WorkRecord /\ work'.as = work.as /\ work'.pc = work.pc
      /\ epoch' = epoch + 1 /\ epoch' \in Nat
  BY OvertakesTyped
<1>3. epoch \in Nat /\ epoch + 1 \in Nat /\ epoch <= epoch + 1
  BY CoordinatorTyped
<1>4. sync' \in [Syncs -> SyncRecord] /\ \A s \in Syncs : sync'[s].epoch <= epoch'
  BY <1>2, <1>3, StartSyncHolds
<1>5. transition' \in [on : BOOLEAN, optIn : {"on", "off"}] /\ ~transition'.on
  OBVIOUS
<1>6. CoordinatorHolds'
  <2>1. CoordinatorHolds
    BY DEF PhoneInv
  <2>2. epoch' <= switches' + switches' /\ AtRest'
    BY <1>1, <1>2, <2>1 DEF CoordinatorHolds, AtRest, history
  <2> QED BY <1>1, <1>2, <1>4, <1>5, <2>1, <2>2 DEF CoordinatorHolds, history
<1>7. ServerHolds' /\ DevsStay
  BY SameServer
<1>8. SendersHold'
  BY <1>2 DEF PhoneInv, SendersHold, ReplyKeepsItsAuthority
<1>9. CredentialTypes'
  BY TokensTyped DEF PhoneInv, CredentialTypes
<1>10. Homes'
  <2>1. HomeNow(Got')
    BY <1>1 DEF Got, HomeNow
  <2> QED BY <1>2, <1>7, <2>1, HomesKeep, CacheMoves, HomesMove
<1>11. Silence'
  BY <1>1, <1>5 DEF PhoneInv, Silence, AtRest, Quiet, history
<1> QED BY <1>6, <1>7, <1>8, <1>9, <1>10, <1>11 DEF PhoneInv

LEMMA CommitHolds == ASSUME PhoneInv, Commit PROVE PhoneInv'
<1>1. PICK keep \in BOOLEAN :
        /\ optIn' = IF keep THEN "on" ELSE "off"
        /\ pref' = IF keep THEN "on" ELSE IF transition.optIn = "on" THEN "off" ELSE pref
        /\ IF keep THEN StartSync(epoch + 1) ELSE UNCHANGED sync
  BY Zenon DEF Commit
<1>2. /\ optIn' \in {"on", "off"} /\ pref' \in {"unset", "on", "off"} /\ (optIn' = "on" => pref' = "on")
      /\ StartSync(epoch + 1) \/ UNCHANGED sync
  BY <1>1, CoordinatorTyped
<1> QED BY <1>2, ChangeEnds DEF Commit

LEMMA AbortHolds == ASSUME PhoneInv, Abort PROVE PhoneInv'
<1>1. /\ optIn' \in {"on", "off"} /\ pref' \in {"unset", "on", "off"} /\ (optIn' = "on" => pref' = "on")
      /\ StartSync(epoch + 1) \/ UNCHANGED sync
  BY CoordinatorTyped, ChangeTyped DEF Abort
<1> QED BY <1>1, ChangeEnds DEF Abort, credentials

-----------------------------------------------------------------------------
(* Notifications are turned off, and the app dies.                         *)

LEMMA TurnOffHolds == ASSUME PhoneInv, TurnOff PROVE PhoneInv'
<1>1. /\ optIn \in {"on", "off"} /\ optIn' = "off" /\ pref' \in {"off", pref} /\ epoch' = epoch + 1
      /\ busy' = TRUE /\ switches' = switches + 1
      /\ turnOff' = [pc |-> "clear", epoch |-> epoch + 1, again |-> FALSE]
      /\ UNCHANGED <<serverState, credentials, native, reply, transition, change, sync, unclean, appCrashes>>
  BY DEF TurnOff, Overtakes
<1>2. epoch \in Nat /\ switches \in Nat /\ epoch' \in Nat /\ switches' \in Nat
  BY <1>1, CoordinatorTyped, ChangeTyped
<1>3. work' \in WorkRecord /\ work'.as = work.as /\ work'.pc = work.pc
  BY WorkTyped, OvertakesTyped DEF TurnOff
<1>4. turnOff' \in TurnOffRecord /\ turnOff'.pc = "clear"
  BY <1>1, <1>2 DEF TurnOffRecord
<1>5. \A s \in Syncs : sync[s].epoch \in Nat /\ sync[s].epoch <= epoch' /\ sync[s].epoch # epoch'
  BY <1>1, <1>2, CoordinatorTyped
<1>6. CoordinatorHolds'
  <2>1. CoordinatorHolds
    BY DEF PhoneInv
  <2>2. IF AtRest' THEN epoch' <= switches' + switches' ELSE epoch' + 1 <= switches' + switches'
    BY <1>1, <1>2, <2>1 DEF CoordinatorHolds, AtRest
  <2>3. optIn' \in {"unknown", "on", "off"} /\ pref' \in {"unset", "on", "off"} /\ busy' \in BOOLEAN
    BY <1>1, CoordinatorTyped
  <2> QED BY <1>1, <1>2, <1>4, <1>5, <2>1, <2>2, <2>3 DEF CoordinatorHolds
<1>7. ServerHolds' /\ DevsStay
  BY <1>1, SameServer
<1>8. SendersHold'
  BY <1>1, <1>3 DEF PhoneInv, SendersHold, ReplyKeepsItsAuthority
<1>9. CredentialTypes'
  BY <1>1 DEF PhoneInv, CredentialTypes, credentials
<1>10. Homes'
  <2>1. Got' = Got
    BY <1>1 DEF Got
  <2> QED BY <1>1, <1>3, <1>7, <2>1, HomesKeep, HomesMove DEF credentials
<1>11. Silence'
  BY <1>1, <1>4, <1>5 DEF PhoneInv, Silence, AtRest, Quiet, Fresh
<1> QED BY <1>6, <1>7, <1>8, <1>9, <1>10, <1>11 DEF PhoneInv

LEMMA TurnOffClearsHolds == ASSUME PhoneInv, TurnOffClears PROVE PhoneInv'
<1>1. /\ turnOff.pc = "clear" /\ turnOff' = [turnOff EXCEPT !.pc = "unregister"]
      /\ UNCHANGED <<serverState, credentials, coordinator, change, sync, work, switches, appCrashes>>
  BY DEF TurnOffClears
<1>2. turnOff' \in TurnOffRecord /\ turnOff'.pc = "unregister"
  BY <1>1, ChangeTyped DEF TurnOffRecord
<1>3. /\ unclean' \in BOOLEAN
      /\ (native' = NoCredential /\ reply' = Cancelled) \/ (unclean' /\ UNCHANGED <<native, reply>>)
      /\ ~unclean' => native' = NoCredential /\ reply' = Cancelled /\ \A s \in Syncs : ~Fresh(s)
  BY DEF TurnOffClears, Pressed, Fresh
<1>4. SendersHold' /\ (~unclean' => Quiet')
  BY <1>1, <1>3, ClearedHolds, SameSenders
<1>5. ServerHolds' /\ DevsStay
  BY <1>1, SameServer
<1>6. CredentialTypes'
  BY <1>1 DEF PhoneInv, CredentialTypes, credentials
<1>7. Homes'
  BY <1>1, <1>3, <1>5, ClearedHomes
<1>8. CoordinatorHolds'
  BY <1>1, <1>2, <1>3 DEF PhoneInv, CoordinatorHolds, AtRest, coordinator
<1>9. optIn # "unknown"
  BY <1>1 DEF PhoneInv, Silence
<1>10. Silence'
  BY <1>1, <1>2, <1>3, <1>4, <1>9 DEF PhoneInv, Silence, AtRest, Fresh, coordinator
<1> QED BY <1>4, <1>5, <1>6, <1>7, <1>8, <1>10 DEF PhoneInv

LEMMA TurnOffUnregistersHolds == ASSUME PhoneInv, TurnOffUnregisters PROVE PhoneInv'
<1>1. /\ turnOff.pc = "unregister" /\ RouteOff(DeviceToken) /\ cache' = Loaded
      /\ UNCHANGED <<code, url, saved, native, reply, optIn, pref, epoch, transition, change, sync, work, unclean, switches, appCrashes>>
  BY DEF TurnOffUnregisters
<1>2. turnOff' \in TurnOffRecord /\ turnOff'.pc = "none"
  <2>1. PICK lost \in BOOLEAN : turnOff' = [NoTurnOff EXCEPT !.again = lost /\ turnOff.epoch = epoch]
    BY DEF TurnOffUnregisters
  <2>2. PICK b \in BOOLEAN : b = (lost /\ turnOff.epoch = epoch)
    OBVIOUS
  <2>3. turnOff' = [NoTurnOff EXCEPT !.again = b]
    BY <2>1, <2>2
  <2> QED BY <2>3 DEF NoTurnOff, TurnOffRecord
<1>3. busy' \in BOOLEAN
  <2>1. busy' = (busy /\ turnOff.epoch # epoch)
    BY DEF TurnOffUnregisters
  <2> QED BY <2>1
<1>4. ServerHolds' /\ DevsStay
  BY <1>1, TokensTyped, RouteOffHolds DEF DeviceToken
<1>5. SendersHold'
  BY <1>1, SameSenders
<1>6. CredentialTypes'
  BY <1>1, TokensTyped DEF PhoneInv, CredentialTypes
<1>7. Homes'
  BY <1>1, <1>4, SameHomes
<1>8. CoordinatorHolds'
  BY <1>1, <1>2, <1>3 DEF PhoneInv, CoordinatorHolds, AtRest
<1>9. Silence'
  BY <1>1, <1>2 DEF PhoneInv, Silence, AtRest, Quiet, Fresh
<1> QED BY <1>4, <1>5, <1>6, <1>7, <1>8, <1>9 DEF PhoneInv

LEMMA AppCrashesHolds == ASSUME PhoneInv, AppCrashes PROVE PhoneInv'
<1>1. /\ cache' = NotLoaded /\ optIn' = "unknown" /\ epoch' = 0 /\ busy' = FALSE
      /\ transition' = [on |-> FALSE, optIn |-> "off"] /\ change' = NoChange /\ turnOff' = NoTurnOff
      /\ sync' = [s \in Syncs |-> NoSync] /\ work' = NoWork /\ appCrashes' = appCrashes + 1
      /\ unclean' = (unclean \/ ~AtRest \/ turnOff.pc # "none")
      /\ UNCHANGED <<serverState, url, saved, native, reply, pref, switches>>
  BY DEF AppCrashes
<1>2. unclean' \in BOOLEAN /\ (~unclean' => ~unclean /\ AtRest /\ turnOff.pc = "none")
  BY <1>1
<1>3. /\ change' \in ChangeRecord /\ change'.pc = "none" /\ change'.got = Nil
      /\ turnOff' \in TurnOffRecord /\ turnOff'.pc = "none"
  BY <1>1 DEF NoChange, ChangeRecord, ChangePcs, Places, Tokens, NoTurnOff, TurnOffRecord
<1>4. sync' \in [Syncs -> SyncRecord] /\ \A s \in Syncs : sync'[s].epoch = 0
  BY <1>1, NoSyncTyped
<1>5. transition' \in [on : BOOLEAN, optIn : {"on", "off"}] /\ ~transition'.on
  BY <1>1
<1>6. CoordinatorHolds'
  <2>1. pref \in {"unset", "on", "off"} /\ switches \in Nat /\ appCrashes \in Nat
    BY CoordinatorTyped, ChangeTyped
  <2>2. epoch' <= switches' + switches' /\ AtRest' /\ appCrashes' \in Nat /\ 0 <= epoch'
    BY <1>1, <1>3, <2>1 DEF AtRest
  <2>3. epoch' \in Nat /\ busy' \in BOOLEAN
    BY <1>1
  <2> QED BY <1>1, <1>2, <1>3, <1>4, <1>5, <2>1, <2>2, <2>3 DEF CoordinatorHolds
<1>7. ServerHolds' /\ DevsStay
  BY <1>1, SameServer
<1>8. SendersHold'
  BY <1>1, NoWorkTyped DEF PhoneInv, SendersHold, ReplyKeepsItsAuthority
<1>9. CredentialTypes'
  BY <1>1 DEF PhoneInv, CredentialTypes
<1>10. Homes'
  <2>1. HomeNow(Got')
    BY <1>3 DEF Got, HomeNow
  <2> QED BY <1>1, <1>7, <2>1, NoWorkTyped, HomesKeep, HomesMove
<1>11. Silence'
  BY <1>1, <1>2, <1>3, <1>5, CoordinatorTyped DEF PhoneInv, Silence, AtRest, Quiet
<1> QED BY <1>6, <1>7, <1>8, <1>9, <1>10, <1>11 DEF PhoneInv

LEMMA PhoneStep == ASSUME PhoneInv, [PhoneNext]_phoneVars PROVE PhoneInv'
<1>1. CASE UNCHANGED phoneVars
  <2>1. UNCHANGED <<serverState, credentials, native, reply, coordinator, change, turnOff, sync, work, history>>
    BY <1>1 DEF phoneVars, serverState, credentials, coordinator, history
  <2> QED BY <2>1, SameServer, ServerMoves
<1>2. ASSUME NEW o \in Origins, IssueCode(o) \/ \E c \in Codes : AskToPair(o, c) PROVE PhoneInv'
  BY <1>2, IssueCodeHolds, AskToPairHolds
<1>3. ASSUME NEW d \in Devs, RevokeDevice(d) \/ RetireRoute(d) PROVE PhoneInv'
  BY <1>3, RevokeDeviceHolds, RetireRouteHolds
<1>4. ASSUME NEW s \in Syncs, Press(s) \/ Permission(s) \/ SyncReads(s) \/ SyncRegisters(s) PROVE PhoneInv'
  BY <1>4, PressHolds, PermissionHolds, SyncReadsHolds, SyncRegistersHolds
<1>5. CASE RunWork \/ SendRegistration \/ AdmitRegistration \/ UpsertRegistration
  BY <1>5, RunWorkHolds, SendRegistrationHolds, AdmitRegistrationHolds, UpsertRegistrationHolds
<1>6. CASE StartChange("pair") \/ StartChange("logout") \/ ClearReplies \/ Unregister \/ RetirePrevious
           \/ ForgetToken \/ WriteToken \/ PublishOrigin \/ LogOut \/ Commit \/ Abort
  BY <1>6, StartChangeHolds, ClearRepliesHolds, UnregisterHolds, RetirePreviousHolds, ForgetTokenHolds,
     WriteTokenHolds, PublishOriginHolds, LogOutHolds, CommitHolds, AbortHolds
<1>7. CASE TurnOff \/ TurnOffClears \/ TurnOffUnregisters \/ QueueReply \/ PostReply \/ ReplyAnswered
           \/ Bootstrap \/ AppCrashes
  BY <1>7, TurnOffHolds, TurnOffClearsHolds, TurnOffUnregistersHolds, QueueReplyHolds, PostReplyHolds,
     ReplyAnsweredHolds, BootstrapHolds, AppCrashesHolds
<1> QED BY <1>1, <1>2, <1>3, <1>4, <1>5, <1>6, <1>7 DEF PhoneNext

LEMMA PhoneInvSafe == PhoneInv => PhoneSafe
<1> SUFFICES ASSUME PhoneInv PROVE PhoneSafe
  OBVIOUS
<1>1. PhoneTypeOK
  <2>1. epoch \in 0..(switches + switches)
    BY DEF PhoneInv, CoordinatorHolds
  <2>2. \A x \in {saved, native} : x.at \in Origins \cup {Nil} /\ x.token \in Devs \cup {Nil}
    BY DEF PhoneInv, CredentialTypes, SendersHold, Credential, Places, Tokens
  <2>3. change.got \in Devs \cup {Nil} /\ url \in Origins \cup {Nil}
    BY ChangeTyped DEF PhoneInv, CredentialTypes, ChangeRecord, Tokens, Places
  <2> QED BY <2>1, <2>2, <2>3 DEF PhoneTypeOK
<1>2. TokenGoesHome
  <2>1. Home(DeviceToken) /\ Home(native) /\ Home(work.as) /\ Home(reply.as)
    BY TokensTyped DEF DeviceToken, PhoneInv, Homes
  <2> QED BY <2>1 DEF TokenGoesHome, Home
<1>3. OneDevicePerCode /\ RevokedHasNoRoute
  BY DEF PhoneInv, ServerHolds, RevokedHasNoRoute
<1>4. QuietWithoutAuthority
  BY DEF PhoneInv, Silence, QuietWithoutAuthority, Quiet
<1>5. ReplyKeepsItsAuthority
  BY DEF PhoneInv, SendersHold
<1> QED BY <1>1, <1>2, <1>3, <1>4, <1>5 DEF PhoneSafe

\* Pairing and the changes of authority, for every number of origins, codes, devices,
\* overlapping syncs, changes and crashes of the app: a token goes only to the server that
\* issued it, a reply leaves under the authority it was written under, a code makes one
\* device, a revoked device has no route, and the native side stays without an authority
\* after a clearing that worked.
THEOREM PhoneIsSafe == PhoneSpec => []PhoneSafe
<1>1. PhoneInv /\ [PhoneNext]_phoneVars => PhoneInv'
  BY PhoneStep
<1> QED BY <1>1, PhoneInitHolds, PhoneInvSafe, PTL DEF PhoneSpec

-----------------------------------------------------------------------------
(* How the log reaches a screen.                                           *)

StreamHandler ==
  [at : {"off", "status", "events", "yield", "wait"}, cursor : Nat, ended : BOOLEAN,
   window : Seq(Nat), terminal : BOOLEAN, wakes : Seq(Nat), lagged : BOOLEAN]

StreamClient ==
  [at : {"closed", "loading", "rows", "running", "finished"}, ended : BOOLEAN,
   resume : Nat, high : Nat, prompts : SUBSET Asks, settled : SUBSET Asks]

StreamTyped ==
  /\ elog \in Seq(Rows) /\ Len(elog) <= MaxEvents /\ over \in BOOLEAN
  /\ conn \in StreamHandler /\ conn.cursor <= Len(elog) /\ Len(conn.wakes) <= WakeCap
  /\ wire \in Seq(Nat)
  /\ app \in StreamClient /\ app.resume <= app.high /\ app.high <= Len(elog)
  /\ breaks \in 0..MaxBreaks /\ loads \in 0..MaxLoads

\* The rows that may be shown are those not behind the end of the session.
Showable == {n \in 1..Len(elog) : \A m \in EndSeqs : n <= m}

\* The session ends once, and its status tells.
EndsOnce ==
  /\ over = (EndSeqs # {})
  /\ \A m, n \in EndSeqs : m = n

\* The window continues at the cursor; a handler that read a session as running
\* before it reads the rows has its end still ahead.
WindowHolds ==
  /\ conn.at # "yield" => conn.window = <<>>
  /\ \A i \in 1..Len(conn.window) :
       conn.window[i] = conn.cursor + i /\ conn.window[i] \in Showable
  /\ conn.at = "events" /\ ~conn.ended => \A n \in EndSeqs : conn.cursor < n

\* What is on the wire has no gap in itself, towards the client's mark or towards
\* the handler's cursor.
WireHolds ==
  /\ \A i \in 1..Len(wire) : wire[i] \in Showable
  /\ \A i, j \in 1..Len(wire) : j = i + 1 => wire[j] = wire[i] + 1
  /\ app.at \notin {"running", "finished"} => conn.at = "off" /\ wire = <<>>
  /\ app.at = "running" /\ wire # <<>> => wire[1] <= app.high + 1
  /\ conn.at # "off" /\ wire # <<>> => wire[Len(wire)] = conn.cursor
  /\ app.at = "running" /\ conn.at # "off" /\ wire = <<>> => conn.cursor <= app.high

StreamInv == StreamTyped /\ EndsOnce /\ WindowHolds /\ WireHolds /\ OpenPromptsShown

LEMMA RowShape ==
  ASSUME NEW e \in Rows
  PROVE  /\ e.kind = "approval" => e = Event("approval", e.ask) /\ e.ask \in Asks
         /\ e.kind = "approval_resolved" => e = Event("approval_resolved", e.ask) /\ e.ask \in Asks
BY DEF Rows, Event

LEMMA StreamInvHolds == StreamInv => StreamTypeOK /\ EndIsAFence /\ OpenPromptsShown
<1> SUFFICES ASSUME StreamInv PROVE StreamTypeOK /\ EndIsAFence
  BY DEF StreamInv
<1>1. StreamTypeOK
  <2> USE StreamAssumption
  <2>1. /\ elog \in Seq(Rows) /\ Len(elog) <= MaxEvents /\ over \in BOOLEAN
        /\ conn \in StreamHandler /\ conn.cursor <= Len(elog) /\ Len(conn.wakes) <= WakeCap
        /\ wire \in Seq(Nat)
        /\ app \in StreamClient /\ app.resume <= app.high /\ app.high <= Len(elog)
        /\ breaks \in 0..MaxBreaks /\ loads \in 0..MaxLoads
    BY DEF StreamInv, StreamTyped
  <2>2. Len(elog) \in Nat /\ DOMAIN elog = 1..Len(elog) /\ DOMAIN wire = 1..Len(wire)
    BY <2>1
  <2>3. \A i \in DOMAIN wire : wire[i] \in DOMAIN elog
    BY <2>2 DEF StreamInv, WireHolds, Showable
  <2>4. conn.at \in {"off", "status", "events", "yield", "wait"} /\ conn.cursor \in 0..MaxEvents
    BY <2>1, <2>2 DEF StreamHandler
  <2>5. /\ app.at \in {"closed", "loading", "rows", "running", "finished"}
        /\ app.high \in 0..MaxEvents
        /\ app.prompts \subseteq Asks /\ app.settled \subseteq Asks
    BY <2>1, <2>2 DEF StreamClient
  <2> QED
    BY <2>1, <2>3, <2>4, <2>5 DEF StreamTypeOK
<1>2. EndIsAFence
  <2> SUFFICES ASSUME NEW i \in DOMAIN wire PROVE wire[i] <= Fence
    BY DEF EndIsAFence
  <2>1. wire[i] \in Showable
    BY DEF StreamInv, StreamTyped, WireHolds
  <2>2. EndSeqs = {} => Fence = Len(elog)
    BY DEF Fence
  <2>3. EndSeqs # {} => Fence \in EndSeqs
    BY DEF Fence
  <2> QED
    BY <2>1, <2>2, <2>3 DEF Showable, StreamInv, StreamTyped
<1> QED
  BY <1>1, <1>2

LEMMA StreamInitHolds == StreamInit => StreamInv
<1> SUFFICES ASSUME StreamInit PROVE StreamInv
  OBVIOUS
<1> USE StreamAssumption
<1>1. EndSeqs = {}
  BY DEF StreamInit, EndSeqs
<1>2. StreamTyped
  <2>1. Off \in StreamHandler /\ Off.cursor = 0 /\ Off.wakes = <<>>
    BY DEF Off, StreamHandler
  <2>2. Closed \in StreamClient /\ Closed.resume = 0 /\ Closed.high = 0
    BY DEF Closed, StreamClient
  <2>3. elog \in Seq(Rows) /\ wire \in Seq(Nat) /\ Len(elog) = 0 /\ Len(conn.wakes) = 0
    BY <2>1 DEF StreamInit
  <2>4. conn = Off /\ app = Closed /\ over = FALSE /\ breaks = 0 /\ loads = 0
    BY DEF StreamInit
  <2>5. /\ conn \in StreamHandler /\ conn.cursor <= Len(elog) /\ Len(conn.wakes) <= WakeCap
        /\ app \in StreamClient /\ app.resume <= app.high /\ app.high <= Len(elog)
        /\ Len(elog) <= MaxEvents /\ breaks \in 0..MaxBreaks /\ loads \in 0..MaxLoads
    BY <2>1, <2>2, <2>3, <2>4
  <2> QED
    BY <2>3, <2>4, <2>5 DEF StreamTyped
<1>3. EndsOnce
  BY <1>1 DEF EndsOnce, StreamInit
<1>4. Len(<<>>) = 0
  OBVIOUS
<1>5. WindowHolds /\ WireHolds
  BY <1>1, <1>4 DEF WindowHolds, WireHolds, StreamInit, Off, Closed
<1>6. OpenPromptsShown
  BY DEF OpenPromptsShown, StreamInit, Closed
<1> QED
  BY <1>2, <1>3, <1>5, <1>6 DEF StreamInv

\* The parts that depend on the log alone, when it stays.
LEMMA LogStays ==
  ASSUME elog' = elog
  PROVE  /\ EndSeqs' = EndSeqs
         /\ Showable' = Showable
         /\ EndsOnce /\ over' = over => EndsOnce'
         /\ app' = app /\ OpenPromptsShown => OpenPromptsShown'
<1>1. EndSeqs' = EndSeqs
  BY DEF EndSeqs
<1>2. Showable' = Showable
  BY <1>1 DEF Showable
<1>3. EndsOnce /\ over' = over => EndsOnce'
  BY <1>1 DEF EndsOnce
<1>4. app' = app /\ OpenPromptsShown => OpenPromptsShown'
  BY DEF OpenPromptsShown
<1> QED
  BY <1>1, <1>2, <1>3, <1>4

\* A row is appended: what was there stays, and a new end is behind everything.
LEMMA AppendStep ==
  ASSUME StreamInv, NEW e \in Rows, NEW ours \in BOOLEAN, AppendRow(e, ours)
  PROVE  StreamInv'
<1> USE StreamAssumption
<1> DEFINE N == Len(elog)
<1>1. elog \in Seq(Rows) /\ N \in Nat /\ N < MaxEvents
  BY DEF StreamInv, StreamTyped, AppendRow
<1>2. /\ elog' \in Seq(Rows) /\ Len(elog') = N + 1
      /\ \A i \in 1..N : elog'[i] = elog[i]
      /\ elog'[N + 1] = e
  BY <1>1 DEF AppendRow
<1>3. DOMAIN elog = 1..N /\ DOMAIN elog' = 1..(N + 1)
  BY <1>1, <1>2
<1>4. EndSeqs' = EndSeqs \cup (IF e.kind = "session_end" THEN {N + 1} ELSE {})
  BY <1>1, <1>2, <1>3 DEF EndSeqs
<1>5. EndSeqs \subseteq 1..N
  BY <1>3 DEF EndSeqs
<1>6. EndsOnce'
  BY <1>4 DEF EndsOnce, StreamInv, AppendRow
<1>7. Showable \subseteq Showable'
  BY <1>1, <1>2, <1>4 DEF Showable
<1>8. /\ conn'.at = conn.at /\ conn'.cursor = conn.cursor /\ conn'.ended = conn.ended
      /\ conn'.window = conn.window
      /\ conn' \in StreamHandler /\ Len(conn'.wakes) <= WakeCap
  <2>1. conn \in StreamHandler /\ Len(conn.wakes) <= WakeCap
    BY DEF StreamInv, StreamTyped
  <2>2. conn.wakes \in Seq(Nat)
    BY <2>1 DEF StreamHandler
  <2>3. CASE ~ours \/ conn.at = "off"
    BY <2>1, <2>3 DEF AppendRow, Woken
  <2>4. CASE ours /\ conn.at # "off" /\ Len(conn.wakes) < WakeCap
    <3>1. conn' = [conn EXCEPT !.wakes = Append(conn.wakes, N + 1)]
      BY <2>4 DEF AppendRow, Woken
    <3>2. Append(conn.wakes, N + 1) \in Seq(Nat) /\ Len(Append(conn.wakes, N + 1)) <= WakeCap
      BY <2>2, <2>4, <1>1
    <3> QED
      BY <3>1, <3>2, <2>1 DEF StreamHandler
  <2>5. CASE ours /\ conn.at # "off" /\ ~(Len(conn.wakes) < WakeCap)
    <3>1. conn' = [conn EXCEPT !.wakes = Append(Tail(conn.wakes), N + 1), !.lagged = TRUE]
      BY <2>5 DEF AppendRow, Woken
    <3>2. conn.wakes # <<>>
      BY <2>2, <2>5
    <3>3. /\ Append(Tail(conn.wakes), N + 1) \in Seq(Nat)
          /\ Len(Append(Tail(conn.wakes), N + 1)) <= WakeCap
      BY <2>1, <2>2, <3>2, <1>1
    <3> QED
      BY <3>1, <3>3, <2>1 DEF StreamHandler
  <2> QED
    BY <2>3, <2>4, <2>5
<1>9. wire' = wire /\ app' = app /\ breaks' = breaks /\ loads' = loads
  BY DEF AppendRow
<1>10. StreamTyped'
  <2>1. over' \in BOOLEAN
    BY DEF AppendRow, StreamInv, StreamTyped
  <2>2. conn.cursor \in Nat /\ app.high \in Nat
    BY DEF StreamInv, StreamTyped, StreamHandler, StreamClient
  <2> QED
    BY <1>1, <1>2, <1>8, <1>9, <2>1, <2>2 DEF StreamInv, StreamTyped
<1>11. WindowHolds'
  <2>1. /\ conn.at # "yield" => conn.window = <<>>
        /\ \A i \in 1..Len(conn.window) :
             conn.window[i] = conn.cursor + i /\ conn.window[i] \in Showable
        /\ conn.at = "events" /\ ~conn.ended => \A n \in EndSeqs : conn.cursor < n
    BY DEF StreamInv, WindowHolds
  <2>2. conn.cursor \in Nat /\ conn.cursor <= N
    BY DEF StreamInv, StreamTyped, StreamHandler
  <2>3. \A i \in 1..Len(conn.window) : conn.window[i] \in Showable'
    BY <2>1, <1>7, <1>8
  <2>4. conn.cursor < N + 1
    BY <2>2, <1>1
  <2> QED
    BY <2>1, <2>3, <2>4, <1>4, <1>8 DEF WindowHolds
<1>12. WireHolds'
  BY <1>7, <1>8, <1>9 DEF StreamInv, WireHolds
<1>13. OpenPromptsShown'
  <2>1. app.high \in Nat /\ app.high <= N
    BY DEF StreamInv, StreamTyped, StreamClient
  <2>2. \A n \in 1..app.high : elog'[n] = elog[n]
    BY <2>1, <1>1, <1>2
  <2> QED
    BY <2>1, <2>2, <1>9 DEF StreamInv, OpenPromptsShown
<1> QED
  BY <1>6, <1>10, <1>11, <1>12, <1>13 DEF StreamInv

\* The steps of the handler that write nothing.
LEMMA HandlerReads ==
  ASSUME StreamInv, ReadStatus \/ ReadEvents \/ PollTick \/ Wake \/ WindowDone
  PROVE  StreamInv'
<1> USE StreamAssumption
<1>1. elog' = elog /\ over' = over /\ wire' = wire /\ app' = app /\ breaks' = breaks /\ loads' = loads
  BY DEF ReadStatus, ReadEvents, PollTick, Wake, WindowDone
<1>2. conn \in StreamHandler /\ conn.at # "off" /\ conn.cursor <= Len(elog)
      /\ Len(conn.wakes) <= WakeCap /\ Len(elog) \in Nat /\ elog \in Seq(Rows)
      /\ conn.cursor \in Nat
  BY DEF StreamInv, StreamTyped, StreamHandler, ReadStatus, ReadEvents, PollTick, Wake, WindowDone
<1>3. EndSeqs \subseteq 1..Len(elog)
  BY <1>2 DEF EndSeqs
<1>4. Showable' = Showable
  BY <1>1, LogStays
<1>5. EndsOnce' /\ OpenPromptsShown' /\ EndSeqs' = EndSeqs
  BY <1>1, LogStays DEF StreamInv
<1>6. ASSUME conn' = Off \/ conn'.cursor = conn.cursor
      PROVE  WireHolds'
  <2>1. conn'.at # "off" => conn'.cursor = conn.cursor
    BY <1>6 DEF Off
  <2>2. \A i \in 1..Len(wire) : wire[i] \in Showable'
    BY <1>4 DEF StreamInv, WireHolds
  <2> QED
    BY <1>1, <1>2, <2>1, <2>2 DEF StreamInv, WireHolds
<1>7. ASSUME conn' \in StreamHandler, conn'.cursor <= Len(elog), Len(conn'.wakes) <= WakeCap
      PROVE  StreamTyped'
  BY <1>1, <1>7 DEF StreamInv, StreamTyped
<1>8. conn.at # "yield" => conn.window = <<>>
  BY DEF StreamInv, WindowHolds
<1>9. CASE ReadStatus
  <2>1. conn.at = "status" /\ conn' = [conn EXCEPT !.at = "events", !.ended = over]
    BY <1>9 DEF ReadStatus
  <2>2. /\ conn' \in StreamHandler /\ conn'.cursor = conn.cursor /\ conn'.window = <<>>
        /\ conn'.wakes = conn.wakes /\ conn'.ended = over
    BY <1>2, <1>8, <2>1 DEF StreamInv, StreamTyped, StreamHandler
  <2>3. over \/ EndSeqs = {}
    BY DEF StreamInv, EndsOnce
  <2>4. WindowHolds'
    BY <2>2, <2>3, <1>5 DEF WindowHolds
  <2> QED
    BY <2>2, <2>4, <1>2, <1>5, <1>6, <1>7 DEF StreamInv
<1>10. CASE ReadEvents
  <2> DEFINE W == Window(conn.cursor, conn.ended)
  <2>1. /\ conn.at = "events"
        /\ conn' = [conn EXCEPT !.at = "yield", !.window = W,
                      !.terminal = conn.ended \/ EndSeqs \cap After(conn.cursor) # {}]
    BY <1>10 DEF ReadEvents
  <2>2. ~conn.ended => \A n \in EndSeqs : conn.cursor < n
    BY <2>1 DEF StreamInv, WindowHolds
  <2>3. EndSeqs \cap After(conn.cursor) = {n \in EndSeqs : n > conn.cursor}
    <3>1. After(conn.cursor) = {n \in 1..Len(elog) : n > conn.cursor}
      BY <1>2 DEF After
    <3> QED
      BY <3>1, <1>3
  <2>4. \A m, n \in EndSeqs : m = n
    BY DEF StreamInv, EndsOnce
  <2>5. W \in Seq(Nat) /\ \A i \in 1..Len(W) : W[i] = conn.cursor + i /\ W[i] \in Showable
    <3>1. CASE EndSeqs \cap After(conn.cursor) = {} /\ conn.ended
      BY <3>1 DEF Window
    <3>2. CASE EndSeqs \cap After(conn.cursor) = {} /\ ~conn.ended
      <4>1. EndSeqs = {}
        BY <3>2, <2>2, <2>3, <1>2, <1>3
      <4>2. W = [k \in 1..(Len(elog) - conn.cursor) |-> conn.cursor + k]
        BY <3>2 DEF Window
      <4>3. W \in Seq(Nat) /\ Len(W) = Len(elog) - conn.cursor
        BY <4>2, <1>2
      <4> QED
        BY <4>1, <4>2, <4>3, <1>2 DEF Showable
    <3>3. CASE EndSeqs \cap After(conn.cursor) # {}
      <4>1. PICK f \in EndSeqs : f > conn.cursor
        BY <3>3, <2>3
      <4>2. Fence = f /\ EndSeqs = {f} /\ f \in 1..Len(elog)
        BY <4>1, <2>4, <1>3 DEF Fence
      <4>3. W = [k \in 1..(f - conn.cursor) |-> conn.cursor + k]
        BY <3>3, <4>2 DEF Window
      <4>4. f - conn.cursor \in Nat /\ \A k \in 1..(f - conn.cursor) : conn.cursor + k \in 1..f
        BY <4>1, <4>2, <1>2
      <4>5. W \in Seq(Nat) /\ Len(W) = f - conn.cursor
        BY <4>3, <4>4
      <4> QED
        BY <4>2, <4>3, <4>4, <4>5, <1>2 DEF Showable
    <3> QED
      BY <3>1, <3>2, <3>3
  <2> HIDE DEF W
  <2>6. /\ conn' \in StreamHandler /\ conn'.cursor = conn.cursor /\ conn'.window = W
        /\ conn'.wakes = conn.wakes /\ conn'.at = "yield"
    BY <1>2, <2>1, <2>5 DEF StreamHandler
  <2>7. WindowHolds'
    BY <2>5, <2>6, <1>4 DEF WindowHolds
  <2> QED
    BY <2>6, <2>7, <1>2, <1>5, <1>6, <1>7 DEF StreamInv
<1>11. CASE PollTick \/ Wake
  <2>1. conn.at = "wait"
    BY <1>11 DEF PollTick, Wake
  <2>2. conn.wakes \in Seq(Nat)
    BY <1>2 DEF StreamHandler
  <2>3. /\ conn' \in StreamHandler /\ conn'.cursor = conn.cursor /\ conn'.window = conn.window
        /\ Len(conn'.wakes) <= WakeCap /\ conn'.at \in {"wait", "status"}
    <3>1. CASE PollTick
      BY <3>1, <1>2 DEF PollTick, StreamHandler
    <3>2. CASE Wake /\ conn' = [conn EXCEPT !.at = "status", !.lagged = FALSE]
      BY <3>2, <1>2 DEF StreamHandler
    <3>3. CASE /\ conn.wakes # <<>>
               /\ conn' = [conn EXCEPT !.wakes = Tail(@),
                             !.at = IF Head(conn.wakes) <= conn.cursor THEN @ ELSE "status"]
      <4>1. Tail(conn.wakes) \in Seq(Nat) /\ Len(Tail(conn.wakes)) <= WakeCap
        BY <3>3, <2>2, <1>2
      <4> QED
        BY <4>1, <3>3, <2>1, <1>2 DEF StreamHandler
    <3> QED
      BY <1>11, <3>1, <3>2, <3>3 DEF Wake
  <2>4. WindowHolds'
    BY <2>1, <2>3, <1>8 DEF WindowHolds
  <2> QED
    BY <2>3, <2>4, <1>2, <1>5, <1>6, <1>7 DEF StreamInv
<1>12. CASE WindowDone
  <2>1. conn.window = <<>> /\ conn.at = "yield"
    BY <1>12 DEF WindowDone
  <2>2. CASE conn.terminal
    <3>1. conn' = Off
      BY <1>12, <2>2 DEF WindowDone
    <3>2. /\ Off \in StreamHandler /\ Off.cursor = 0 /\ Len(Off.wakes) = 0 /\ Off.window = <<>>
          /\ Off.at = "off"
      BY DEF Off, StreamHandler
    <3>3. WindowHolds'
      BY <3>1, <3>2 DEF WindowHolds
    <3>4. WireHolds'
      BY <3>1, <1>6
    <3>5. StreamTyped'
      BY <3>1, <3>2, <1>2, <1>7
    <3> QED
      BY <3>3, <3>4, <3>5, <1>5 DEF StreamInv
  <2>3. CASE ~conn.terminal
    <3>1. conn' = [conn EXCEPT !.at = "wait"]
      BY <1>12, <2>3 DEF WindowDone
    <3>2. /\ conn' \in StreamHandler /\ conn'.cursor = conn.cursor /\ conn'.window = <<>>
          /\ conn'.wakes = conn.wakes /\ conn'.at = "wait"
      BY <3>1, <2>1, <1>2 DEF StreamHandler
    <3>3. WindowHolds'
      BY <3>2 DEF WindowHolds
    <3> QED
      BY <3>2, <3>3, <1>2, <1>5, <1>6, <1>7 DEF StreamInv
  <2> QED
    BY <2>2, <2>3
<1> QED
  BY <1>9, <1>10, <1>11, <1>12

\* A connection begins where the client is, or ends.
LEMMA ConnectionSteps ==
  ASSUME StreamInv, Connect \/ Break \/ StartApp
  PROVE  StreamInv'
<1> USE StreamAssumption
<1>1. elog' = elog /\ over' = over
  BY DEF Connect, Break, StartApp
<1>2. EndsOnce' /\ EndSeqs' = EndSeqs /\ Showable' = Showable
  BY <1>1, LogStays DEF StreamInv
<1>3. /\ elog \in Seq(Rows) /\ Len(elog) \in Nat /\ app \in StreamClient /\ app.resume <= app.high
      /\ app.resume \in Nat /\ app.high \in Nat /\ app.high <= Len(elog)
      /\ wire \in Seq(Nat) /\ breaks \in 0..MaxBreaks /\ loads \in 0..MaxLoads
      /\ Len(elog) <= MaxEvents /\ over \in BOOLEAN
  BY DEF StreamInv, StreamTyped, StreamClient
<1>4. /\ Off \in StreamHandler /\ Off.cursor = 0 /\ Len(Off.wakes) = 0 /\ Off.window = <<>>
      /\ Off.at = "off" /\ Len(Off.window) = 0
  BY DEF Off, StreamHandler
<1>5. CASE Connect
  <2>1. /\ app.at = "running" /\ wire = <<>> /\ wire' = <<>> /\ app' = app
        /\ breaks' = breaks /\ loads' = loads
        /\ conn' = [Off EXCEPT !.at = "status", !.cursor = app.resume]
    BY <1>5 DEF Connect
  <2>2. /\ conn' \in StreamHandler /\ conn'.at = "status" /\ conn'.cursor = app.resume
        /\ conn'.window = <<>> /\ Len(conn'.wakes) = 0
    BY <2>1, <1>3, <1>4 DEF StreamHandler
  <2>3. StreamTyped'
    BY <2>1, <2>2, <1>1, <1>3 DEF StreamTyped
  <2>4. WindowHolds'
    BY <2>2 DEF WindowHolds
  <2>5. WireHolds'
    BY <2>1, <2>2, <1>3 DEF WireHolds
  <2>6. OpenPromptsShown'
    BY <2>1, <1>1, LogStays DEF StreamInv
  <2> QED
    BY <2>3, <2>4, <2>5, <2>6, <1>2 DEF StreamInv
<1>6. CASE Break
  <2>1. /\ conn.at # "off" /\ conn' = Off /\ app' = app /\ loads' = loads
        /\ breaks < MaxBreaks /\ breaks' = breaks + 1
    BY <1>6 DEF Break
  <2>2. PICK n \in 0..Len(wire) : wire' = SubSeq(wire, 1, n)
    BY <1>6 DEF Break
  <2>3. wire' \in Seq(Nat) /\ Len(wire') = n /\ \A i \in 1..n : wire'[i] = wire[i]
    BY <2>2, <1>3
  <2>4. Len(wire) \in Nat /\ (wire' # <<>> => wire # <<>> /\ n > 0)
    BY <2>3, <1>3
  <2>5. StreamTyped'
    BY <2>1, <2>3, <1>1, <1>3, <1>4 DEF StreamTyped
  <2>6. WindowHolds'
    BY <2>1, <1>4 DEF WindowHolds
  <2>7. WireHolds'
    <3>1. \A i \in 1..Len(wire') : i \in 1..Len(wire) /\ wire'[i] = wire[i]
      BY <2>3, <2>4
    <3>2. \A i \in 1..Len(wire') : wire'[i] \in Showable'
      BY <3>1, <1>2 DEF StreamInv, WireHolds
    <3>3. \A i, j \in 1..Len(wire') : j = i + 1 => wire'[j] = wire'[i] + 1
      BY <3>1 DEF StreamInv, WireHolds
    <3>4. app.at \in {"running", "finished"}
      BY <2>1 DEF StreamInv, WireHolds
    <3>5. app.at = "running" /\ wire' # <<>> => wire'[1] <= app.high + 1
      BY <2>3, <2>4 DEF StreamInv, WireHolds
    <3> QED
      BY <2>1, <1>4, <3>2, <3>3, <3>4, <3>5 DEF WireHolds
  <2>8. OpenPromptsShown'
    BY <2>1, <1>1, LogStays DEF StreamInv
  <2> QED
    BY <2>5, <2>6, <2>7, <2>8, <1>2 DEF StreamInv
<1>7. CASE StartApp
  <2>1. /\ conn' = Off /\ wire' = <<>> /\ breaks' = breaks
        /\ loads < MaxLoads /\ loads' = loads + 1
        /\ app' = [app EXCEPT !.at = "loading"]
    BY <1>7 DEF StartApp
  <2>2. /\ app' \in StreamClient /\ app'.at = "loading" /\ app'.resume = app.resume
        /\ app'.high = app.high
    BY <2>1, <1>3 DEF StreamClient
  <2>3. StreamTyped'
    BY <2>1, <2>2, <1>1, <1>3, <1>4 DEF StreamTyped
  <2>4. WindowHolds'
    BY <2>1, <1>4 DEF WindowHolds
  <2>5. WireHolds'
    BY <2>1, <2>2, <1>4 DEF WireHolds
  <2>6. OpenPromptsShown'
    BY <2>2 DEF OpenPromptsShown
  <2> QED
    BY <2>3, <2>4, <2>5, <2>6, <1>2 DEF StreamInv
<1> QED
  BY <1>5, <1>6, <1>7

\* A row goes out: it follows what is on the wire, or what the client has.
LEMMA YieldStep ==
  ASSUME StreamInv, Yield
  PROVE  StreamInv'
<1> USE StreamAssumption
<1> DEFINE w == conn.window
<1>1. /\ conn.at = "yield" /\ w # <<>> /\ elog' = elog /\ over' = over /\ app' = app
      /\ breaks' = breaks /\ loads' = loads
      /\ conn' = [conn EXCEPT !.cursor = Head(w), !.window = Tail(w)]
      /\ wire' = Append(wire, Head(w))
  BY DEF Yield
<1>2. /\ conn \in StreamHandler /\ conn.cursor \in Nat /\ w \in Seq(Nat) /\ wire \in Seq(Nat)
      /\ elog \in Seq(Rows) /\ Len(elog) \in Nat /\ app \in StreamClient /\ app.high \in Nat
  BY DEF StreamInv, StreamTyped, StreamHandler, StreamClient
<1>3. EndsOnce' /\ OpenPromptsShown' /\ Showable' = Showable
  BY <1>1, LogStays DEF StreamInv
<1>4. \A i \in 1..Len(w) : w[i] = conn.cursor + i /\ w[i] \in Showable
  BY DEF StreamInv, WindowHolds
<1>5. /\ Len(w) \in Nat \ {0} /\ Head(w) = conn.cursor + 1 /\ Head(w) \in Showable
      /\ Head(w) \in Nat
  <2>1. Len(w) \in Nat \ {0} /\ Head(w) = w[1]
    BY <1>1, <1>2
  <2>2. 1 \in 1..Len(w)
    BY <2>1
  <2> QED
    BY <2>1, <2>2, <1>2, <1>4
<1>6. /\ Tail(w) \in Seq(Nat) /\ Len(Tail(w)) = Len(w) - 1
      /\ \A i \in 1..Len(Tail(w)) : Tail(w)[i] = w[i + 1]
  BY <1>1, <1>2
<1>7. /\ wire' \in Seq(Nat) /\ Len(wire') = Len(wire) + 1 /\ Len(wire) \in Nat
      /\ \A i \in 1..Len(wire) : wire'[i] = wire[i]
      /\ wire'[Len(wire) + 1] = Head(w) /\ wire' # <<>>
  <2>1. /\ wire' \in Seq(Nat) /\ Len(wire') = Len(wire) + 1 /\ Len(wire) \in Nat
        /\ \A i \in 1..Len(wire) : wire'[i] = wire[i]
        /\ wire'[Len(wire) + 1] = Head(w)
    BY <1>1, <1>2, <1>5
  <2> QED
    BY <2>1
<1>8. /\ conn' \in StreamHandler /\ conn'.cursor = Head(w) /\ conn'.window = Tail(w)
      /\ conn'.wakes = conn.wakes /\ conn'.at = "yield"
  BY <1>1, <1>2, <1>5, <1>6 DEF StreamHandler
<1>9. Head(w) \in Nat /\ Head(w) <= Len(elog)
  BY <1>2, <1>5 DEF Showable
<1> HIDE DEF w
<1>10. StreamTyped'
  BY <1>1, <1>7, <1>8, <1>9 DEF StreamInv, StreamTyped
<1>11. WindowHolds'
  <2>1. \A i \in 1..Len(Tail(w)) : i + 1 \in 1..Len(w) /\ w[i + 1] = conn.cursor + (i + 1)
    BY <1>4, <1>5, <1>6
  <2>2. \A i \in 1..Len(Tail(w)) : Tail(w)[i] = Head(w) + i /\ Tail(w)[i] \in Showable
    <3> SUFFICES ASSUME NEW i \in 1..Len(Tail(w))
                 PROVE  Tail(w)[i] = Head(w) + i /\ Tail(w)[i] \in Showable
      OBVIOUS
    <3>1. i \in Nat /\ Tail(w)[i] = w[i + 1] /\ w[i + 1] \in Showable
      BY <2>1, <1>4, <1>6
    <3>2. w[i + 1] = (conn.cursor + 1) + i
      BY <2>1, <3>1, <1>2
    <3> QED
      BY <3>1, <3>2, <1>5
  <2> QED
    BY <2>2, <1>3, <1>8 DEF WindowHolds
<1>12. WireHolds'
  <2>1. \A i \in 1..Len(wire') : i \in 1..Len(wire) \/ i = Len(wire) + 1
    BY <1>7
  <2>2. \A i \in 1..Len(wire') : wire'[i] \in Showable'
    BY <2>1, <1>3, <1>5, <1>7 DEF StreamInv, WireHolds
  <2>3. app.at \in {"running", "finished"}
    BY <1>1 DEF StreamInv, WireHolds
  <2>4. ASSUME app.at = "running"
        PROVE  wire'[1] <= app.high + 1
    <3>1. CASE wire = <<>>
      <4>1. conn.cursor <= app.high
        BY <2>4, <3>1, <1>1 DEF StreamInv, WireHolds
      <4>2. wire'[1] = Head(w)
        BY <3>1, <1>7
      <4> QED
        BY <4>1, <4>2, <1>2, <1>5
    <3>2. CASE wire # <<>>
      <4>1. wire[1] <= app.high + 1
        BY <3>2, <2>4 DEF StreamInv, WireHolds
      <4>2. wire'[1] = wire[1]
        BY <3>2, <1>2, <1>7
      <4> QED
        BY <4>1, <4>2
    <3> QED
      BY <3>1, <3>2
  <2>5. \A i, j \in 1..Len(wire') : j = i + 1 => wire'[j] = wire'[i] + 1
    <3> SUFFICES ASSUME NEW i \in 1..Len(wire'), NEW j \in 1..Len(wire'), j = i + 1
                 PROVE  wire'[j] = wire'[i] + 1
      OBVIOUS
    <3>1. CASE j \in 1..Len(wire)
      BY <3>1, <1>7 DEF StreamInv, WireHolds
    <3>2. CASE j = Len(wire) + 1
      <4>1. i = Len(wire) /\ wire # <<>> /\ i \in 1..Len(wire)
        BY <3>2, <1>2, <1>7
      <4>2. wire[i] = conn.cursor
        BY <4>1, <1>1 DEF StreamInv, WireHolds
      <4> QED
        BY <4>1, <4>2, <3>2, <1>5, <1>7
    <3> QED
      BY <3>1, <3>2, <2>1
  <2> QED
    BY <2>2, <2>3, <2>4, <2>5, <1>1, <1>7, <1>8 DEF WireHolds
<1> QED
  BY <1>3, <1>10, <1>11, <1>12 DEF StreamInv

\* The load finds what is open, and puts the mark at the end of the log.
LEMMA LoadSteps ==
  ASSUME StreamInv, LoadStatus \/ LoadRows
  PROVE  StreamInv'
<1>1. /\ elog' = elog /\ over' = over /\ conn' = conn /\ wire' = wire
      /\ breaks' = breaks /\ loads' = loads
  BY DEF LoadStatus, LoadRows
<1>2. EndsOnce' /\ EndSeqs' = EndSeqs /\ Showable' = Showable
  BY <1>1, LogStays DEF StreamInv
<1>3. /\ app \in StreamClient /\ over \in BOOLEAN
      /\ elog \in Seq(Rows) /\ Len(elog) \in Nat
  BY DEF StreamInv, StreamTyped
<1>4. app.at \in {"loading", "rows"} /\ conn.at = "off" /\ wire = <<>>
  BY DEF LoadStatus, LoadRows, StreamInv, WireHolds
<1>5. WindowHolds'
  BY <1>1, <1>2 DEF StreamInv, WindowHolds
<1>6. ASSUME app' \in StreamClient, app'.resume <= app'.high, app'.high <= Len(elog)
      PROVE  StreamTyped' /\ WireHolds'
  <2>1. StreamTyped'
    BY <1>1, <1>6 DEF StreamInv, StreamTyped
  <2>2. WireHolds'
    BY <1>1, <1>4 DEF WireHolds
  <2> QED
    BY <2>1, <2>2
<1>7. CASE LoadStatus
  <2>1. app' = [Closed EXCEPT !.at = "rows", !.ended = over]
    BY <1>7 DEF LoadStatus
  <2>2. app' \in StreamClient /\ app'.resume = 0 /\ app'.high = 0 /\ app'.at = "rows"
    BY <2>1, <1>3 DEF Closed, StreamClient
  <2>3. OpenPromptsShown'
    BY <2>2 DEF OpenPromptsShown
  <2> QED
    BY <2>2, <2>3, <1>2, <1>3, <1>5, <1>6 DEF StreamInv
<1>8. CASE LoadRows
  <2>1. app' = [app EXCEPT !.at = IF app.ended THEN "finished" ELSE "running",
                  !.resume = Len(elog), !.high = Len(elog), !.prompts = OpenAsks]
    BY <1>8 DEF LoadRows
  <2>2. OpenAsks \subseteq Asks
    BY DEF OpenAsks
  <2>3. /\ app' \in StreamClient /\ app'.resume = Len(elog) /\ app'.high = Len(elog)
        /\ app'.prompts = OpenAsks
    BY <2>1, <2>2, <1>3 DEF StreamClient
  <2>4. OpenPromptsShown'
    <3> SUFFICES ASSUME NEW n \in 1..Len(elog), elog[n].kind = "approval",
                        ~(\E m \in 1..Len(elog) : elog[m] = Event("approval_resolved", elog[n].ask))
                 PROVE  elog[n].ask \in OpenAsks
      BY <2>3, <1>1 DEF OpenPromptsShown, Event
    <3>1. elog[n] \in Rows /\ DOMAIN elog = 1..Len(elog)
      BY <1>3
    <3>2. elog[n] = Event("approval", elog[n].ask) /\ elog[n].ask \in Asks
      BY <3>1, RowShape
    <3> QED
      BY <3>1, <3>2 DEF OpenAsks, Asked, Resolved
  <2> QED
    BY <2>3, <2>4, <1>2, <1>3, <1>5, <1>6 DEF StreamInv
<1> QED
  BY <1>7, <1>8

\* The client takes the row that follows its mark, or one it has had.
LEMMA HandleStep ==
  ASSUME StreamInv, Handle
  PROVE  /\ StreamInv'
         /\ app'.high \in {app.high, app.high + 1}
<1> DEFINE n == Head(wire)
           e == elog[n]
<1>1. /\ app.at = "running" /\ wire # <<>> /\ wire' = Tail(wire)
      /\ elog' = elog /\ over' = over /\ conn' = conn /\ breaks' = breaks /\ loads' = loads
      /\ app' = IF n <= app.high THEN app
                ELSE [app EXCEPT
                  !.high = n,
                  !.resume = IF Remembered(e) THEN n ELSE @,
                  !.at = IF e.kind = "session_end" THEN "finished" ELSE @,
                  !.prompts = IF e.kind = "approval" THEN @ \cup {e.ask} ELSE @,
                  !.settled = IF e.kind = "approval_resolved" THEN @ \cup {e.ask} ELSE @]
  BY DEF Handle
<1>2. EndsOnce' /\ EndSeqs' = EndSeqs /\ Showable' = Showable
  BY <1>1, LogStays DEF StreamInv
<1>3. /\ app \in StreamClient /\ app.high \in Nat /\ app.resume \in Nat /\ app.resume <= app.high
      /\ app.high <= Len(elog)
      /\ wire \in Seq(Nat) /\ elog \in Seq(Rows) /\ Len(elog) \in Nat
      /\ conn \in StreamHandler /\ conn.cursor \in Nat
  BY DEF StreamInv, StreamTyped, StreamClient, StreamHandler
<1>4. /\ Len(wire) \in Nat \ {0} /\ n = wire[1]
      /\ wire' \in Seq(Nat) /\ Len(wire') = Len(wire) - 1
      /\ \A i \in 1..Len(wire') : i + 1 \in 1..Len(wire) /\ wire'[i] = wire[i + 1]
  BY <1>1, <1>3
<1>5. n \in 1..Len(elog) /\ n <= app.high + 1
  <2>1. 1 \in 1..Len(wire)
    BY <1>4
  <2> QED
    BY <2>1, <1>1, <1>4 DEF StreamInv, WireHolds, Showable
<1>6. e \in Rows
  BY <1>3, <1>5
<1> HIDE DEF n, e
<1>7. WindowHolds'
  BY <1>1, <1>2 DEF StreamInv, WindowHolds
<1>8. ASSUME app'.at = "running" => n <= app'.high, app'.at \in {"running", "finished"},
             app'.high \in Nat
      PROVE  WireHolds'
  <2>1. \A i \in 1..Len(wire') : wire'[i] \in Showable'
    BY <1>2, <1>4 DEF StreamInv, WireHolds
  <2>2. \A i, j \in 1..Len(wire') : j = i + 1 => wire'[j] = wire'[i] + 1
    <3> SUFFICES ASSUME NEW i \in 1..Len(wire'), NEW j \in 1..Len(wire'), j = i + 1
                 PROVE  wire'[j] = wire'[i] + 1
      OBVIOUS
    <3>1. /\ i + 1 \in 1..Len(wire) /\ j + 1 \in 1..Len(wire) /\ j + 1 = (i + 1) + 1
          /\ wire'[i] = wire[i + 1] /\ wire'[j] = wire[j + 1]
      BY <1>4
    <3> QED
      BY <3>1 DEF StreamInv, WireHolds
  <2>3. ASSUME wire' # <<>>, app'.at = "running"
        PROVE  wire'[1] <= app'.high + 1
    <3>1. 1 \in 1..Len(wire') /\ 1 \in 1..Len(wire) /\ 1 + 1 \in 1..Len(wire)
      BY <2>3, <1>4
    <3>2. wire'[1] = wire[1 + 1] /\ wire[1 + 1] = wire[1] + 1
      BY <3>1, <1>4 DEF StreamInv, WireHolds
    <3> QED
      BY <3>2, <1>4, <1>5, <1>8, <2>3
  <2>4. ASSUME conn'.at # "off", wire' # <<>>
        PROVE  wire'[Len(wire')] = conn'.cursor
    <3>1. Len(wire') \in 1..Len(wire') /\ Len(wire') + 1 = Len(wire)
      BY <2>4, <1>4
    <3>2. wire'[Len(wire')] = wire[Len(wire)]
      BY <3>1, <1>4
    <3> QED
      BY <3>2, <2>4, <1>1 DEF StreamInv, WireHolds
  <2>5. ASSUME app'.at = "running", conn'.at # "off", wire' = <<>>
        PROVE  conn'.cursor <= app'.high
    <3>1. Len(wire) = 1
      BY <2>5, <1>4
    <3>2. conn.cursor = n
      BY <3>1, <2>5, <1>1, <1>4 DEF StreamInv, WireHolds
    <3> QED
      BY <3>2, <2>5, <1>1, <1>8
  <2> QED
    BY <1>8, <2>1, <2>2, <2>3, <2>4, <2>5 DEF WireHolds
<1>9. CASE n <= app.high
  <2>1. app' = app
    BY <1>1, <1>9
  <2>2. StreamTyped'
    BY <2>1, <1>1, <1>4 DEF StreamInv, StreamTyped
  <2>3. OpenPromptsShown'
    BY <2>1, <1>1, LogStays DEF StreamInv
  <2>4. WireHolds'
    BY <2>1, <1>1, <1>3, <1>8, <1>9
  <2> QED
    BY <2>1, <2>2, <2>3, <2>4, <1>2, <1>7 DEF StreamInv
<1>10. CASE ~(n <= app.high)
  <2>1. n = app.high + 1
    BY <1>3, <1>5, <1>10
  <2>2. /\ app' \in StreamClient /\ app'.high = n /\ app'.resume \in {app.resume, n}
        /\ app'.at \in {"running", "finished"}
        /\ app'.prompts = IF e.kind = "approval" THEN app.prompts \cup {e.ask} ELSE app.prompts
    <3>1. e.kind \in {"approval", "approval_resolved"} => e.ask \in Asks
      BY <1>6, RowShape
    <3>2. n \in Nat
      BY <1>5
    <3> QED
      BY <3>1, <3>2, <1>1, <1>3, <1>10 DEF StreamClient
  <2>3. StreamTyped'
    <3>1. app'.resume <= app'.high /\ app'.high <= Len(elog)
      BY <2>1, <2>2, <1>3, <1>5
    <3> QED
      BY <3>1, <2>2, <1>1, <1>4 DEF StreamInv, StreamTyped
  <2>4. WireHolds'
    BY <2>1, <2>2, <1>3, <1>8
  <2>5. OpenPromptsShown'
    <3> SUFFICES ASSUME NEW k \in 1..n, elog[k].kind = "approval",
                        ~(\E m \in 1..n : elog[m] = Event("approval_resolved", elog[k].ask))
                 PROVE  elog[k].ask \in app'.prompts
      BY <2>2, <1>1 DEF OpenPromptsShown, Event
    <3>1. CASE k = n
      BY <3>1, <2>2 DEF e
    <3>2. CASE k # n
      <4>1. k \in 1..app.high /\ 1..app.high \subseteq 1..n
        BY <3>2, <2>1, <1>3
      <4>2. elog[k].ask \in app.prompts
        BY <4>1, <1>1 DEF StreamInv, OpenPromptsShown
      <4> QED
        BY <4>2, <2>2
    <3> QED
      BY <3>1, <3>2
  <2> QED
    BY <2>1, <2>2, <2>3, <2>4, <2>5, <1>2, <1>7 DEF StreamInv
<1> QED
  BY <1>9, <1>10

LEMMA StreamStep == StreamInv /\ [StreamNext]_streamVars => StreamInv'
<1> SUFFICES ASSUME StreamInv, [StreamNext]_streamVars PROVE StreamInv'
  OBVIOUS
<1>1. CASE UNCHANGED streamVars
  <2>1. /\ elog' = elog /\ over' = over /\ conn' = conn /\ wire' = wire /\ app' = app
        /\ breaks' = breaks /\ loads' = loads
    BY <1>1 DEF streamVars
  <2>2. EndsOnce' /\ EndSeqs' = EndSeqs /\ Showable' = Showable /\ OpenPromptsShown'
    BY <2>1, LogStays DEF StreamInv
  <2>3. StreamTyped'
    BY <2>1 DEF StreamInv, StreamTyped
  <2>4. WindowHolds' /\ WireHolds'
    BY <2>1, <2>2 DEF StreamInv, WindowHolds, WireHolds
  <2> QED
    BY <2>2, <2>3, <2>4 DEF StreamInv
<1>2. CASE StreamNext
  BY <1>2, AppendStep, HandlerReads, ConnectionSteps, YieldStep, LoadSteps, HandleStep DEF StreamNext
<1> QED
  BY <1>1, <1>2

\* The screen takes one row after the other and never one it skipped to.
LEMMA NoGap ==
  ASSUME StreamInv, [StreamNext]_streamVars, app.at = "running",
         app'.at \in {"running", "finished"}, app'.high # app.high
  PROVE  app'.high = app.high + 1
<1>1. CASE Handle
  BY <1>1, HandleStep
<1>2. CASE ~Handle
  <2>1. app' = app \/ app.at # "running" \/ app'.at = "loading"
    BY <1>2 DEF StreamNext, streamVars, AppendRow, Connect, ReadStatus, ReadEvents, Yield, WindowDone,
                PollTick, Wake, Break, StartApp, LoadStatus, LoadRows, StreamInv, StreamTyped, StreamClient
  <2> QED
    BY <2>1
<1> QED
  BY <1>1, <1>2

\* Whatever connections break, windows are cut, broadcasts are lost and apps are
\* started again: the client takes the rows of the log one by one, sees no row
\* behind the end of the session, and has every open prompt on the screen.
THEOREM StreamIsCorrect == StreamSpec => StreamCorrect
<1>1. StreamInit => StreamInv
  BY StreamInitHolds
<1>2. StreamInv /\ [StreamNext]_streamVars => StreamInv'
  BY StreamStep
<1>3. StreamInv => StreamTypeOK /\ EndIsAFence /\ OpenPromptsShown
  BY StreamInvHolds
<1>4. StreamInv /\ [StreamNext]_streamVars =>
        [app.at = "running" /\ app'.at \in {"running", "finished"}
           /\ app'.high # app.high => app'.high = app.high + 1]_streamVars
  BY NoGap
<1> QED
  BY <1>1, <1>2, <1>3, <1>4, PTL DEF StreamSpec, StreamCorrect, GapFreeReplay
=============================================================================
