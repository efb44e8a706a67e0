----------------------------- MODULE VoiceModel ------------------------------
(***************************************************************************)
(* The speech model on the phone and the isolates that load it.  A model   *)
(* operation runs on a thread of the activity that was asked for it, at    *)
(* most one per activity; a recreated activity forgets the flag of the one *)
(* before, whose thread may still run, so the directory is guarded by one  *)
(* lock of the process.  The screen, its settings sheet and its isolates   *)
(* live and die with their activity.  A dictation inspects the model,      *)
(* starts an isolate, loads the recognizer and hands it the audio.         *)
(* Activities and dictations are numbered.                                 *)
(***************************************************************************)
EXTENDS Naturals, FiniteSets

CONSTANTS
  ModelFiles,     \* the number of files of the model, the manifest not counted
  MaxActivities,  \* bound: activities, the first included
  MaxDictations,  \* bound: dictations
  MaxManaged,     \* bound: installs and deletes asked for
  MaxSnags        \* bound: failed file operations and downloads, timeouts

ASSUME ModelAssumption ==
  /\ ModelFiles \in Nat \ {0} /\ MaxActivities \in Nat \ {0}
  /\ MaxDictations \in Nat /\ MaxManaged \in Nat /\ MaxSnags \in Nat

VARIABLES
  version,   \* the files in the version directory, or Absent
  staged,    \* the files in the staging directory, or Absent
  opLock,    \* the activity whose thread holds processOperationLock, or 0
  op,        \* per activity: the thread of its model operation
  busyFlag,  \* per activity: voiceModelOperationActive
  stopFlag,  \* per activity: voiceInstallCancelled
  here,      \* the activity in being
  shown,     \* _voiceModelStatus; a transcriber exists exactly while it is "ready"
  refresh,   \* _refreshVoiceModel of the screen
  manage,    \* the sheet's install or delete
  dict,      \* per dictation: its operation, the spawn of its worker, the isolate
  now,       \* the transcriber's active operation, or 0
  asked,     \* how often the bounded inputs happened
  foreign    \* a thread of an earlier activity has removed files

modelVars == <<version, staged, opLock, op, busyFlag, stopFlag, here, shown, refresh, manage,
               dict, now, asked, foreign>>
modelDisk == <<version, staged, opLock, foreign>>
sheet == <<shown, refresh, manage>>
threads == <<op, busyFlag, stopFlag>>

Activity == 1 .. MaxActivities
Dictation == 1 .. MaxDictations
Absent == {ModelFiles + 1}
Manifest == 0
Full == 0 .. ModelFiles

NoOp == [kind |-> "none", at |-> "idle", who |-> 0, n |-> 0, res |-> "none"]
Unasked == [kind |-> "none", at |-> "idle", res |-> "none"]
NoDict == [at |-> "none", cut |-> FALSE, own |-> FALSE, ok |-> FALSE, iso |-> FALSE,
           rec |-> FALSE, whole |-> TRUE, killed |-> FALSE]

\* The callers of an operation: the screen's refresh, the sheet, or a dictation.
ByRefresh == 0
BySheet == MaxDictations + 1

\* The version directory may be one whose removal a crash cut short.
ModelInit ==
  /\ version \in {Absent, {Manifest}, Full} /\ staged = Absent /\ opLock = 0 /\ foreign = FALSE
  /\ op = [a \in Activity |-> NoOp]
  /\ busyFlag = [a \in Activity |-> FALSE] /\ stopFlag = [a \in Activity |-> FALSE]
  /\ here = 1 /\ shown = "none" /\ now = 0
  /\ refresh = [Unasked EXCEPT !.at = "begin"] /\ manage = Unasked
  /\ dict = [k \in Dictation |-> NoDict]
  /\ asked = [dictations |-> 0, managed |-> 0, snags |-> 0]

Snag == asked.snags < MaxSnags /\ asked' = [asked EXCEPT !.snags = @ + 1]

-----------------------------------------------------------------------------
(* Native: runVoiceModelOperation and VoiceModelInstaller.                  *)

\* verifyDirectory decides what inspect reports.
State(v) == IF v = Absent THEN "missing" ELSE IF v = Full THEN "ready" ELSE "corrupt"

\* A method call: refused while the activity's flag is up, else a thread of its own.
CallTaken == ~busyFlag[here]
Called(kind, who) ==
  /\ op' = [op EXCEPT ![here] = [kind |-> kind, at |-> "start", who |-> who, n |-> 0, res |-> "none"]]
  /\ busyFlag' = [busyFlag EXCEPT ![here] = TRUE]

NoLock == TRUE
Unlocked == opLock = 0

OpEnds(a, r) == op' = [op EXCEPT ![a] = [@ EXCEPT !.at = "answer", !.res = r]]
Removing(a) == foreign' = (foreign \/ a # here)

\* cleanupStaging, with which every operation starts, ends it with an error when a
\* file cannot be deleted.
CleanupFails(a) ==
  /\ op[a].at = "start" /\ Unlocked
  /\ staged # Absent /\ staged' \in SUBSET staged
  /\ Snag /\ OpEnds(a, "error")
  /\ UNCHANGED <<version, opLock, foreign, busyFlag, stopFlag, here, sheet, dict, now>>

\* inspect: staging is purged, the version directory verified.
InspectRuns(a) ==
  /\ op[a].kind = "inspect" /\ op[a].at = "start" /\ Unlocked
  /\ staged' = Absent
  /\ OpEnds(a, State(version))
  /\ UNCHANGED <<version, opLock, foreign, busyFlag, stopFlag, here, sheet, dict, now, asked>>

\* install and delete take the lock and purge staging; a model that is there stays.
InstallStarts(a) ==
  /\ op[a].kind = "install" /\ op[a].at = "start" /\ Unlocked
  /\ \/ /\ version = Full
        /\ OpEnds(a, "ready")
        /\ staged' = Absent
        /\ UNCHANGED <<opLock, asked>>
     \/ /\ version # Full
        /\ \/ /\ op' = [op EXCEPT ![a].at = IF version = Absent THEN "load" ELSE "remove"]
              /\ opLock' = a /\ UNCHANGED asked
           \/ Snag /\ OpEnds(a, "error") /\ UNCHANGED opLock
        /\ staged' = IF version = Absent /\ opLock' = a THEN {} ELSE Absent
  /\ UNCHANGED <<version, foreign, busyFlag, stopFlag, here, sheet, dict, now>>

DeleteStarts(a) ==
  /\ op[a].kind = "delete" /\ op[a].at = "start" /\ Unlocked
  /\ staged' = Absent
  /\ op' = [op EXCEPT ![a].at = "remove"]
  /\ opLock' = a
  /\ UNCHANGED <<version, foreign, busyFlag, stopFlag, here, sheet, dict, now, asked>>

\* deleteTree: the files in any order, the directory last; any of them may stay.
RemoveFile(a) ==
  /\ op[a].at = "remove" /\ version # Absent
  /\ \/ /\ \E f \in version : version' = version \ {f}
        /\ Removing(a)
        /\ UNCHANGED <<op, opLock, asked>>
     \/ Snag /\ OpEnds(a, "error") /\ opLock' = 0 /\ UNCHANGED <<version, foreign>>
  /\ UNCHANGED <<staged, busyFlag, stopFlag, here, sheet, dict, now>>

RemoveDirectory(a) ==
  /\ op[a].at = "remove" /\ version \in {Absent, {}}
  /\ version' = Absent
  /\ \/ /\ op[a].kind = "install"
        /\ op' = [op EXCEPT ![a].at = "load"]
        /\ staged' = {}
        /\ UNCHANGED opLock
     \/ /\ op[a].kind = "delete"
        /\ OpEnds(a, "missing")
        /\ opLock' = 0
        /\ UNCHANGED staged
  /\ UNCHANGED <<foreign, busyFlag, stopFlag, here, sheet, dict, now, asked>>

\* download of the next file, verified and synced before the one after it.
Download(a) ==
  /\ op[a].at = "load" /\ op[a].n < ModelFiles /\ ~stopFlag[a]
  /\ op' = [op EXCEPT ![a].n = @ + 1]
  /\ staged' = staged \cup {op[a].n + 1}
  /\ UNCHANGED <<version, opLock, foreign, busyFlag, stopFlag, here, sheet, dict, now, asked>>

\* A cancel seen between two reads, a response that is not the pinned file, or an error
\* up to the rename: the staging directory goes, unless that fails too.
DownloadFails(a) ==
  /\ op[a].at = "load"
  /\ \/ stopFlag[a] /\ op[a].n < ModelFiles /\ staged' = Absent /\ UNCHANGED asked
     \/ Snag /\ staged' \in SUBSET staged \cup {Absent}
  /\ OpEnds(a, "error")
  /\ opLock' = 0
  /\ UNCHANGED <<version, foreign, busyFlag, stopFlag, here, sheet, dict, now>>

\* The manifest, the verification of all files and the rename that activates the model.
Activate(a) ==
  /\ op[a].at = "load" /\ op[a].n = ModelFiles /\ staged = 1 .. ModelFiles
  /\ version' = staged \cup {Manifest}
  /\ OpEnds(a, State(version'))
  /\ staged' = Absent /\ opLock' = 0
  /\ UNCHANGED <<foreign, busyFlag, stopFlag, here, sheet, dict, now, asked>>

\* The answer is posted to the screen of the activity, if that still exists, ...
ModelAnswer(a) ==
  LET r == op[a].res w == op[a].who
  IN /\ op[a].at = "answer"
     /\ op' = [op EXCEPT ![a].at = "clear"]
     /\ \/ a # here /\ UNCHANGED <<refresh, manage, dict>>
        \/ /\ a = here /\ w = ByRefresh
           /\ refresh' = IF r = "error" THEN Unasked ELSE [refresh EXCEPT !.at = "apply", !.res = r]
           /\ UNCHANGED <<manage, dict>>
        \/ /\ a = here /\ w = BySheet
           /\ manage' = IF r = "error" THEN Unasked ELSE [manage EXCEPT !.at = "apply", !.res = r]
           /\ UNCHANGED <<refresh, dict>>
        \/ /\ a = here /\ w \in Dictation
           /\ dict' = [dict EXCEPT ![w] = [@ EXCEPT !.at = "inspected", !.ok = r = "ready"]]
           /\ UNCHANGED <<refresh, manage>>
     /\ UNCHANGED <<modelDisk, busyFlag, stopFlag, here, shown, now, asked>>

\* ... and only then is the flag cleared.
ClearFlag(a) ==
  /\ op[a].at = "clear"
  /\ op' = [op EXCEPT ![a] = NoOp]
  /\ busyFlag' = [busyFlag EXCEPT ![a] = FALSE]
  /\ UNCHANGED <<modelDisk, stopFlag, here, sheet, dict, now, asked>>

-----------------------------------------------------------------------------
(* The screen and the settings sheet.                                       *)

\* Cancelling the transcriber: a dictation whose worker is still being spawned is given
\* up at once, one that has a worker shuts it down first.
NoneDictated == now = 0
CutNow ==
  IF NoneDictated THEN UNCHANGED <<dict, now>>
  ELSE /\ dict' = [dict EXCEPT ![now] = [@ EXCEPT !.cut = TRUE,
                                                !.at = IF dict[now].own THEN "close" ELSE dict[now].at]]
       /\ now' = IF dict[now].own THEN now ELSE 0

StartRefresh ==
  /\ refresh.at = "idle" /\ manage = Unasked /\ asked.managed < MaxManaged
  /\ refresh' = [Unasked EXCEPT !.at = "begin"]
  /\ asked' = [asked EXCEPT !.managed = @ + 1]
  /\ UNCHANGED <<modelDisk, threads, here, shown, manage, dict, now>>

RefreshCalls ==
  /\ refresh.at = "begin"
  /\ \/ /\ CallTaken /\ Called("inspect", ByRefresh)
        /\ refresh' = [refresh EXCEPT !.at = "native"]
     \/ /\ ~CallTaken
        /\ refresh' = Unasked
        /\ UNCHANGED <<op, busyFlag>>
  /\ UNCHANGED <<modelDisk, stopFlag, here, shown, manage, dict, now, asked>>

\* The cancel flag is lowered even if the call is then refused.
StartInstall ==
  /\ manage = Unasked /\ shown \notin {"ready", "corrupt"} /\ asked.managed < MaxManaged
  /\ asked' = [asked EXCEPT !.managed = @ + 1]
  /\ stopFlag' = [stopFlag EXCEPT ![here] = FALSE]
  /\ \/ /\ CallTaken /\ Called("install", BySheet)
        /\ manage' = [Unasked EXCEPT !.kind = "install", !.at = "native"]
     \/ /\ ~CallTaken
        /\ UNCHANGED <<op, busyFlag, manage>>
  /\ UNCHANGED <<modelDisk, here, shown, refresh, dict, now>>

CancelInstall ==
  /\ manage.kind = "install" /\ manage.at = "native" /\ ~stopFlag[here]
  /\ stopFlag' = [stopFlag EXCEPT ![here] = TRUE]
  /\ UNCHANGED <<modelDisk, op, busyFlag, here, sheet, dict, now, asked>>

\* _deleteVoiceModel: what is dictated is cancelled and awaited, then the native call.
StartDelete ==
  /\ manage = Unasked /\ shown \in {"ready", "corrupt"} /\ asked.managed < MaxManaged
  /\ asked' = [asked EXCEPT !.managed = @ + 1]
  /\ manage' = [Unasked EXCEPT !.kind = "delete", !.at = "cancel"]
  /\ CutNow
  /\ UNCHANGED <<modelDisk, threads, here, shown, refresh>>

\* An earlier waiter for the same dictation goes first.
MayDeleteAtOnce == TRUE
MayDelete == NoneDictated /\ refresh.at # "applying"

DeleteCalls ==
  /\ manage.kind = "delete" /\ manage.at = "cancel" /\ MayDelete
  /\ \/ /\ CallTaken /\ Called("delete", BySheet)
        /\ manage' = [manage EXCEPT !.at = "native"]
     \/ /\ ~CallTaken
        /\ manage' = Unasked
        /\ UNCHANGED <<op, busyFlag>>
  /\ UNCHANGED <<modelDisk, stopFlag, here, shown, refresh, dict, now, asked>>

\* _applyVoiceModelStatus: the old transcriber is cancelled and awaited, then replaced.
ApplyBegins ==
  /\ \/ /\ refresh.at = "apply"
        /\ refresh' = [refresh EXCEPT !.at = "applying"]
        /\ UNCHANGED manage
     \/ /\ manage.at = "apply"
        /\ manage' = [manage EXCEPT !.at = "applying"]
        /\ UNCHANGED refresh
  /\ CutNow
  /\ UNCHANGED <<modelDisk, threads, here, shown, asked>>

ApplyEnds ==
  /\ NoneDictated
  /\ \/ /\ refresh.at = "applying"
        /\ shown' = refresh.res
        /\ refresh' = Unasked
        /\ UNCHANGED manage
     \/ /\ manage.at = "applying"
        /\ shown' = manage.res
        /\ manage' = Unasked
        /\ UNCHANGED refresh
  /\ UNCHANGED <<modelDisk, threads, here, dict, now, asked>>

-----------------------------------------------------------------------------
(* A dictation: LocalAsrTranscriber, the spawn of its worker, the isolate.  *)

\* A stop in flight when the sheet deletes is dropped with the recording.
Dictate ==
  /\ shown = "ready" /\ NoneDictated /\ manage.kind # "delete"
  /\ asked.dictations < MaxDictations
  /\ LET k == asked.dictations + 1
     IN /\ asked' = [asked EXCEPT !.dictations = k]
        /\ \/ /\ CallTaken /\ Called("inspect", k)
              /\ dict' = [dict EXCEPT ![k].at = "inspect"]
              /\ now' = k
           \/ /\ ~CallTaken
              /\ dict' = [dict EXCEPT ![k].at = "done"]
              /\ UNCHANGED <<op, busyFlag, now>>
  /\ UNCHANGED <<modelDisk, stopFlag, here, sheet>>

\* The spawn fails: nothing was loaded; the operation, if it still waits, ends.
SpawnFailed(k) ==
  /\ dict' = [dict EXCEPT ![k] = [@ EXCEPT !.at = "done", !.iso = FALSE]]
  /\ now' = IF now = k THEN 0 ELSE now

\* The token is looked at after every await of the spawn.
Cut(k) == dict[k].cut

SpawnIsolate(k) ==
  /\ dict[k].at = "inspected"
  /\ \/ (Cut(k) \/ ~dict[k].ok) /\ SpawnFailed(k)
     \/ /\ ~Cut(k) /\ dict[k].ok
        /\ dict' = [dict EXCEPT ![k] = [@ EXCEPT !.at = "spawned", !.iso = TRUE]]
        /\ UNCHANGED now
  /\ UNCHANGED <<modelDisk, threads, here, sheet, asked>>

\* The isolate answers the handshake and `configure` if the files are still there.
Configure(k) ==
  /\ dict[k].at = "spawned"
  /\ \/ Cut(k) /\ SpawnFailed(k) /\ UNCHANGED asked
     \/ Snag /\ SpawnFailed(k)
     \/ /\ ~Cut(k) /\ 1 .. ModelFiles \subseteq version
        /\ dict' = [dict EXCEPT ![k].at = "configured"]
        /\ UNCHANGED <<now, asked>>
     \/ ~Cut(k) /\ ~(1 .. ModelFiles \subseteq version) /\ SpawnFailed(k) /\ UNCHANGED asked
  /\ UNCHANGED <<modelDisk, threads, here, sheet>>

\* The worker is the operation's, unless that was cancelled meanwhile: then it is retired
\* before it loads anything.
WorkerReturned(k) ==
  /\ dict[k].at = "configured"
  /\ \/ Cut(k) /\ SpawnFailed(k)
     \/ /\ ~Cut(k)
        /\ dict' = [dict EXCEPT ![k] = [@ EXCEPT !.at = "loading", !.own = TRUE]]
        /\ UNCHANGED now
  /\ UNCHANGED <<modelDisk, threads, here, sheet, asked>>

Load(k) ==
  /\ dict[k].at = "loading"
  /\ dict' = [dict EXCEPT ![k] = [@ EXCEPT !.at = "hearing", !.rec = TRUE, !.whole = version = Full]]
  /\ UNCHANGED <<modelDisk, threads, here, sheet, now, asked>>

\* The transcript, or an error, or the operation's own timeout.
Heard(k) ==
  /\ dict[k].at = "hearing"
  /\ dict' = [dict EXCEPT ![k] = [@ EXCEPT !.at = "close", !.cut = TRUE]]
  /\ UNCHANGED <<modelDisk, threads, here, sheet, now, asked>>

TimedOut ==
  /\ ~NoneDictated /\ ~Cut(now) /\ Snag
  /\ CutNow
  /\ UNCHANGED <<modelDisk, threads, here, sheet>>

\* _shutdown: the isolate ends its job, frees the recognizer and exits; a native call that
\* does not come back is killed after its time.
ShutIsolate(k) ==
  /\ dict[k].at = "close"
  /\ \/ dict' = [dict EXCEPT ![k] = [@ EXCEPT !.at = "done", !.iso = FALSE, !.rec = FALSE]]
        /\ UNCHANGED asked
     \/ Snag /\ dict' = [dict EXCEPT ![k] = [@ EXCEPT !.at = "done", !.iso = FALSE, !.killed = TRUE]]
  /\ now' = IF now = k THEN 0 ELSE now
  /\ UNCHANGED <<modelDisk, threads, here, sheet>>

-----------------------------------------------------------------------------
\* The activity is recreated: its screen and its isolates go, its thread goes on.
Recreate ==
  /\ here < MaxActivities
  /\ here' = here + 1
  /\ shown' = "none" /\ refresh' = [Unasked EXCEPT !.at = "begin"] /\ manage' = Unasked /\ now' = 0
  /\ dict' = [k \in Dictation |-> [dict[k] EXCEPT !.at = IF @ = "none" THEN @ ELSE "done",
                                                  !.iso = FALSE, !.rec = FALSE]]
  /\ UNCHANGED <<modelDisk, threads, asked>>

\* The process dies, wherever its threads are.
ProcessDies ==
  /\ here < MaxActivities
  /\ here' = here + 1
  /\ shown' = "none" /\ refresh' = [Unasked EXCEPT !.at = "begin"] /\ manage' = Unasked /\ now' = 0
  /\ dict' = [k \in Dictation |-> [dict[k] EXCEPT !.at = IF @ = "none" THEN @ ELSE "done",
                                                  !.iso = FALSE, !.rec = FALSE]]
  /\ op' = [a \in Activity |-> NoOp] /\ opLock' = 0
  /\ busyFlag' = [a \in Activity |-> FALSE] /\ stopFlag' = [a \in Activity |-> FALSE]
  /\ UNCHANGED <<version, staged, foreign, asked>>

ModelNext ==
  \/ \E a \in Activity :
       \/ CleanupFails(a) \/ InspectRuns(a) \/ InstallStarts(a) \/ DeleteStarts(a) \/ RemoveFile(a)
       \/ RemoveDirectory(a) \/ Download(a) \/ DownloadFails(a) \/ Activate(a)
       \/ ModelAnswer(a) \/ ClearFlag(a)
  \/ StartRefresh \/ RefreshCalls \/ StartInstall \/ CancelInstall \/ StartDelete \/ DeleteCalls
  \/ ApplyBegins \/ ApplyEnds \/ Dictate \/ TimedOut
  \/ \E k \in Dictation :
       \/ SpawnIsolate(k) \/ Configure(k) \/ WorkerReturned(k) \/ Load(k) \/ Heard(k)
       \/ ShutIsolate(k)
  \/ Recreate \/ ProcessDies

ModelSpec == ModelInit /\ [][ModelNext]_modelVars

-----------------------------------------------------------------------------
\* The files of an install in progress are its own: no inspection, of this activity or of
\* the next, purges them, and no other operation moves in the directories meanwhile.
InstallIsAlone ==
  \A a \in Activity : op[a].at = "load" => opLock = a /\ version = Absent /\ staged = 1 .. op[a].n

\* A recognizer is loaded from a whole model only, and the model is not removed under a
\* recognizer at work; only a delete left over from an earlier activity can do either.
LoadedIsWhole ==
  \A k \in Dictation :
    dict[k].rec /\ ~dict[k].killed /\ ~foreign => dict[k].whole /\ version = Full

\* One recognizer at a time, the one of the operation in progress.
OneRecognizer ==
  \A k \in Dictation : dict[k].rec /\ ~dict[k].killed => now = k

VoiceModelSafe ==
  /\ InstallIsAlone
  /\ LoadedIsWhole
  /\ OneRecognizer
=============================================================================
