---------------------------- MODULE VoiceCapture -----------------------------
(***************************************************************************)
(* Voice input on the phone: the screen that starts, stops and cancels a   *)
(* capture, the native recorder it drives over a method channel, and the   *)
(* transcription on the device or on the paired home server.               *)
(* The screen is one thread whose operations (`ops`) suspend at every      *)
(* await; each takes a new number from `_voiceOperationEpoch`, and one     *)
(* that finds a later number is overtaken.  The platform thread serves the *)
(* calls in order; a stop runs on a thread of its own, the recorder on     *)
(* another.  Audio is its capture id.  Both engines are taken as offered.  *)
(***************************************************************************)
EXTENDS Naturals, Sequences, FiniteSets

CONSTANTS
  VNil,           \* no capture, no server
  Captures,       \* capture ids, each used once
  HomeServers,    \* servers the phone may be paired with
  MaxRecordings,  \* bound: captures the owner asks for
  MaxUpsets       \* bound: cancels, pauses, changes of server and crashes together

VARIABLES
  ui,        \* the screen's fields
  vEpoch,    \* _voiceOperationEpoch
  ops,       \* the screen's suspended operations
  asrEpoch,  \* _voiceAsrRequestEpoch
  asr,       \* upload requests, the abandoned ones included
  job,       \* the transcriber's active operation
  calls,     \* method calls the platform thread has not served
  natives,   \* native stop and cancel routines that are running
  mic,       \* ForegroundVoiceCapture: active, retiring, cancelledIds
  thr,       \* the recorder thread of a capture
  notes,     \* what is noted about a recorder: stopping, discard, failed, monitored
  files,     \* scratch files of PCM on disk
  fg, life,  \* whether the activity is in front; what the screen knows of it, then
             \* what it has still to hear
  phone,     \* paired server, state of a change of it, whether the app runs
  used,      \* how often the bounded inputs happened
  ghost      \* drafts made, audio uploaded, captures dropped or cleared, their origin

voiceVars == <<ui, vEpoch, ops, asrEpoch, asr, job, calls, natives, mic, thr, notes, files,
               fg, life, phone, used, ghost>>
screen == <<ui, vEpoch, ops>>
native == <<natives, mic, thr, notes, files>>
inference == <<asrEpoch, asr, job>>
app == <<fg, life, phone>>

Engines == {"local", "remote"}
AtRest == [recording |-> FALSE, processing |-> FALSE, pending |-> FALSE, cid |-> VNil,
         act |-> "none", sel |-> "local"]
NoNotes == [stopping |-> {}, discard |-> {}, failed |-> {}, monitored |-> {}]

VoiceInit ==
  /\ ui = AtRest /\ vEpoch = 0 /\ ops = {} /\ asrEpoch = 0 /\ asr = {} /\ job = VNil
  /\ calls = <<>> /\ natives = {} /\ notes = NoNotes /\ files = {} /\ fg = TRUE /\ life = <<TRUE>>
  /\ mic = [active |-> VNil, retiring |-> VNil, cancelled |-> {}]
  /\ thr = [c \in Captures |-> "none"]
  /\ phone = [server |-> CHOOSE s \in HomeServers : TRUE, change |-> "none", alive |-> TRUE]
  /\ used = [captures |-> {}, starts |-> 0, upsets |-> 0]
  /\ ghost = [drafts |-> {}, uploads |-> {}, dropped |-> {}, cleared |-> {},
              born |-> [c \in Captures |-> VNil], choice |-> [c \in Captures |-> "none"]]

-----------------------------------------------------------------------------
(* Native: one foreground capture.                                          *)

\* A reply reaches the operation that made the call; a lifecycle cancel has none.
Answer(e, v) == ops' = {IF o.e = e THEN [o EXCEPT !.reply = v] ELSE o : o \in ops}
PlatformFree == \A n \in natives : ~n.plat
Serving(op) == phone.alive /\ PlatformFree /\ calls # <<>> /\ Head(calls).op = op
Alive(c) == thr[c] \in {"starting", "writing"}

\* The scratch file of a capture is deleted.
Deleted(c) == files \ {c}

\* Audio that may be handed over: that of a recorder which neither failed nor was
\* told to discard it, if the file is there to be read.
Kept(c) == c \notin notes.discard \cup notes.failed
Usable(c) == Kept(c) /\ c \in files

\* completeRetirement: the next capture may start once this recorder has exited.
Completed(c) == IF mic.retiring = c /\ ~Alive(c) THEN [mic EXCEPT !.retiring = VNil] ELSE mic

\* startVoiceCapture: refused in the background, while another capture is active or
\* retiring; a recorder that does not initialise is rolled back.
NativeStart ==
  /\ Serving("start")
  /\ calls' = Tail(calls)
  /\ LET c == Head(calls).cid e == Head(calls).by
     IN \/ /\ fg /\ mic.active = VNil /\ mic.retiring = VNil
           /\ mic' = [mic EXCEPT !.active = c]
           /\ thr' = [thr EXCEPT ![c] = "starting"]
           /\ Answer(e, "ok")
        \/ /\ Answer(e, "error")
           /\ UNCHANGED <<mic, thr>>
  /\ UNCHANGED <<ui, vEpoch, inference, natives, notes, files, app, used, ghost>>

\* ForegroundVoiceCapture.cancel up to its wait: which session it takes, if any.
CancelTakes(c) ==
  IF mic.active # VNil THEN (IF c \in {VNil, mic.active} THEN mic.active ELSE VNil)
  ELSE IF c \in {VNil, mic.retiring} THEN mic.retiring ELSE VNil

Cancelling(c, by, plat, answer) ==
  LET s == CancelTakes(c)
  IN /\ mic' = [mic EXCEPT !.active = IF @ = s THEN VNil ELSE @, !.retiring = s,
                           !.cancelled = @ \cup {s}]
     /\ notes' = [notes EXCEPT !.discard = @ \cup {s}]
     /\ natives' = natives \cup {[r |-> "cancel", by |-> by, cid |-> s, at |-> "lock",
                                  plat |-> plat, answer |-> answer]}

\* cancelVoiceCapture: true also for a capture that is known to be cancelled.
NativeCancel ==
  /\ Serving("cancel")
  /\ calls' = Tail(calls)
  /\ LET c == Head(calls).cid e == Head(calls).by
     IN \/ /\ CancelTakes(c) # VNil
           /\ Cancelling(c, e, TRUE, "true")
           /\ UNCHANGED ops
        \/ /\ CancelTakes(c) = VNil
           /\ Answer(e, IF mic.active = VNil /\ mic.retiring = VNil /\ c \in mic.cancelled
                          THEN "true" ELSE "false")
           /\ UNCHANGED <<mic, notes, natives>>
  /\ UNCHANGED <<ui, vEpoch, inference, thr, files, app, used, ghost>>

\* stopVoiceCapture: in the background it cancels instead; else a thread stops it.
NativeStop ==
  /\ Serving("stop")
  /\ calls' = Tail(calls)
  /\ LET c == Head(calls).cid e == Head(calls).by
     IN \/ /\ fg
           /\ natives' = natives \cup {[r |-> "stop", by |-> e, cid |-> c, at |-> "begin",
                                        plat |-> FALSE, answer |-> "ok"]}
           /\ UNCHANGED <<mic, notes, ops>>
        \/ /\ ~fg /\ CancelTakes(c) # VNil
           /\ Cancelling(c, e, TRUE, "error")
           /\ UNCHANGED ops
        \/ /\ ~fg /\ CancelTakes(c) = VNil
           /\ Answer(e, "error")
           /\ UNCHANGED <<mic, notes, natives>>
  /\ UNCHANGED <<ui, vEpoch, inference, thr, files, app, used, ghost>>

Moves(n, at) == natives' = (natives \ {n}) \cup {[n EXCEPT !.at = at]}
Finishes(n) == natives' = natives \ {n}

\* stop under the lock: the active capture of that id starts to retire.
StopEnters(n) ==
  /\ n.r = "stop" /\ n.at = "begin"
  /\ \/ /\ mic.active = n.cid
        /\ mic' = [mic EXCEPT !.active = VNil, !.retiring = n.cid]
        /\ Moves(n, "lock")
     \/ /\ mic.active # n.cid /\ Moves(n, "caught") /\ UNCHANGED mic
  /\ UNCHANGED <<ops, thr, notes, files>>

\* The capture's retirement lock, then stopRecorder.
LockTaken(n) ==
  /\ n.at = "lock" /\ \A m \in natives : ~(m.cid = n.cid /\ m.at \in {"join", "rejected"})
  /\ Moves(n, "join")
  /\ notes' = [notes EXCEPT !.stopping = @ \cup {n.cid}]
  /\ UNCHANGED <<ops, mic, thr, files>>

\* The recorder exited: its audio is read and its file deleted, or it was cancelled
\* or failed.  Audio that cannot be read, or is not whole samples within the bound,
\* ends the retirement first and is deleted after.
StopJoined(n) ==
  /\ n.r = "stop" /\ n.at = "join" /\ ~Alive(n.cid)
  /\ mic' = Completed(n.cid)
  /\ \/ Usable(n.cid) /\ files' = Deleted(n.cid) /\ Finishes(n) /\ Answer(n.by, "ok")
     \/ ~Kept(n.cid) /\ files' = Deleted(n.cid) /\ Moves(n, "caught") /\ UNCHANGED ops
     \/ Kept(n.cid) /\ Moves(n, "rejected") /\ UNCHANGED <<files, ops>>
  /\ UNCHANGED <<thr, notes>>

RejectedErased(n) ==
  /\ n.at = "rejected"
  /\ files' = Deleted(n.cid)
  /\ Moves(n, "caught")
  /\ UNCHANGED <<ops, mic, thr, notes>>

\* awaitRecorderCleanup gave up twice: a monitor takes the recorder over.
StopTimedOut(n) ==
  /\ n.r = "stop" /\ n.at = "join" /\ Alive(n.cid)
  /\ notes' = [notes EXCEPT !.discard = @ \cup {n.cid}, !.monitored = @ \cup {n.cid}]
  /\ mic' = [mic EXCEPT !.cancelled = @ \cup {n.cid}]
  /\ files' = Deleted(n.cid)
  /\ Moves(n, "caught")
  /\ UNCHANGED <<ops, thr>>

\* The stop thread's catch cancels whatever capture there is, then reports.
StopCaught(n) ==
  /\ n.at = "caught"
  /\ \/ /\ CancelTakes(VNil) = VNil
        /\ Finishes(n) /\ Answer(n.by, "error")
        /\ UNCHANGED <<mic, notes>>
     \/ /\ CancelTakes(VNil) # VNil
        /\ LET s == CancelTakes(VNil)
           IN /\ mic' = [mic EXCEPT !.active = VNil, !.retiring = s, !.cancelled = @ \cup {s}]
              /\ notes' = [notes EXCEPT !.discard = @ \cup {s}]
              /\ natives' = (natives \ {n}) \cup
                   {[n EXCEPT !.r = "cancel", !.cid = s, !.at = "lock", !.answer = "error"]}
        /\ UNCHANGED ops
  /\ UNCHANGED <<thr, files>>

\* finishCancellation with a recorder that exited.
CancelJoined(n) ==
  /\ n.r = "cancel" /\ n.at = "join" /\ ~Alive(n.cid)
  /\ files' = Deleted(n.cid) /\ mic' = Completed(n.cid)
  /\ Finishes(n) /\ Answer(n.by, n.answer)
  /\ UNCHANGED <<thr, notes>>

\* finishCancellation with a recorder that does not: the caller is told.
CancelTimedOut(n) ==
  /\ n.r = "cancel" /\ n.at = "join" /\ Alive(n.cid) /\ n.plat
  /\ notes' = [notes EXCEPT !.monitored = @ \cup {n.cid}]
  /\ files' = Deleted(n.cid)
  /\ Finishes(n) /\ Answer(n.by, "error")
  /\ UNCHANGED <<mic, thr>>

NativeStep ==
  /\ phone.alive
  /\ \E n \in natives : \/ StopEnters(n) \/ LockTaken(n) \/ StopJoined(n) \/ RejectedErased(n)
                        \/ StopTimedOut(n)
                        \/ StopCaught(n) \/ CancelJoined(n) \/ CancelTimedOut(n)
  /\ UNCHANGED <<ui, vEpoch, inference, calls, app, used, ghost>>

\* monitorRetirement: waits for the recorder however long it takes.
Monitor ==
  /\ \E c \in notes.monitored :
       /\ ~Alive(c)
       /\ files' = Deleted(c) /\ mic' = Completed(c)
       /\ notes' = [notes EXCEPT !.monitored = @ \ {c}]
  /\ UNCHANGED <<screen, inference, calls, natives, thr, app, used, ghost>>

\* The recorder thread opens its file, and ends: told to, at the sixty second bound,
\* or by an error, which it notes unless it was told to stop.  An exception also
\* removes the file.
RecorderOpens ==
  /\ \E c \in Captures :
       /\ thr[c] = "starting" /\ thr' = [thr EXCEPT ![c] = "writing"]
       /\ files' = files \cup {c}
  /\ UNCHANGED <<screen, inference, calls, natives, mic, notes, app, used, ghost>>

RecorderEnds ==
  /\ \E c \in Captures :
       /\ thr' = [thr EXCEPT ![c] = "exited"]
       /\ \/ thr[c] = "writing" /\ UNCHANGED <<notes, files>>
          \/ /\ Alive(c)
             /\ notes' = [notes EXCEPT !.failed = IF c \in notes.stopping THEN @ ELSE @ \cup {c}]
             /\ files' \in {files, Deleted(c)}
  /\ UNCHANGED <<screen, inference, calls, natives, mic, app, used, ghost>>

-----------------------------------------------------------------------------
(* The screen.                                                              *)

\* An operation that does not notice the one that replaced it.
OvertakenNever(o) == FALSE
Overtaken(o) == o.e # vEpoch
Operating == ui.recording \/ ui.processing \/ ui.pending \/ ui.cid # VNil \/ job # VNil
Call(op, e, c) == calls' = Append(calls, [op |-> op, by |-> e, cid |-> c])
Without(o) == ops' = ops \ {o}
StepsTo(o, p) == ops' = (ops \ {o}) \cup {p}

\* _selectVoiceAsrEngine
SelectEngine ==
  /\ phone.alive /\ phone.change = "none" /\ ~Operating
  /\ \E k \in Engines \ {ui.sel} : ui' = [ui EXCEPT !.sel = k]
  /\ UNCHANGED <<vEpoch, ops, inference, calls, native, app, used, ghost>>

\* _startVoiceCapture up to the permission.
StartVoice ==
  /\ phone.alive /\ phone.change = "none" /\ Head(life)
  /\ ~ui.recording /\ ~ui.processing /\ used.starts < MaxRecordings
  /\ used' = [used EXCEPT !.starts = @ + 1]
  /\ vEpoch' = vEpoch + 1
  /\ ui' = [ui EXCEPT !.processing = TRUE, !.pending = TRUE]
  /\ ops' = ops \cup {[k |-> "start", e |-> vEpoch + 1, at |-> "permission", reply |-> "none",
                       cid |-> VNil, sel |-> ui.sel]}
  /\ UNCHANGED <<inference, calls, native, app, ghost>>

\* The permission is answered, one way or the other, or the request is refused.
PermissionAnswered(o) ==
  /\ o.k = "start" /\ o.at = "permission"
  /\ \/ /\ Overtaken(o) /\ Without(o)
        /\ UNCHANGED <<ui, calls, used, ghost>>
     \/ /\ ~Overtaken(o) /\ Head(life)
        /\ \E c \in Captures \ used.captures :
             /\ c = CHOOSE d \in Captures \ used.captures : TRUE
             /\ used' = [used EXCEPT !.captures = @ \cup {c}]
             /\ ghost' = [ghost EXCEPT !.born[c] = phone.server, !.choice[c] = o.sel]
             /\ StepsTo(o, [o EXCEPT !.at = "start", !.cid = c])
             /\ Call("start", o.e, c)
        /\ ui' = [ui EXCEPT !.pending = FALSE]
     \/ /\ ~Overtaken(o) /\ Without(o)
        /\ ui' = [ui EXCEPT !.pending = FALSE, !.processing = FALSE]
        /\ UNCHANGED <<calls, used, ghost>>
  /\ UNCHANGED <<vEpoch, inference, native, app>>

\* The recorder runs: an overtaken start cancels it, a current one shows it.
StartReplied(o) ==
  /\ o.k = "start" /\ o.at = "start" /\ o.reply # "none"
  /\ \/ /\ o.reply = "ok" /\ Overtaken(o)
        /\ StepsTo(o, [o EXCEPT !.at = "cancel", !.reply = "none"])
        /\ Call("cancel", o.e, o.cid)
        /\ UNCHANGED ui
     \/ /\ o.reply = "ok" /\ ~Overtaken(o)
        /\ Without(o)
        /\ ui' = [ui EXCEPT !.cid = o.cid, !.act = o.sel, !.recording = TRUE, !.processing = FALSE]
        /\ UNCHANGED calls
     \/ /\ o.reply = "error"
        /\ Without(o)
        /\ ui' = IF Overtaken(o) THEN ui ELSE [ui EXCEPT !.processing = FALSE]
        /\ UNCHANGED calls
  /\ UNCHANGED <<vEpoch, inference, native, app, used, ghost>>

LateCancelReplied(o) ==
  /\ o.k = "start" /\ o.at = "cancel" /\ o.reply # "none" /\ Without(o)
  /\ UNCHANGED <<ui, vEpoch, calls, inference, native, app, used, ghost>>

\* _stopVoiceCapture: a tap, or the limit timer whatever is on top of the screen.
StopVoice ==
  /\ phone.alive /\ ui.recording /\ ui.cid # VNil
  /\ vEpoch' = vEpoch + 1
  /\ ui' = [ui EXCEPT !.recording = FALSE, !.processing = TRUE, !.cid = VNil]
  /\ ops' = ops \cup {[k |-> "stop", e |-> vEpoch + 1, at |-> "stop", reply |-> "none", cid |-> ui.cid,
                       sel |-> IF ui.act = "none" THEN ui.sel ELSE ui.act]}
  /\ Call("stop", vEpoch + 1, ui.cid)
  /\ UNCHANGED <<inference, native, app, used, ghost>>

\* The end of a stop that makes no draft: the audio is erased, and a current one
\* gives the screen back.
StopFinally(o) ==
  /\ Without(o)
  /\ ui' = IF Overtaken(o) THEN ui ELSE [ui EXCEPT !.processing = FALSE, !.act = "none"]

Requesting == \E o \in ops : o.k = "stop" /\ o.at = "remote" /\ o.reply = "none"

StopReplied(o) ==
  /\ o.k = "stop" /\ o.at = "stop" /\ o.reply # "none"
  /\ \/ /\ \/ o.reply = "error" \/ Overtaken(o)
           \/ o.sel = "local" /\ job # VNil
           \/ o.sel = "remote" /\ Requesting
        /\ StopFinally(o)
        /\ UNCHANGED <<job, asr>>
     \/ /\ o.reply = "ok" /\ ~Overtaken(o) /\ o.sel = "local" /\ job = VNil
        /\ job' = [by |-> o.e, cancelled |-> FALSE]
        /\ StepsTo(o, [o EXCEPT !.at = "local", !.reply = "none"])
        /\ UNCHANGED <<ui, asr>>
     \/ /\ o.reply = "ok" /\ ~Overtaken(o) /\ o.sel = "remote" /\ ~Requesting
        /\ asr' = asr \cup {[re |-> asrEpoch, by |-> o.e, cid |-> o.cid, at |-> "url", srv |-> VNil]}
        /\ StepsTo(o, [o EXCEPT !.at = "remote", !.reply = "none"])
        /\ UNCHANGED <<ui, job>>
  /\ UNCHANGED <<vEpoch, asrEpoch, calls, native, app, used, ghost>>

\* The transcript, then the build fingerprint, then the draft: each await is checked.
Transcribed(o) ==
  /\ o.k = "stop" /\ o.at \in {"local", "remote"} /\ o.reply # "none"
  /\ \/ /\ o.reply # "ok" \/ Overtaken(o)
        /\ StopFinally(o)
     \/ /\ o.reply = "ok" /\ ~Overtaken(o)
        /\ StepsTo(o, [o EXCEPT !.at = "fingerprint"])
        /\ UNCHANGED ui
  /\ UNCHANGED <<vEpoch, inference, calls, native, app, used, ghost>>

Drafted(o) ==
  /\ o.k = "stop" /\ o.at = "fingerprint"
  /\ StopFinally(o)
  /\ ghost' = IF Overtaken(o) THEN ghost ELSE [ghost EXCEPT !.drafts = @ \cup {o.cid}]
  /\ UNCHANGED <<vEpoch, inference, calls, native, app, used>>

\* LocalAsrTranscriber.transcribe: a cancelled operation never returns a transcript.
LocalEnds ==
  /\ phone.alive /\ job # VNil
  /\ job' = VNil
  /\ \E v \in {"ok", "error"} : (v = "ok" => ~job.cancelled) /\ Answer(job.by, v)
  /\ UNCHANGED <<ui, vEpoch, asrEpoch, asr, calls, native, app, used, ghost>>

\* _binaryRequest: the server is read first and the epoch is checked after every
\* await, so a revoked request is dropped before it uploads.
Revoked(r) == r.re # asrEpoch
Waiting(r) == \E o \in ops : o.e = r.by /\ o.k = "stop" /\ o.at = "remote" /\ o.reply = "none"

RequestDropped(r) == Revoked(r) /\ asr' = asr \ {r} /\ UNCHANGED <<ops, ghost>>

ReadsServer(r) ==
  /\ ~Revoked(r) /\ r.at = "url"
  /\ asr' = (asr \ {r}) \cup {[r EXCEPT !.at = "open", !.srv = phone.server]}
  /\ UNCHANGED <<ops, ghost>>

Uploads(r) ==
  /\ ~Revoked(r) /\ r.at = "open"
  /\ asr' = (asr \ {r}) \cup {[r EXCEPT !.at = "sent"]}
  /\ ghost' = [ghost EXCEPT !.uploads = @ \cup
                 {[cid |-> r.cid, srv |-> r.srv, late |-> r.cid \in ghost.cleared]}]
  /\ UNCHANGED ops

\* transcriptions on the server: one at a time, the others are told it is busy; a
\* request that is not the one audio format, or not enabled, is refused as well.
ServerAdmits(r) ==
  /\ ~Revoked(r) /\ r.at = "sent"
  /\ \A q \in asr : ~(q.at = "served" /\ q.srv = r.srv)
  /\ asr' = (asr \ {r}) \cup {[r EXCEPT !.at = "served"]}
  /\ UNCHANGED <<ops, ghost>>

ServerRefuses(r) ==
  /\ ~Revoked(r) /\ r.at = "sent"
  /\ asr' = asr \ {r} /\ Answer(r.by, "error")
  /\ UNCHANGED ghost

\* The upstream's transcript, or its failure.
ServerReplies(r) ==
  /\ ~Revoked(r) /\ r.at = "served"
  /\ asr' = asr \ {r}
  /\ \E v \in {"ok", "error"} : Answer(r.by, v)
  /\ UNCHANGED ghost

RequestStep ==
  /\ phone.alive
  /\ \E r \in asr : \/ RequestDropped(r) \/ ReadsServer(r) \/ Uploads(r)
                    \/ ServerAdmits(r) \/ ServerRefuses(r) \/ ServerReplies(r)
  /\ UNCHANGED <<ui, vEpoch, asrEpoch, job, calls, native, app, used>>

\* The request's time is over: its epoch is revoked, the open connection may linger.
RequestTimesOut ==
  /\ phone.alive
  /\ \E r \in asr : ~Revoked(r) /\ Waiting(r) /\ Answer(r.by, "error")
  /\ asrEpoch' = asrEpoch + 1
  /\ UNCHANGED <<ui, vEpoch, asr, job, calls, native, app, used, ghost>>

-----------------------------------------------------------------------------
(* Cancelling, and what cancels.                                            *)

\* The captures whose audio is around and has not become a draft.
InHand == ({o.cid : o \in ops} \cup {ui.cid} \cup {r.cid : r \in asr}) \ ({VNil} \cup ghost.drafts)

\* _cancelVoiceCapture up to its first await.
CancelBegins(why) ==
  /\ vEpoch' = vEpoch + 1
  /\ ui' = [ui EXCEPT !.pending = FALSE, !.recording = FALSE, !.processing = TRUE]
  /\ LET remote == ui.act = "remote"
     IN ops' = ops \cup {[k |-> "cancel", e |-> vEpoch + 1, at |-> "cancel", reply |-> "none",
                          cid |-> ui.cid, remote |-> remote, local |-> job # VNil, failed |-> FALSE,
                          cleaned |-> ui.cid = VNil, covers |-> InHand, why |-> why]}
  /\ Call("cancel", vEpoch + 1, ui.cid)
  /\ ghost' = [ghost EXCEPT !.dropped = @ \cup InHand]

CancelVoice ==
  /\ phone.alive /\ phone.change = "none" /\ used.upsets < MaxUpsets
  /\ ui.recording \/ ui.processing
  /\ CancelBegins("owner")
  /\ used' = [used EXCEPT !.upsets = @ + 1]
  /\ UNCHANGED <<inference, native, app>>

NextCleanup(o) == IF o.remote THEN "remote" ELSE IF o.local THEN "local" ELSE "end"

CancelReplied(o) ==
  /\ o.k = "cancel" /\ o.at = "cancel" /\ o.reply # "none"
  /\ LET clean == o.reply = "true" \/ (o.reply = "false" /\ o.cid = VNil)
     IN StepsTo(o, [o EXCEPT !.at = NextCleanup(o), !.failed = ~clean, !.cleaned = @ \/ clean])
  /\ UNCHANGED <<ui, vEpoch, inference, calls, native, app, used, ghost>>

\* cancelVoiceAsrTranscription: the epoch is revoked, the waiting stop gets an error.
CancelRemote(o) ==
  /\ o.k = "cancel" /\ o.at = "remote"
  /\ asrEpoch' = asrEpoch + 1
  /\ ops' = ({IF p.k = "stop" /\ p.at = "remote" /\ p.reply = "none"
                THEN [p EXCEPT !.reply = "error"] ELSE p : p \in ops} \ {o})
              \cup {[o EXCEPT !.at = IF o.local THEN "local" ELSE "end"]}
  /\ UNCHANGED <<ui, vEpoch, asr, job, calls, native, app, used, ghost>>

\* LocalAsrTranscriber.cancel: waits for the operation to settle.
CancelLocal(o) ==
  /\ o.k = "cancel" /\ o.at = "local"
  /\ \/ /\ job # VNil /\ ~job.cancelled
        /\ job' = [job EXCEPT !.cancelled = TRUE]
        /\ UNCHANGED ops
     \/ /\ job = VNil
        /\ StepsTo(o, [o EXCEPT !.at = "end"])
        /\ UNCHANGED job
  /\ UNCHANGED <<ui, vEpoch, asrEpoch, asr, calls, native, app, used, ghost>>

\* The result: a failed cleanup leaves the screen busy, with the capture to retry.
CancelEnds(o) ==
  /\ o.k = "cancel" /\ o.at = "end"
  /\ Without(o)
  /\ ui' = IF Overtaken(o) THEN ui
           ELSE IF o.failed
                THEN [ui EXCEPT !.recording = FALSE, !.processing = TRUE,
                                !.cid = IF o.cleaned THEN VNil ELSE o.cid]
                ELSE [AtRest EXCEPT !.sel = ui.sel]
  /\ ghost' = IF o.failed THEN ghost ELSE [ghost EXCEPT !.cleared = @ \cup o.covers]
  /\ phone' = IF o.why # "change" THEN phone
              ELSE [phone EXCEPT !.change = IF o.failed THEN "none" ELSE "changing"]
  /\ UNCHANGED <<vEpoch, inference, calls, native, fg, life, used>>

\* _prepareForAuthorityMutation: a pairing or logout first cancels what runs.
PrepareChange ==
  /\ phone.alive /\ phone.change = "none" /\ used.upsets < MaxUpsets
  /\ used' = [used EXCEPT !.upsets = @ + 1]
  /\ \/ /\ Operating
        /\ CancelBegins("change")
        /\ phone' = [phone EXCEPT !.change = "cleaning"]
     \/ /\ ~Operating
        /\ vEpoch' = vEpoch + 1
        /\ phone' = [phone EXCEPT !.change = "changing"]
        /\ UNCHANGED <<ui, ops, calls, ghost>>
  /\ UNCHANGED <<inference, native, fg, life>>

\* pairWithCode selects the new server, or fails; then the screen is reset.
ServerChanges ==
  /\ phone.alive /\ phone.change = "changing"
  /\ \/ \E s \in HomeServers \ {phone.server} : phone' = [phone EXCEPT !.server = s, !.change = "changed"]
     \/ phone' = [phone EXCEPT !.change = "none"]
  /\ UNCHANGED <<screen, inference, calls, native, fg, life, used, ghost>>

\* _resetVoiceAuthorityState
ResetVoice ==
  /\ phone.alive /\ phone.change = "changed"
  /\ phone' = [phone EXCEPT !.change = "none"]
  /\ vEpoch' = vEpoch + 1 /\ ui' = AtRest
  /\ UNCHANGED <<ops, inference, calls, native, fg, life, used, ghost>>

\* onPause cancels natively; the screen hears of it later and cancels too, unless
\* the permission dialog is what took the foreground.
Pause ==
  /\ phone.alive /\ fg /\ PlatformFree /\ used.upsets < MaxUpsets
  /\ fg' = FALSE /\ life' = Append(life, FALSE)
  /\ used' = [used EXCEPT !.upsets = @ + 1]
  /\ \/ CancelTakes(VNil) # VNil /\ Cancelling(VNil, 0, TRUE, "none")
     \/ CancelTakes(VNil) = VNil /\ UNCHANGED <<natives, mic, notes>>
  /\ UNCHANGED <<screen, inference, calls, thr, files, phone, ghost>>

Resume ==
  /\ phone.alive /\ ~fg /\ PlatformFree
  /\ fg' = TRUE /\ life' = Append(life, TRUE)
  /\ UNCHANGED <<screen, inference, calls, native, phone, used, ghost>>

\* didChangeAppLifecycleState: the messages come late, but all and in their order.
LifecycleHeard ==
  /\ phone.alive /\ Len(life) > 1 /\ life' = Tail(life)
  /\ \/ /\ ~life[2] /\ (ui.recording \/ (ui.processing /\ ~ui.pending))
        /\ CancelBegins("lifecycle")
     \/ /\ life[2] \/ ~(ui.recording \/ (ui.processing /\ ~ui.pending))
        /\ UNCHANGED <<screen, calls, ghost>>
  /\ UNCHANGED <<inference, native, fg, phone, used>>

ScreenStep ==
  /\ phone.alive
  /\ \E o \in ops : \/ PermissionAnswered(o) \/ StartReplied(o) \/ LateCancelReplied(o)
                    \/ StopReplied(o) \/ Transcribed(o) \/ Drafted(o)
                    \/ CancelReplied(o) \/ CancelRemote(o) \/ CancelLocal(o) \/ CancelEnds(o)

\* The process dies: only the files stay.  A stop thread whose recorder cannot be
\* joined dies of the exception of its own cleanup, and the process with it.
VoiceCrash ==
  /\ phone.alive
  /\ \/ used.upsets < MaxUpsets
     \/ \E n \in natives : n.r = "cancel" /\ n.at = "join" /\ Alive(n.cid) /\ ~n.plat
  /\ phone' = [phone EXCEPT !.alive = FALSE, !.change = "none"]
  /\ used' = [used EXCEPT !.upsets = @ + 1]
  /\ ui' = AtRest /\ vEpoch' = 0 /\ ops' = {} /\ asrEpoch' = 0 /\ asr' = {} /\ job' = VNil
  /\ calls' = <<>> /\ natives' = {} /\ notes' = NoNotes /\ fg' = TRUE /\ life' = <<TRUE>>
  /\ mic' = [active |-> VNil, retiring |-> VNil, cancelled |-> {}]
  /\ thr' = [c \in Captures |-> IF thr[c] = "none" THEN "none" ELSE "exited"]
  /\ UNCHANGED <<files, ghost>>

\* configureFlutterEngine recovers first: no file of an earlier process survives.
VoiceRestart ==
  /\ ~phone.alive
  /\ phone' = [phone EXCEPT !.alive = TRUE]
  /\ files' = {}
  /\ UNCHANGED <<screen, inference, calls, natives, mic, thr, notes, fg, life, used, ghost>>

VoiceNext ==
  \/ NativeStart \/ NativeCancel \/ NativeStop \/ NativeStep \/ Monitor
  \/ RecorderOpens \/ RecorderEnds
  \/ SelectEngine \/ StartVoice \/ StopVoice \/ CancelVoice \/ ScreenStep
  \/ LocalEnds \/ RequestStep \/ RequestTimesOut
  \/ PrepareChange \/ ServerChanges \/ ResetVoice
  \/ Pause \/ Resume \/ LifecycleHeard \/ VoiceCrash \/ VoiceRestart

VoiceSpec == VoiceInit /\ [][VoiceNext]_voiceVars

-----------------------------------------------------------------------------
\* A capture that was cancelled, by the owner, by leaving the app or for a change of
\* server, never becomes a draft afterwards, however late its transcript is.
NoDraftAfterCancel == ghost.drafts \cap ghost.dropped = {}

\* Audio goes only to the server the phone was paired with when it was recorded, only
\* if the owner had chosen that, and never once its cancellation has been confirmed.
AudioStaysHome ==
  \A u \in ghost.uploads : u.srv = ghost.born[u.cid] /\ ghost.choice[u.cid] = "remote" /\ ~u.late

\* Two recorders never run at once: a capture whose recorder did not stop in time
\* keeps the next one from starting.
OneRecorder == Cardinality({c \in Captures : Alive(c)}) <= 1

\* A recording that runs is one the screen shows, or that one of its operations has
\* started, is stopping or cancels; and none runs behind the foreground.
RecordingAttended ==
  mic.active # VNil =>
    /\ fg
    /\ \/ ui.cid = mic.active
       \/ \E o \in ops : o.cid = mic.active

\* Scratch audio on disk belongs to a capture that is recorded or wound up, or to a
\* stop that rejected it and is about to delete it.
FilesOwned ==
  phone.alive =>
    \A c \in files : \/ c \in {mic.active, mic.retiring}
                     \/ \E n \in natives : n.cid = c /\ n.at = "rejected"

VoiceSafe ==
  /\ NoDraftAfterCancel
  /\ AudioStaysHome
  /\ OneRecorder
  /\ RecordingAttended
  /\ FilesOwned
=============================================================================
