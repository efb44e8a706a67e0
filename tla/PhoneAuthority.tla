--------------------------- MODULE PhoneAuthority ----------------------------
(***************************************************************************)
(* A phone and the servers it pairs with: one-time codes and devices at    *)
(* each origin, the credential the app stores, the notification            *)
(* coordinator that hands it to native code, and the replies native code   *)
(* sends on its own.  Every await of the app is a step boundary; requests  *)
(* of the app overtake each other, calls to native code do not.  The app   *)
(* may die at any step; what it saved stays.                              *)
(***************************************************************************)
EXTENDS Naturals, FiniteSets

CONSTANTS
  Origins,        \* server origins
  Codes,          \* one-time pairing codes
  Devs,           \* device tokens
  Syncs,          \* runs of _syncEnabled that may overlap
  Nil,            \* no origin, code or device
  MaxChanges,     \* bound on changes of authority
  MaxAppCrashes   \* bound on crashes of the app

VARIABLES
  code,           \* pairing_codes
  dev,            \* auth_devices and their push registrations
  url,            \* the selected origin, in preferences
  saved,          \* the credential in secure storage
  cache,          \* _cachedCredential, _tokenLoaded
  native,         \* the reply authority native code holds
  reply,          \* an inline reply, in WorkManager
  optIn,          \* _localOptIn
  pref,           \* its saved value
  epoch,          \* _authorityEpoch
  busy,           \* _busy
  transition,     \* _authorityTransition
  change,         \* the pairing or logout under way
  turnOff,        \* the turning off of notifications under way
  sync,           \* runs of _syncEnabled
  work,           \* the queue and its runner
  unclean,        \* a clearing failed, was interrupted, or was undone by hand
  switches,       \* changes begun, for the bound
  appCrashes

phoneVars == <<code, dev, url, saved, cache, native, reply, optIn, pref, epoch, busy,
               transition, change, turnOff, sync, work, unclean, switches, appCrashes>>
serverState == <<code, dev>>
credentials == <<url, saved, cache>>
coordinator == <<optIn, pref, epoch, busy, transition>>
history == <<unclean, switches, appCrashes>>

PhoneAssumption ==
  /\ Nil \notin Origins \cup Codes \cup Devs /\ {} \notin {Origins, Codes, Devs}
  /\ MaxChanges \in Nat /\ MaxAppCrashes \in Nat
ASSUME PhoneAssumption

NoCredential == [at |-> Nil, token |-> Nil]
NotLoaded == [at |-> "not loaded", token |-> Nil]
NoChange == [pc |-> "none", kind |-> "none", at |-> Nil, got |-> Nil, clean |-> TRUE]
NoTurnOff == [pc |-> "none", epoch |-> 0, again |-> FALSE]
NoSync == [pc |-> "none", epoch |-> 0, by |-> "app", base |-> Nil]
NoWork == [queued |-> FALSE, pc |-> "none", as |-> NoCredential]
NoReply == [pc |-> "none", under |-> NoCredential, as |-> NoCredential]

-----------------------------------------------------------------------------
(* A server.                                                               *)

DevicesOf(o) == {d \in Devs : dev[d].at = o}

\* authenticate: the token is of a device of this server that is not revoked.
Authenticated(c, o) == c.token # Nil /\ dev[c.token].at = o /\ ~dev[c.token].revoked

\* pairing_code_creator: a device, or the host itself, or the bootstrap token while
\* there is no device.
MayIssue(o, creator) ==
  creator = "loopback" \/ (creator = "bootstrap" /\ DevicesOf(o) = {}) \/ creator \in DevicesOf(o)

IssueCode(o) ==
  LET c == CHOOSE x \in Codes : code[x].state = "none" IN
  /\ \E x \in Codes : code[x].state = "none"
  /\ \E creator \in {"loopback", "bootstrap"} \cup {d \in Devs : ~dev[d].revoked} : MayIssue(o, creator)
  /\ code' = [code EXCEPT ![c] = [at |-> o, state |-> "open"]]
  /\ UNCHANGED <<dev, credentials, native, reply, coordinator, change, turnOff, sync, work, history>>

Redeemable(c, o) == code[c] = [at |-> o, state |-> "open"]

\* consume_pairing_code: the code is used up and the device made in one statement.
ConsumePairingCode(c, o, d) ==
  /\ code' = [code EXCEPT ![c].state = "used"]
  /\ dev' = [dev EXCEPT ![d] = [at |-> o, code |-> c, revoked |-> FALSE, route |-> FALSE, retired |-> FALSE]]

\* revoke_device by another device: revoked_at, then push.unregister.
RevokeDevice(d) ==
  /\ dev[d].at # Nil /\ ~dev[d].revoked
  /\ dev' = [dev EXCEPT ![d].revoked = TRUE]
  /\ UNCHANGED <<code, credentials, native, reply, coordinator, change, turnOff, sync, work, history>>

RetireRoute(d) ==
  /\ dev[d].revoked /\ ~dev[d].retired
  /\ dev' = [dev EXCEPT ![d] = [@ EXCEPT !.route = FALSE, !.retired = TRUE]]
  /\ UNCHANGED <<code, credentials, native, reply, coordinator, change, turnOff, sync, work, history>>

-----------------------------------------------------------------------------
(* The credential of the app.                                              *)

Loaded == IF cache = NotLoaded THEN saved ELSE cache

\* _deviceToken: the credential counts only for the origin it is bound to, and only if
\* that is still the selected one.
DeviceTokenFor(base) == IF base = url /\ Loaded.at = url /\ url # Nil THEN Loaded ELSE NoCredential
DeviceToken == DeviceTokenFor(url)

-----------------------------------------------------------------------------
(* The coordinator.                                                        *)

AtRest == change.pc = "none"

\* Mutant: the epoch the sync began with is not compared again.
CurrentUnchecked(s) == optIn = "on"
Current(s) == optIn = "on" /\ sync[s].epoch = epoch

\* cancelAllWorkByTag: what waits is gone, what is being posted is not tried again.
Cancelled == IF reply.pc = "queued" THEN NoReply ELSE IF reply.pc = "posting" THEN [reply EXCEPT !.pc = "stopped"] ELSE reply

StartSync(e) ==
  \E s \in Syncs :
    sync[s].pc = "none" /\ sync' = [sync EXCEPT ![s] = [pc |-> "read", epoch |-> e, by |-> "app", base |-> url]]

\* The button is free again when its sync ends; retrySync leaves it pressed when it
\* was overtaken.
Released(s) == busy' = IF sync[s].by = "enable" \/ (sync[s].by = "retry" /\ sync[s].epoch = epoch) THEN FALSE ELSE busy

\* _bootstrapWithoutPrompt: the saved intent, or what a paired phone implies.
Bootstrap ==
  /\ optIn = "unknown"
  /\ LET on == pref = "on" \/ (pref = "unset" /\ DeviceToken # NoCredential) IN
     /\ optIn' = IF on THEN "on" ELSE "off"
     /\ pref' = IF pref = "unset" THEN (IF on THEN "on" ELSE "off") ELSE pref
     /\ IF on THEN StartSync(epoch) ELSE UNCHANGED sync
  /\ cache' = Loaded
  /\ UNCHANGED <<serverState, url, saved, native, reply, epoch, busy, transition, change, turnOff, work, history>>

\* retrySync and _enableFromExplicitUserAction, which the panel offers whenever the
\* coordinator is not busy, also while a change waits for its result.
Press(s) ==
  /\ ~busy /\ sync[s].pc = "none"
  /\ \/ /\ optIn = "on" /\ sync' = [sync EXCEPT ![s] = [pc |-> "read", epoch |-> epoch, by |-> "retry", base |-> url]]
        /\ UNCHANGED <<optIn, pref>>
     \/ /\ optIn = "off" /\ sync' = [sync EXCEPT ![s] = [pc |-> "permission", epoch |-> epoch, by |-> "enable", base |-> Nil]]
        /\ optIn' = "on" /\ pref' = "on"
  /\ busy' = TRUE /\ unclean' = (unclean \/ transition.on)
  /\ UNCHANGED <<serverState, credentials, native, reply, epoch, transition, change, turnOff, work, switches, appCrashes>>

\* requestPermission: the epoch is read only after the answer.
Permission(s) ==
  /\ sync[s].pc = "permission"
  /\ \/ /\ sync' = [sync EXCEPT ![s] = [@ EXCEPT !.pc = "read", !.epoch = epoch, !.base = url]]
        /\ unclean' = (unclean \/ transition.on) /\ UNCHANGED busy
     \/ sync' = [sync EXCEPT ![s] = NoSync] /\ Released(s) /\ UNCHANGED unclean
  /\ UNCHANGED <<serverState, credentials, native, reply, optIn, pref, epoch, transition, change, turnOff, work, switches, appCrashes>>

\* notificationReplyAuthority, then configureReplyAuthority: a sync that was overtaken
\* stops before native code learns anything.  A new authority ends the old one's replies.
SyncReads(s) ==
  /\ sync[s].pc = "read"
  /\ cache' = Loaded
  /\ LET authority == DeviceTokenFor(sync[s].base) IN
     \/ /\ Current(s) /\ authority # NoCredential
        /\ native' = authority
        /\ reply' = IF native \notin {NoCredential, authority} THEN Cancelled ELSE reply
        /\ sync' = [sync EXCEPT ![s].pc = "register"] /\ UNCHANGED busy
     \/ /\ sync' = [sync EXCEPT ![s] = NoSync]
        /\ Released(s)
        /\ UNCHANGED <<native, reply>>
  /\ UNCHANGED <<serverState, url, saved, optIn, pref, epoch, transition, change, turnOff, work, history>>

\* registerUnifiedPush, and what it returns goes to the queue.
SyncRegisters(s) ==
  /\ sync[s].pc = "register"
  /\ sync' = [sync EXCEPT ![s] = NoSync]
  /\ Released(s)
  /\ work' = [work EXCEPT !.queued = @ \/ Current(s)]
  /\ UNCHANGED <<serverState, credentials, native, reply, optIn, pref, epoch, transition, change, turnOff, history>>

\* _drainWork: not while a change is under way; what runs is not stopped by one.  The
\* origin of the request is read first, its token when the connection is open.
RunWork ==
  /\ work.queued /\ work.pc = "none" /\ ~transition.on
  /\ work' = IF optIn = "on" THEN [queued |-> FALSE, pc |-> "open", as |-> [NoCredential EXCEPT !.at = url]] ELSE NoWork
  /\ UNCHANGED <<serverState, credentials, native, reply, coordinator, change, turnOff, sync, history>>

SendRegistration ==
  /\ work.pc = "open"
  /\ work' = [work EXCEPT !.pc = "sent", !.as = [at |-> work.as.at, token |-> DeviceTokenFor(work.as.at).token]]
  /\ cache' = Loaded
  /\ UNCHANGED <<serverState, url, saved, native, reply, coordinator, change, turnOff, sync, history>>

\* require_auth lets the request in, or the answer is an error.
AdmitRegistration ==
  /\ work.pc = "sent"
  /\ work' = IF Authenticated(work.as, work.as.at) THEN [work EXCEPT !.pc = "admitted"]
             ELSE [NoWork EXCEPT !.queued = work.queued]
  /\ UNCHANGED <<serverState, credentials, native, reply, coordinator, change, turnOff, sync, history>>

\* upsert_registration: one statement, for a device that is not revoked.
UpsertRegistration ==
  /\ work.pc = "admitted"
  /\ dev' = [dev EXCEPT ![work.as.token].route = @ \/ ~dev[work.as.token].revoked]
  /\ work' = [NoWork EXCEPT !.queued = work.queued]
  /\ UNCHANGED <<code, credentials, native, reply, coordinator, change, turnOff, sync, history>>

-----------------------------------------------------------------------------
(* A change of authority: pairing, logging out, turning notifications off. *)

Overtakes == epoch' = epoch + 1 /\ work' = [work EXCEPT !.queued = FALSE]

\* prepareAuthorityChange; only a change already under way refuses it.
StartChange(kind) ==
  /\ AtRest /\ switches < MaxChanges /\ optIn # "unknown" /\ ~transition.on
  /\ transition' = [on |-> TRUE, optIn |-> optIn]
  /\ busy' = TRUE /\ switches' = switches + 1 /\ Overtakes
  /\ change' = [NoChange EXCEPT !.pc = "clear", !.kind = kind]
  /\ UNCHANGED <<serverState, credentials, native, reply, optIn, pref, turnOff, sync, unclean, appCrashes>>

\* A button pressed since the change began.
Pressed == \E s \in Syncs : sync[s].pc = "read" /\ sync[s].epoch = epoch

\* _clearLocalReplyAuthority: pending replies, the authority, pending replies again.
ClearReplies ==
  /\ change.pc = "clear"
  /\ \/ /\ native' = NoCredential
        /\ reply' = Cancelled
        /\ change' = [change EXCEPT !.pc = "unregister"]
        /\ unclean' = Pressed
     \/ /\ change' = [change EXCEPT !.pc = "unregister", !.clean = FALSE]
        /\ unclean' = TRUE
        /\ UNCHANGED <<native, reply>>
  /\ UNCHANGED <<serverState, credentials, coordinator, turnOff, sync, work, switches, appCrashes>>

RouteOff(c) ==
  \/ UNCHANGED dev
  \/ Authenticated(c, url) /\ dev' = [dev EXCEPT ![c.token].route = FALSE]

\* unregisterPush, which the network may lose, then unregisterUnifiedPush.  Local cleanup
\* that failed ends the change.
Unregister ==
  /\ change.pc = "unregister"
  /\ RouteOff(DeviceToken)
  /\ cache' = Loaded
  /\ busy' = FALSE
  /\ \/ change.clean /\ change' = [change EXCEPT !.pc = IF change.kind = "pair" THEN "ask" ELSE "leave"]
     \/ change' = [change EXCEPT !.pc = "abort"]
  /\ UNCHANGED <<code, url, saved, native, reply, optIn, pref, epoch, transition, turnOff, sync, work, unclean, switches, appCrashes>>

\* pair_device with the code of an invitation.  The code may have expired, and the answer
\* may be lost after the server made the device.
AskToPair(o, c) ==
  /\ change.pc = "ask"
  /\ \/ LET d == CHOOSE x \in Devs : dev[x].at = Nil IN
          /\ Redeemable(c, o) /\ \E x \in Devs : dev[x].at = Nil
          /\ ConsumePairingCode(c, o, d)
          /\ \/ change' = [change EXCEPT !.pc = "retire", !.at = o, !.got = d]
             \/ change' = [change EXCEPT !.pc = "abort"]
     \/ change' = [change EXCEPT !.pc = "abort"] /\ UNCHANGED serverState
  /\ UNCHANGED <<credentials, native, reply, coordinator, turnOff, sync, work, history>>

\* _unregisterPushBestEffort for the previous pairing.
RetirePrevious ==
  /\ change.pc = "retire"
  /\ IF url = Nil THEN UNCHANGED dev ELSE RouteOff(DeviceToken)
  /\ cache' = Loaded
  /\ change' = [change EXCEPT !.pc = IF url = change.at THEN "write" ELSE "forget"]
  /\ UNCHANGED <<code, url, saved, native, reply, coordinator, turnOff, sync, work, unclean, switches, appCrashes>>

\* _clearDeviceToken
ForgetToken ==
  /\ change.pc = "forget"
  /\ saved' = NoCredential /\ cache' = NoCredential
  /\ change' = [change EXCEPT !.pc = IF change.kind = "pair" THEN "write" ELSE "commit"]
  /\ UNCHANGED <<serverState, url, native, reply, coordinator, turnOff, sync, work, history>>

WriteToken ==
  /\ change.pc = "write"
  /\ saved' = [at |-> change.at, token |-> change.got] /\ cache' = saved'
  /\ change' = [change EXCEPT !.pc = "publish"]
  /\ UNCHANGED <<serverState, url, native, reply, coordinator, turnOff, sync, work, history>>

PublishOrigin ==
  /\ change.pc = "publish"
  /\ url' = change.at
  /\ change' = [change EXCEPT !.pc = "commit"]
  /\ UNCHANGED <<serverState, saved, cache, native, reply, coordinator, turnOff, sync, work, history>>

\* logout: the server revokes the device and its route, or never hears of it.
LogOut ==
  /\ change.pc = "leave"
  /\ \/ UNCHANGED dev
     \/ /\ Authenticated(DeviceToken, url)
        /\ dev' = [dev EXCEPT ![DeviceToken.token] = [@ EXCEPT !.revoked = TRUE, !.route = FALSE, !.retired = TRUE]]
  /\ cache' = Loaded
  /\ change' = [change EXCEPT !.pc = "forget"]
  /\ UNCHANGED <<code, url, saved, native, reply, coordinator, turnOff, sync, work, unclean, switches, appCrashes>>

\* commitAuthorityChange
Commit ==
  /\ change.pc = "commit"
  /\ transition' = [on |-> FALSE, optIn |-> "off"]
  /\ Overtakes /\ busy' = busy /\ cache' = Loaded
  /\ LET keep == change.kind = "pair" /\ transition.optIn = "on" /\ DeviceToken # NoCredential IN
     /\ optIn' = IF keep THEN "on" ELSE "off"
     /\ pref' = IF keep THEN "on" ELSE IF transition.optIn = "on" THEN "off" ELSE pref
     /\ IF keep THEN StartSync(epoch + 1) ELSE UNCHANGED sync
  /\ change' = NoChange
  /\ UNCHANGED <<serverState, url, saved, native, reply, turnOff, history>>

\* abortAuthorityChange
Abort ==
  /\ change.pc = "abort"
  /\ transition' = [on |-> FALSE, optIn |-> "off"]
  /\ Overtakes /\ busy' = busy
  /\ optIn' = transition.optIn
  /\ pref' = IF transition.optIn = "on" THEN "on" ELSE pref
  /\ IF transition.optIn = "on" THEN StartSync(epoch + 1) ELSE UNCHANGED sync
  /\ change' = NoChange
  /\ UNCHANGED <<serverState, credentials, native, reply, turnOff, history>>

\* _disableLocallyAndRemotely and, once off, _retryDisabledCleanup.
TurnOff ==
  /\ ~busy /\ switches < MaxChanges /\ turnOff.pc = "none"
  /\ \/ optIn = "on" /\ optIn' = "off" /\ pref' = "off" /\ Overtakes
     \/ optIn = "off" /\ turnOff.again /\ epoch' = epoch + 1 /\ UNCHANGED <<optIn, pref, work>>
  /\ busy' = TRUE /\ switches' = switches + 1
  /\ turnOff' = [pc |-> "clear", epoch |-> epoch + 1, again |-> FALSE]
  /\ UNCHANGED <<serverState, credentials, native, reply, transition, change, sync, unclean, appCrashes>>

TurnOffClears ==
  /\ turnOff.pc = "clear"
  /\ \/ native' = NoCredential /\ reply' = Cancelled /\ unclean' = Pressed
     \/ unclean' = TRUE /\ UNCHANGED <<native, reply>>
  /\ turnOff' = [turnOff EXCEPT !.pc = "unregister"]
  /\ UNCHANGED <<serverState, credentials, coordinator, change, sync, work, switches, appCrashes>>

\* When it was overtaken the coordinator stays busy.
TurnOffUnregisters ==
  /\ turnOff.pc = "unregister"
  /\ RouteOff(DeviceToken)
  /\ cache' = Loaded
  /\ busy' = (busy /\ turnOff.epoch # epoch)
  /\ \E lost \in BOOLEAN : turnOff' = [NoTurnOff EXCEPT !.again = lost /\ turnOff.epoch = epoch]
  /\ UNCHANGED <<code, url, saved, native, reply, optIn, pref, epoch, transition, change, sync, work, unclean, switches, appCrashes>>

-----------------------------------------------------------------------------
(* Replies from a notification, which need no app.                         *)

\* InlineReplyReceiver
QueueReply ==
  /\ native # NoCredential /\ reply.pc = "none"
  /\ reply' = [pc |-> "queued", under |-> native, as |-> NoCredential]
  /\ UNCHANGED <<serverState, credentials, native, coordinator, change, turnOff, sync, work, history>>

\* InlineReplyWorker: only under the authority it was queued under.
PostReply ==
  /\ reply.pc = "queued"
  /\ IF native = reply.under
     THEN reply' = [reply EXCEPT !.pc = "posting", !.as = native]
     ELSE reply' = NoReply
  /\ UNCHANGED <<serverState, credentials, native, coordinator, change, turnOff, sync, work, unclean, switches, appCrashes>>

\* The answer: taken, retried, or refused, which clears whatever authority there is now.
ReplyAnswered ==
  /\ reply.pc \in {"posting", "stopped"}
  /\ \/ reply' = NoReply /\ UNCHANGED native
     \/ reply.pc = "posting" /\ reply' = [reply EXCEPT !.pc = "queued", !.as = NoCredential] /\ UNCHANGED native
     \/ ~Authenticated(reply.as, reply.as.at) /\ reply' = NoReply /\ native' = NoCredential
  /\ UNCHANGED <<serverState, credentials, coordinator, change, turnOff, sync, work, history>>

-----------------------------------------------------------------------------
\* The app dies and starts again.
AppCrashes ==
  /\ appCrashes < MaxAppCrashes
  /\ appCrashes' = appCrashes + 1
  /\ cache' = NotLoaded /\ optIn' = "unknown" /\ epoch' = 0 /\ busy' = FALSE
  /\ transition' = [on |-> FALSE, optIn |-> "off"]
  /\ change' = NoChange /\ turnOff' = NoTurnOff /\ sync' = [s \in Syncs |-> NoSync] /\ work' = NoWork
  /\ unclean' = (unclean \/ ~AtRest \/ turnOff.pc # "none")
  /\ UNCHANGED <<serverState, url, saved, native, reply, pref, switches>>

NoDevice == [at |-> Nil, code |-> Nil, revoked |-> FALSE, route |-> FALSE, retired |-> FALSE]

NeverPaired ==
  /\ code = [c \in Codes |-> [at |-> Nil, state |-> "none"]]
  /\ dev = [d \in Devs |-> NoDevice]
  /\ url = Nil /\ saved = NoCredential

PairedWith(o, c, d) ==
  /\ code = [x \in Codes |-> IF x = c THEN [at |-> o, state |-> "used"] ELSE [at |-> Nil, state |-> "none"]]
  /\ dev = [x \in Devs |-> IF x = d THEN [NoDevice EXCEPT !.at = o, !.code = c] ELSE NoDevice]
  /\ url = o /\ saved = [at |-> o, token |-> d]

\* An app that was just started, paired or not.
PhoneInit ==
  /\ NeverPaired
     \/ PairedWith(CHOOSE x \in Origins : TRUE, CHOOSE x \in Codes : TRUE, CHOOSE x \in Devs : TRUE)
  /\ cache = NotLoaded
  /\ native = NoCredential /\ reply = NoReply
  /\ optIn = "unknown" /\ pref = "unset" /\ epoch = 0 /\ busy = FALSE
  /\ transition = [on |-> FALSE, optIn |-> "off"]
  /\ change = NoChange /\ turnOff = NoTurnOff /\ sync = [s \in Syncs |-> NoSync] /\ work = NoWork
  /\ unclean = FALSE /\ switches = 0 /\ appCrashes = 0

PhoneNext ==
  \/ \E o \in Origins : IssueCode(o) \/ \E c \in Codes : AskToPair(o, c)
  \/ \E d \in Devs : RevokeDevice(d) \/ RetireRoute(d)
  \/ Bootstrap
  \/ \E s \in Syncs : Press(s) \/ Permission(s) \/ SyncReads(s) \/ SyncRegisters(s)
  \/ RunWork \/ SendRegistration \/ AdmitRegistration \/ UpsertRegistration
  \/ StartChange("pair") \/ StartChange("logout") \/ ClearReplies \/ Unregister
  \/ RetirePrevious \/ ForgetToken \/ WriteToken \/ PublishOrigin
  \/ LogOut \/ Commit \/ Abort \/ TurnOff \/ TurnOffClears \/ TurnOffUnregisters
  \/ QueueReply \/ PostReply \/ ReplyAnswered
  \/ AppCrashes

PhoneSpec == PhoneInit /\ [][PhoneNext]_phoneVars

-----------------------------------------------------------------------------
(* What pairing and its changes promise.                                   *)

PhoneTypeOK ==
  /\ url \in Origins \cup {Nil} /\ epoch \in 0..(switches + switches)
  /\ \A x \in {saved, native} : x.at \in Origins \cup {Nil} /\ x.token \in Devs \cup {Nil}
  /\ change.got \in Devs \cup {Nil}

\* A token only ever travels to the server that issued it, whichever requests, replies
\* and pairings overlap and wherever the app dies.
TokenGoesHome ==
  \A c \in {DeviceToken, native, work.as, reply.as} : c.token # Nil => dev[c.token].at = c.at

\* A reply leaves under the authority it was written under, or not at all.
ReplyKeepsItsAuthority == reply.pc \in {"posting", "stopped"} => reply.as = reply.under

\* A code makes one device.
OneDevicePerCode == \A d, e \in Devs : dev[d].code # Nil /\ dev[d].code = dev[e].code => d = e

\* Once its revocation is complete a device gets no notification route again, although
\* a registration may have been admitted before.
RevokedHasNoRoute == \A d \in Devs : dev[d].retired => ~dev[d].route

\* After prepareAuthorityChange, until its result, and while notifications are off, the
\* native side holds no authority and no reply waits: no sync that was overtaken brings
\* them back.  A failed clearing and the retry button void this.
QuietWithoutAuthority ==
  \/ unclean
  \/ (change.pc \in {"ask", "retire", "forget", "write", "publish", "leave", "commit"}
        \/ (AtRest /\ optIn = "off" /\ turnOff.pc = "none")) => native = NoCredential /\ reply.pc # "queued"

\* Pairing and the changes of authority, together.
PhoneSafe ==
  /\ PhoneTypeOK /\ TokenGoesHome /\ ReplyKeepsItsAuthority
  /\ OneDevicePerCode /\ RevokedHasNoRoute /\ QuietWithoutAuthority
=============================================================================
