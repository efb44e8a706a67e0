----------------------------- MODULE ActorInbox -----------------------------
(***************************************************************************)
(* The inboxes of one actor (tm-agents): each a bounded channel, a backlog *)
(* for messages a filtered reader has set aside, a byte budget reserved    *)
(* before the send and an unread counter raised after it.  Waits run in    *)
(* slices, each of which looks at the backlog once and then listens on the *)
(* channel; a drain takes from the backlog and then empties the channel.   *)
(* A reader's future may be dropped at any await, and a restart gives the  *)
(* actor a new inbox while senders and readers still hold the old one.     *)
(* Every message costs one unit of the byte budget.                        *)
(***************************************************************************)
EXTENDS Naturals, FiniteSets, Sequences, SequencesExt

CONSTANTS
    Senders,        \* actors that send to this one
    Readers,        \* concurrent waits and drains of its own
    ChannelCap,     \* MAX_INBOX_MESSAGES
    ByteBudget,     \* MAX_INBOX_BYTES
    MaxSent,        \* messages tried, over all senders
    MaxInboxes      \* inboxes one actor is given, one more than its restarts

ASSUME InboxConstants ==
    /\ IsFiniteSet(Senders) /\ IsFiniteSet(Readers)
    /\ {ChannelCap, ByteBudget, MaxSent, MaxInboxes} \subseteq Nat \ {0}

VARIABLES
    alive,      \* the actor's record is live
    current,    \* the inbox the registry has for it
    inbox,      \* every inbox: channel, backlog, bytes (retained_bytes) and unread
    sending,    \* each sender: idle, reserved, or sent and not yet counted, and where
    tried,      \* messages tried so far
    reading,    \* each reader: its inbox, what it is for and the messages in its hands
    taken,      \* history: how often a message was returned to the actor
    admitted,   \* history: messages whose sender was told "delivered"
    leaked,     \* history: messages gone with a reader that had not released them
    dropped     \* history: messages gone with a drain that had

inboxVars == <<alive, current, inbox, sending, tried, reading, taken, admitted, leaked, dropped>>

Inboxes == 1..MaxInboxes
ActorMessage == Senders \X (1..MaxSent)
Anyone == "anyone"
NoMessage == <<>>
Empty == [channel |-> <<>>, backlog |-> <<>>, bytes |-> 0, unread |-> 0]
NotSending == [pc |-> "idle", to |-> 1]
Rest == [pc |-> "idle", in |-> 1, from |-> Anyone, held |-> NoMessage, drained |-> <<>>]

InboxTypeOK ==
    /\ alive \in BOOLEAN /\ current \in Inboxes
    /\ \A k \in Inboxes :
            /\ inbox[k].channel \in Seq(ActorMessage) /\ Len(inbox[k].channel) <= ChannelCap
            /\ inbox[k].backlog \in Seq(ActorMessage)
            /\ inbox[k].bytes \in 0..ByteBudget /\ inbox[k].unread \in Nat
    /\ sending \in [Senders -> [pc : {"idle", "checked", "reserved", "sent"}, to : Inboxes]]
    /\ tried \in [Senders -> 0..MaxSent]
    /\ \A r \in Readers :
            /\ reading[r].pc \in {"idle", "looking", "queueing", "listening", "setting_aside",
                                  "drain_queueing", "emptying"}
            /\ reading[r].in \in Inboxes
            /\ reading[r].held = NoMessage \/ reading[r].held \in ActorMessage
            /\ reading[r].drained \in Seq(ActorMessage)
    /\ taken \in [ActorMessage -> Nat]
    /\ admitted \subseteq ActorMessage /\ dropped \subseteq ActorMessage
    /\ leaked \in [Inboxes -> SUBSET ActorMessage]

InboxInit ==
    /\ alive = TRUE /\ current = 1
    /\ inbox = [k \in Inboxes |-> Empty]
    /\ sending = [s \in Senders |-> NotSending]
    /\ tried = [s \in Senders |-> 0]
    /\ reading = [r \in Readers |-> Rest]
    /\ taken = [m \in ActorMessage |-> 0] /\ admitted = {} /\ dropped = {}
    /\ leaked = [k \in Inboxes |-> {}]

Among(ms, m) == Cardinality({i \in DOMAIN ms : ms[i] = m})
Matches(m, from) == from = Anyone \/ m[1] = from

-----------------------------------------------------------------------------
(* send_message_for_session                                                *)

CheckReachable(s) ==
    /\ sending[s].pc = "idle" /\ FoldFunction(+, 0, tried) < MaxSent
    /\ tried' = [tried EXCEPT ![s] = @ + 1]
    /\ sending' = [sending EXCEPT ![s].pc = IF alive THEN "checked" ELSE "idle"]
    /\ UNCHANGED <<alive, current, inbox, reading, taken, admitted, leaked, dropped>>

\* ensure_inbox fetches the inbox only now: it may be that of a later incarnation.
Reserve(s) ==
    /\ sending[s].pc = "checked"
    /\ \/ /\ inbox[current].bytes < ByteBudget
          /\ inbox' = [inbox EXCEPT ![current].bytes = @ + 1]
          /\ sending' = [sending EXCEPT ![s] = [pc |-> "reserved", to |-> current]]
       \/ /\ inbox[current].bytes >= ByteBudget
          /\ sending' = [sending EXCEPT ![s] = NotSending]
          /\ UNCHANGED inbox
    /\ UNCHANGED <<alive, current, tried, reading, taken, admitted, leaked, dropped>>

ReleaseReserved(n) == n - 1

ChannelRoom(k) == Len(inbox[k].channel) < ChannelCap

\* A full channel gives the reservation back: backpressured.
TrySend(s) ==
    LET k == sending[s].to IN
    /\ sending[s].pc = "reserved"
    /\ \/ /\ ChannelRoom(k)
          /\ inbox' = [inbox EXCEPT ![k].channel = Append(@, <<s, tried[s]>>)]
          /\ sending' = [sending EXCEPT ![s].pc = "sent"]
       \/ /\ ~ChannelRoom(k)
          /\ inbox' = [inbox EXCEPT ![k].bytes = ReleaseReserved(@)]
          /\ sending' = [sending EXCEPT ![s] = NotSending]
    /\ UNCHANGED <<alive, current, tried, reading, taken, admitted, leaked, dropped>>

\* The counter is raised after the message can already have been taken.
CountUnread(s) ==
    /\ sending[s].pc = "sent"
    /\ inbox' = [inbox EXCEPT ![sending[s].to].unread = @ + 1]
    /\ admitted' = admitted \cup {<<s, tried[s]>>}
    /\ sending' = [sending EXCEPT ![s] = NotSending]
    /\ UNCHANGED <<alive, current, tried, reading, taken, leaked, dropped>>

-----------------------------------------------------------------------------
(* wait                                                                    *)

\* mark_message_taken, for each of n messages handed to the actor.
Marked(b, n) ==
    [b EXCEPT !.unread = IF @ >= n THEN @ - n ELSE 0, !.bytes = @ - n]

\* The receiver's lock is held by a listening wait and by a drain from its first try_recv.
ChannelFree(k) ==
    \A r \in Readers : reading[r].in = k => reading[r].pc \notin {"listening", "emptying"}

\* Each slice asks the registry for the inbox again.
Slice(from) == [Rest EXCEPT !.pc = "looking", !.in = current, !.from = from]

BeginWait(r, from) ==
    /\ reading[r].pc = "idle" /\ alive
    /\ reading' = [reading EXCEPT ![r] = Slice(from)]
    /\ UNCHANGED <<alive, current, inbox, sending, tried, taken, admitted, leaked, dropped>>

MatchingIn(k, from) == {i \in DOMAIN inbox[k].backlog : Matches(inbox[k].backlog[i], from)}

\* The backlog is looked at once, at the start of a slice.
LookInBacklog(r) ==
    LET k == reading[r].in
        here == MatchingIn(k, reading[r].from) IN
    /\ reading[r].pc = "looking"
    /\ \/ /\ here # {}
          /\ LET i == Min(here) IN
                /\ taken' = [taken EXCEPT ![inbox[k].backlog[i]] = @ + 1]
                /\ inbox' = [inbox EXCEPT ![k] = Marked([@ EXCEPT !.backlog = RemoveAt(@, i)], 1)]
          /\ reading' = [reading EXCEPT ![r] = Rest]
       \/ /\ here = {}
          /\ reading' = [reading EXCEPT ![r].pc = "queueing"]
          /\ UNCHANGED <<inbox, taken>>
    /\ UNCHANGED <<alive, current, sending, tried, admitted, leaked, dropped>>

LockChannel(r) ==
    /\ reading[r].pc = "queueing" /\ ChannelFree(reading[r].in)
    /\ reading' = [reading EXCEPT ![r].pc = "listening"]
    /\ UNCHANGED <<alive, current, inbox, sending, tried, taken, admitted, leaked, dropped>>

\* The receiver is unlocked with the message in hand.
ReceiveMessage(r) ==
    LET k == reading[r].in
        m == Head(inbox[k].channel)
        rest == [inbox[k] EXCEPT !.channel = Tail(@)] IN
    /\ reading[r].pc = "listening" /\ inbox[k].channel # <<>>
    /\ \/ /\ Matches(m, reading[r].from)
          /\ inbox' = [inbox EXCEPT ![k] = Marked(rest, 1)]
          /\ taken' = [taken EXCEPT ![m] = @ + 1]
          /\ reading' = [reading EXCEPT ![r] = Rest]
       \/ /\ ~Matches(m, reading[r].from)
          /\ inbox' = [inbox EXCEPT ![k] = rest]
          /\ reading' = [reading EXCEPT ![r].pc = "setting_aside", ![r].held = m]
          /\ UNCHANGED taken
    /\ UNCHANGED <<alive, current, sending, tried, admitted, leaked, dropped>>

\* The reader listens on without another look at the backlog, or its slice is over.
PutDown(r) ==
    \/ reading' = [reading EXCEPT ![r].pc = "queueing", ![r].held = NoMessage]
    \/ reading' = [reading EXCEPT ![r] = Slice(@.from)]

\* Variant, not the code: a message the wait is not for is dropped.
ForgetHeld(r) ==
    /\ reading[r].pc = "setting_aside"
    /\ PutDown(r)
    /\ inbox' = [inbox EXCEPT ![reading[r].in].bytes = @ - 1]
    /\ UNCHANGED <<alive, current, sending, tried, taken, admitted, leaked, dropped>>

\* A message for somebody else's wait goes to the backlog.
SetAside(r) ==
    /\ reading[r].pc = "setting_aside"
    /\ inbox' = [inbox EXCEPT ![reading[r].in].backlog = Append(@, reading[r].held)]
    /\ PutDown(r)
    /\ UNCHANGED <<alive, current, sending, tried, taken, admitted, leaked, dropped>>

\* The 50 ms slice is over: wait_for_actor_message_or_cancel starts another one.
NextSlice(r) ==
    /\ reading[r].pc = "listening"
    /\ reading' = [reading EXCEPT ![r] = Slice(@.from)]
    /\ UNCHANGED <<alive, current, inbox, sending, tried, taken, admitted, leaked, dropped>>

\* The wait's own deadline, or the actor was cancelled: looked at before each slice.
EndWait(r) ==
    /\ reading[r].pc = "looking"
    /\ reading' = [reading EXCEPT ![r] = Rest]
    /\ UNCHANGED <<alive, current, inbox, sending, tried, taken, admitted, leaked, dropped>>

-----------------------------------------------------------------------------
(* drain: agents.inbox and the drain before each model call; neither asks  *)
(* for one sender                                                          *)

\* First the whole backlog, under its lock.
DrainBacklog(r) ==
    LET b == inbox[current].backlog IN
    /\ reading[r].pc = "idle" /\ alive
    /\ inbox' = [inbox EXCEPT ![current] = Marked([@ EXCEPT !.backlog = <<>>], Len(b))]
    /\ reading' = [reading EXCEPT ![r] =
           [Rest EXCEPT !.pc = "drain_queueing", !.in = current, !.drained = b]]
    /\ UNCHANGED <<alive, current, sending, tried, taken, admitted, leaked, dropped>>

MayReceive(r) ==
    \/ reading[r].pc = "emptying"
    \/ reading[r].pc = "drain_queueing" /\ ChannelFree(reading[r].in)

\* Then the channel, message by message under the receiver's lock, until it is empty.
DrainNext(r) ==
    LET k == reading[r].in IN
    /\ MayReceive(r)
    /\ \/ /\ inbox[k].channel = <<>>
          /\ taken' = [m \in ActorMessage |-> taken[m] + Among(reading[r].drained, m)]
          /\ reading' = [reading EXCEPT ![r] = Rest]
          /\ UNCHANGED inbox
       \/ /\ inbox[k].channel # <<>>
          /\ inbox' = [inbox EXCEPT ![k] = Marked([@ EXCEPT !.channel = Tail(@)], 1)]
          /\ reading' = [reading EXCEPT ![r].pc = "emptying", ![r].drained = Append(@, Head(inbox[k].channel))]
          /\ UNCHANGED taken
    /\ UNCHANGED <<alive, current, sending, tried, admitted, leaked, dropped>>

-----------------------------------------------------------------------------
(* What befalls the actor                                                  *)

\* The host call's future is dropped at an await: what it holds goes with it.  A message on
\* its way to the backlog keeps its bytes, drained ones have given theirs back.
DropReader(r) ==
    /\ reading[r].pc \notin {"idle", "emptying"}
    /\ leaked' = [leaked EXCEPT ![reading[r].in] =
           IF reading[r].held = NoMessage THEN @ ELSE @ \cup {reading[r].held}]
    /\ dropped' = dropped \cup Range(reading[r].drained)
    /\ reading' = [reading EXCEPT ![r] = Rest]
    /\ UNCHANGED <<alive, current, inbox, sending, tried, taken, admitted>>

\* The record becomes terminal: later sends are unreachable, this one's receipts stand.
\* Bounded with the restarts: the last incarnation goes on.
EndActor ==
    /\ alive /\ current < MaxInboxes
    /\ alive' = FALSE
    /\ UNCHANGED <<current, inbox, sending, tried, reading, taken, admitted, leaked, dropped>>

\* A restart puts a new inbox in the registry; whoever holds the old one goes on with it.
RestartActor ==
    /\ ~alive /\ current < MaxInboxes
    /\ alive' = TRUE /\ current' = current + 1
    /\ UNCHANGED <<inbox, sending, tried, reading, taken, admitted, leaked, dropped>>

SendStep(s) == CheckReachable(s) \/ Reserve(s) \/ TrySend(s) \/ CountUnread(s)
WaitStep(r) == LookInBacklog(r) \/ LockChannel(r) \/ ReceiveMessage(r) \/ SetAside(r) \/ NextSlice(r)

InboxNext ==
    \/ \E s \in Senders : SendStep(s)
    \/ \E r \in Readers : WaitStep(r) \/ EndWait(r) \/ DrainBacklog(r) \/ DrainNext(r) \/ DropReader(r)
    \/ \E r \in Readers, from \in Senders \cup {Anyone} : BeginWait(r, from)
    \/ EndActor \/ RestartActor

InboxSpec == InboxInit /\ [][InboxNext]_inboxVars

\* Readers are scheduled, the receiver's lock is granted in order of arrival, and a slice
\* ends by its timer.
InboxFairness ==
    \A r \in Readers :
        /\ WF_inboxVars(LookInBacklog(r)) /\ WF_inboxVars(ReceiveMessage(r)) /\ SF_inboxVars(LockChannel(r))
        /\ WF_inboxVars(SetAside(r)) /\ WF_inboxVars(NextSlice(r))
        /\ SF_inboxVars(DrainNext(r))

-----------------------------------------------------------------------------
Holding(k) == {r \in Readers : reading[r].in = k /\ reading[r].held # NoMessage}

\* Messages that still hold bytes of inbox k, those nobody can reach any more included.
Kept(k) ==
    Len(inbox[k].channel) + Len(inbox[k].backlog) + Cardinality(Holding(k)) + Cardinality(leaked[k])

\* The byte budget of an inbox is held exactly by the messages somewhere on their way: it
\* lets no more in, and leaks, which would close the inbox for good, only by what a reader
\* dropped between the channel and the backlog had in its hands.
BudgetIsExact ==
    \A k \in Inboxes :
        inbox[k].bytes = Kept(k) + Cardinality({s \in Senders : sending[s] = [pc |-> "reserved", to |-> k]})

\* A delivered message is in one place and once: in a channel or a backlog, in a reader's
\* hands, returned to the actor, or gone with a reader that was dropped holding it.
DeliveredOnce ==
    \A m \in admitted :
        FoldSet(LAMBDA k, n : n + Among(inbox[k].channel, m) + Among(inbox[k].backlog, m)
                                + (IF m \in leaked[k] THEN 1 ELSE 0), 0, Inboxes)
        + FoldSet(LAMBDA r, n : n + Among(reading[r].drained, m)
                                  + (IF reading[r].held = m THEN 1 ELSE 0), 0, Readers)
        + taken[m] + (IF m \in dropped THEN 1 ELSE 0) = 1

\* agents.list never shows fewer unread messages than are waiting.
UnreadCoversPending ==
    \A k \in Inboxes :
        (\A s \in Senders : sending[s] # [pc |-> "sent", to |-> k]) => inbox[k].unread >= Kept(k)

\* A message set aside by another reader reaches the one that waits for its sender, unless
\* the actor was given another inbox.
SetAsideIsFound ==
    \A r \in Readers, s \in Senders, k \in Inboxes :
        (/\ reading[r].pc \in {"queueing", "listening"}
         /\ reading[r].from = s /\ reading[r].in = k /\ MatchingIn(k, s) # {})
        ~> (reading[r].pc = "idle" \/ reading[r].in # k \/ MatchingIn(k, s) = {})

\* What the inbox keeps.
InboxSafe ==
  /\ InboxTypeOK
  /\ BudgetIsExact
  /\ DeliveredOnce
  /\ UnreadCoversPending
=============================================================================
