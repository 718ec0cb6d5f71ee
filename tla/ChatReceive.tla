----------------------------- MODULE ChatReceive -----------------------------
(***************************************************************************)
(* The receiving half of a chat: the peer's inbox on the relay (bot.py,    *)
(* UserInbox), the network task that polls it, the queue it shares with    *)
(* the chat screen, the screen's drain loop (main.c) and the cursor and    *)
(* ratchet saved in flash (session.c).  The sender and the decryption are  *)
(* those of Ratchet; one peer, whose messages are the inbox.               *)
(***************************************************************************)
EXTENDS Ratchet, FiniteSets

CONSTANTS
    Tasks,        \* identities for chat_net_task instances
    QueueLen,     \* length of s_chat_q
    PollCap,      \* messages tx_poll hands over per call
    RespCap,      \* messages that fit in RESP_HARD_CAP bytes
    MaxInbox,     \* MAX_QUEUE_PER_USER
    InOrder,      \* TRUE: the relay finishes sends in the order they were made
    MaxCuts,      \* bound on power cuts
    MaxRestarts   \* bound on relay restarts

NoTask == "NULL"

ASSUME ChatReceiveAssumption ==
    /\ IsFiniteSet(Tasks) /\ NoTask \notin Tasks
    /\ QueueLen \in Nat \ {0} /\ PollCap \in Nat \ {0}
    /\ RespCap \in Nat /\ MaxInbox \in Nat \ {0}
    /\ InOrder \in BOOLEAN
    /\ MaxCuts \in Nat /\ MaxRestarts \in Nat

VARIABLES
    headId,     \* UserInbox.head_id
    inbox,      \* UserInbox.messages, oldest first
    pushed,     \* counters of the packets the relay has put in an inbox
    net,        \* the chat_net_task instances
    netRun,     \* s_chat_net_run
    netHandle,  \* s_chat_net_h: set at creation, cleared by any exiting task
    queue,      \* s_chat_q
    screen,     \* what app_main is showing
    gotInbound, \* got_inbound of the drain loop
    lastSeen,   \* persisted_last_seen of the drain loop
    shown,      \* times each text was pushed to the current screen
    saved,      \* the peer blob in flash: receive direction and last_seen_msg_id
    cuts,       \* power cuts so far
    restarts,   \* relay restarts so far
    excused     \* history: messages with an id up to this may be lost

relayVars  == <<headId, inbox, pushed, restarts>>
netVars    == <<net, netRun, netHandle>>
screenVars == <<screen, gotInbound, lastSeen, shown>>
recvVars   == <<vars, relayVars, netVars, queue, screenVars, saved, cuts, excused>>

Stopped == [at |-> "none", after |-> 0, batch |-> << >>]

Larger(a, b) == IF a < b THEN b ELSE a

\* What the relay or the network tasks do wrong costs at most the messages
\* the relay has numbered by then.
Excuse(head) == excused' = Larger(excused, head)

(***************************************************************************)
(* Relay                                                                   *)
(***************************************************************************)

\* The peer's device makes a packet.
PeerEncrypts ==
    /\ Encrypt
    /\ UNCHANGED <<relayVars, netVars, queue, screenVars, saved, cuts, excused>>

Overtaken(p) == \E c \in pushed : c > p.ctr

Keep(s, n) == IF Len(s) > n THEN SubSeq(s, Len(s) - n + 1, Len(s)) ELSE s

\* send: Telegram took the message; a copy goes to the inbox.  A send that
\* fails leaves a gap; sends under way together may end in any order.
Push(p) ==
    /\ p \in wire
    /\ p.ctr \notin pushed
    /\ InOrder => ~Overtaken(p)
    /\ headId' = headId + 1
    /\ inbox' = Keep(Append(inbox, [id |-> headId + 1, packet |-> p]), MaxInbox)
    /\ pushed' = pushed \cup {p.ctr}
    /\ IF Overtaken(p) THEN Excuse(headId + 1) ELSE UNCHANGED excused
    /\ UNCHANGED <<vars, restarts, netVars, queue, screenVars, saved, cuts>>

\* Inboxes are not in the state file: the ids that cursors have passed are
\* given out again.
RelayRestart ==
    /\ restarts < MaxRestarts
    /\ restarts' = restarts + 1
    /\ headId' = 0
    /\ inbox' = << >>
    /\ Excuse(headId)
    /\ UNCHANGED <<vars, pushed, netVars, queue, screenVars, saved, cuts>>

\* Ids grow along the inbox, so what a cursor has not seen is its end.
FetchAfter(after) ==
    LET seen == Cardinality({i \in 1 .. Len(inbox) : inbox[i].id <= after})
    IN  SubSeq(inbox, seen + 1, Len(inbox))

(***************************************************************************)
(* chat_net_task                                                           *)
(***************************************************************************)
TaskExits(t) ==
    /\ ~netRun
    /\ net' = [net EXCEPT ![t] = Stopped]
    /\ netHandle' = NoTask

Min2(a, b) == IF a < b THEN a ELSE b

\* Mutant: the cursor moves over everything the relay returned, though only
\* the first PollCap messages were taken.
PollReturnsToEnd(t) ==
    LET found == FetchAfter(net[t].after)
        got4  == SubSeq(found, 1, Min2(PollCap, Len(found)))
    IN  /\ net[t].at = "polling"
        /\ netRun
        /\ net' = [net EXCEPT ![t] =
              [at    |-> IF got4 = << >> THEN "polling" ELSE "queueing",
               after |-> IF found = << >> THEN @.after ELSE found[Len(found)].id,
               batch |-> got4]]
        /\ UNCHANGED <<vars, relayVars, netRun, netHandle, queue, screenVars, saved, cuts, excused>>

\* tx_poll returned: nothing, an error (the response was too large) or at
\* most PollCap messages, with the cursor on the last of them.
PollReturns(t) ==
    LET found == FetchAfter(net[t].after)
        got4  == IF Len(found) > RespCap THEN << >>
                 ELSE SubSeq(found, 1, Min2(PollCap, Len(found)))
        after == IF got4 = << >> THEN net[t].after ELSE got4[Len(got4)].id
    IN  /\ net[t].at = "polling"
        /\ \/ /\ netRun
              /\ net' = [net EXCEPT ![t] =
                    [at    |-> IF got4 = << >> THEN "polling" ELSE "queueing",
                     after |-> after, batch |-> got4]]
              /\ UNCHANGED netHandle
           \/ TaskExits(t)
        /\ UNCHANGED <<vars, relayVars, netRun, queue, screenVars, saved, cuts, excused>>

\* Mutant: the queue is written past its length.
EnqueueUnchecked(t) ==
    /\ net[t].at = "queueing"
    /\ net[t].batch # << >>
    /\ queue' = Append(queue, Head(net[t].batch))
    /\ net' = [net EXCEPT ![t].batch = Tail(@)]
    /\ UNCHANGED <<vars, relayVars, netRun, netHandle, screenVars, saved, cuts, excused>>

\* An open screen loses a message that finds the queue full, and one that a
\* task it did not start puts between those of its own; a closed one finds
\* it in the queue when it opens.
Strays(t) ==
    \/ screen = "peers"
    \/ screen = "chat" /\ (t # netHandle \/ Len(queue) = QueueLen)

\* xQueueSend with a 50 ms timeout, whose return value nobody reads: a
\* message that finds the queue full is gone.
Enqueue(t) ==
    /\ net[t].at = "queueing"
    /\ net[t].batch # << >>
    /\ queue' = IF Len(queue) < QueueLen
                THEN Append(queue, Head(net[t].batch)) ELSE queue
    /\ net' = [net EXCEPT ![t].batch = Tail(@)]
    /\ IF Strays(t) THEN Excuse(headId) ELSE UNCHANGED excused
    /\ UNCHANGED <<vars, relayVars, netRun, netHandle, screenVars, saved, cuts>>

LoopOrExit(t) ==
    /\ net[t].at = "queueing"
    /\ net[t].batch = << >>
    /\ \/ netRun /\ net' = [net EXCEPT ![t].at = "polling"] /\ UNCHANGED netHandle
       \/ TaskExits(t)
    /\ UNCHANGED <<vars, relayVars, netRun, queue, screenVars, saved, cuts, excused>>

(***************************************************************************)
(* screen_chat                                                             *)
(***************************************************************************)

\* session_resume: the receive direction comes back; cached keys of skipped
\* messages were never saved.
Resumed ==
    /\ recv' = saved.recv
    /\ skipped' = << >>

\* session_last_seen.
SavedCursor == saved.lastSeen

\* chat_net_start: the flag and the handle are set, the queue is the old one.
NetStarts(t, after) ==
    /\ netRun' = TRUE
    /\ netHandle' = t
    /\ net' = [net EXCEPT ![t] = [at |-> "polling", after |-> after, batch |-> << >>]]

\* The user picks the peer; the network task starts at the saved cursor.
EnterChat(t) ==
    /\ screen = "peers"
    /\ net[t].at = "none"
    /\ Resumed
    /\ lastSeen' = SavedCursor
    /\ shown' = [m \in Plaintexts |-> 0]
    /\ gotInbound' = FALSE
    /\ NetStarts(t, SavedCursor)
    /\ screen' = "chat"
    /\ UNCHANGED <<send, calls, wire, got, result, relayVars, queue, saved, cuts, excused>>

\* session_decode_incoming in a paired session, for a message packet.
DecodeIncoming(m) == Decrypt(m.packet)

\* One round of the drain loop.
DrainOne ==
    /\ screen = "chat"
    /\ queue # << >>
    /\ LET m == Head(queue)
       IN  /\ DecodeIncoming(m)
           /\ IF result' = "opened"
              THEN /\ shown' = [shown EXCEPT ![m.packet.text] = @ + 1]
                   /\ gotInbound' = TRUE
                   /\ lastSeen' = IF m.id > lastSeen THEN m.id ELSE lastSeen
              ELSE UNCHANGED <<shown, gotInbound, lastSeen>>
    /\ queue' = Tail(queue)
    /\ UNCHANGED <<relayVars, netVars, screen, saved, cuts, excused>>

\* Mutant: the relay's head is saved as the cursor, what was polled and not
\* drained included.
BlobAtHead == [recv |-> recv, lastSeen |-> headId]

Blob == [recv |-> recv, lastSeen |-> lastSeen]

\* The queue ran empty: save once for everything drained.
PersistDrained ==
    /\ screen = "chat"
    /\ queue = << >>
    /\ gotInbound
    /\ saved' = Blob
    /\ gotInbound' = FALSE
    /\ UNCHANGED <<vars, relayVars, netVars, queue, screen, lastSeen, shown, cuts, excused>>

\* Esc or backtick: chat_net_stop asks the task to end.
LeaveScreen ==
    /\ screen = "chat"
    /\ ~gotInbound
    /\ netRun' = FALSE
    /\ screen' = "stopping"
    /\ UNCHANGED <<vars, relayVars, net, netHandle, queue, gotInbound, lastSeen,
                   shown, saved, cuts, excused>>

\* The handle was cleared, or 5 s passed: leftovers are discarded, the state
\* saved.  Handing over a batch takes a task far less than 5 s, so a wait that
\* times out finds tasks in tx_poll only.
StopReturns ==
    /\ screen = "stopping"
    /\ netHandle = NoTask \/ \A t \in Tasks : net[t].at # "queueing"
    /\ queue' = << >>
    /\ saved' = Blob
    /\ screen' = "peers"
    /\ UNCHANGED <<vars, relayVars, netVars, gotInbound, lastSeen, shown, cuts, excused>>

PowerCut ==
    /\ cuts < MaxCuts
    /\ cuts' = cuts + 1
    /\ net' = [t \in Tasks |-> Stopped]
    /\ netRun' = FALSE
    /\ netHandle' = NoTask
    /\ queue' = << >>
    /\ screen' = "peers"
    /\ gotInbound' = FALSE
    /\ UNCHANGED <<vars, relayVars, lastSeen, shown, saved, excused>>

(***************************************************************************)
(* The fresh pairing was saved with an empty cursor.                       *)
(***************************************************************************)
RecvInit ==
    /\ Init
    /\ headId = 0 /\ inbox = << >> /\ pushed = {} /\ restarts = 0
    /\ net = [t \in Tasks |-> Stopped]
    /\ netRun = FALSE
    /\ netHandle = NoTask
    /\ queue = << >>
    /\ screen = "peers"
    /\ gotInbound = FALSE
    /\ lastSeen = 0
    /\ shown = [m \in Plaintexts |-> 0]
    /\ saved = [recv |-> recv, lastSeen |-> 0]
    /\ cuts = 0 /\ excused = 0

NetNext(t) == PollReturns(t) \/ Enqueue(t) \/ LoopOrExit(t)

RecvNext ==
    \/ PeerEncrypts
    \/ \E p \in wire : Push(p)
    \/ RelayRestart
    \/ \E t \in Tasks : NetNext(t) \/ EnterChat(t)
    \/ DrainOne
    \/ PersistDrained
    \/ LeaveScreen
    \/ StopReturns
    \/ PowerCut

RecvSpec == RecvInit /\ [][RecvNext]_recvVars

\* Every HTTP call has a timeout, the network task loops on its own core and
\* the screen's loop never blocks on anything but such calls: each goes on.
Fairness ==
    /\ \A t \in Tasks : WF_recvVars(NetNext(t))
    /\ WF_recvVars(DrainOne)
    /\ WF_recvVars(PersistDrained)

FairRecvSpec == RecvSpec /\ Fairness

(***************************************************************************)
(* Properties                                                              *)
(***************************************************************************)
InboxEntries == [id : Nat, packet : Packets]

\* Types; the queue never holds more than xQueueCreate allotted, and a task
\* between two polls has nothing left to hand over.
RecvTypeOK ==
    /\ TypeOK
    /\ headId \in Nat
    /\ inbox \in Seq(InboxEntries) /\ Len(inbox) <= MaxInbox
    /\ pushed \subseteq Counters
    /\ net \in [Tasks -> [at : {"none", "polling", "queueing"}, after : Nat,
                         batch : Seq(InboxEntries)]]
    /\ \A t \in Tasks : net[t].at # "queueing" => net[t].batch = << >>
    /\ netRun \in BOOLEAN
    /\ netHandle \in Tasks \cup {NoTask}
    /\ queue \in Seq(InboxEntries) /\ Len(queue) <= QueueLen
    /\ screen \in {"peers", "chat", "stopping"}
    /\ gotInbound \in BOOLEAN
    /\ lastSeen \in Nat
    /\ shown \in [Plaintexts -> Nat]
    /\ saved \in [recv : Dirs, lastSeen : Nat]
    /\ cuts \in 0 .. MaxCuts /\ restarts \in 0 .. MaxRestarts /\ excused \in Nat

\* A screen shows a text at most once, however often the relay, the cursor
\* or a second network task hands its packet over.
ShownOnce == \A m \in Plaintexts : shown[m] <= 1

\* main.c:581-583, "any messages the peer sent while we were powered off get
\* delivered and decrypted": a message in the inbox that was never shown is
\* beyond the saved cursor, and the saved ratchet can still open it, so that
\* neither leaving the chat nor a power cut loses it.  A relay that reorders
\* sends or restarts, a second network task and a full queue do lose messages,
\* but only such as had an id by then, or get one that cursors have passed.
Unread(e) == e.id > excused /\ got[e.packet.text] = 0

NothingSkipped ==
    \A i \in 1 .. Len(inbox) : Unread(inbox[i]) =>
        /\ inbox[i].id > saved.lastSeen
        /\ inbox[i].packet.ctr >= saved.recv.counter

\* While the user stays in the chat, a message that stays in the inbox is
\* shown sooner or later: the cursor never gets stuck before or beyond it
\* (bot.py:60-61, "clients catch up by re-reading on reconnect").
Waiting(m) == \E i \in 1 .. Len(inbox) : inbox[i].packet.text = m

EventuallyShown ==
    \A m \in Plaintexts :
        <>[](screen = "chat" /\ Waiting(m)) => <>(got[m] > 0)
==============================================================================
