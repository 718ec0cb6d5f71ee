-------------------------------- MODULE Delivery --------------------------------
(***************************************************************************)
(* What reaches an inbox of the relay (bot.py): business connections that  *)
(* come, go and change their id, messages users type, /send of a device    *)
(* with its call of Telegram in the middle, saves by any handler, and      *)
(* restarts.                                                               *)
(*                                                                         *)
(* The update loop handles one update at a time; RelayPeering has its      *)
(* batches and shows that what the file does not have yet is handed over   *)
(* again, and that the peers of two users are mutual: here peers are sets  *)
(* of two.  A text is named by the update or the request it comes with.    *)
(***************************************************************************)
EXTENDS Integers, Sequences

CONSTANTS
    Users,
    Ids,           \* ids a business connection of a user may have
    First,         \* the id each user's connection starts with
    None,
    MaxInbox,      \* MAX_QUEUE_PER_USER: copies an inbox keeps
    MaxUpdates,    \* bound: updates in a run
    MaxSends,      \* bound: requests to /send in a run
    MaxRestarts    \* bound: restarts of the relay in a run

ASSUME DeliveryAssumption ==
    /\ First \in Ids /\ None \notin Ids /\ None \notin Users /\ None \notin Users \X Ids
    /\ MaxInbox \in Nat \ {0}
    /\ MaxUpdates \in Nat /\ MaxSends \in Nat /\ MaxRestarts \in Nat

Conns == Users \X Ids
Pairs == {{u, v} : u, v \in Users} \ {{u} : u \in Users}

VARIABLES
    log,       \* the updates Telegram has for the bot
    actual,    \* the id of each user's business connection, at Telegram
    mem,       \* the tables of the relay, with the offset in the log
    disk,      \* the state file
    saving,    \* a handler has changed the tables and awaits before its save
    start,     \* the offset this process started from
    inbox,     \* the newest copies for each user, oldest first
    sends,     \* requests to /send whose call of Telegram is under way
    sent,      \* requests made
    posted,    \* requests whose text Telegram has delivered
    restarts

vars == <<log, actual, mem, disk, saving, start, inbox, sends, sent, posted, restarts>>
telegram == <<log, actual>>
requests == <<sends, sent, posted>>
process == <<mem, disk, saving, start, inbox>>

Tables == [conn : [Users -> Conns \cup {None}], owner : [Conns -> Users \cup {None}],
           peers : SUBSET Pairs, offset : Nat]

IsPeer(m, u, v) == {u, v} \in m.peers

(***************************************************************************)
(* Telegram                                                                *)
(***************************************************************************)

Enabled(u, id) == [kind |-> "enabled", user |-> u, conn |-> <<u, id>>]
Disabled(u, id) == [kind |-> "disabled", user |-> u, conn |-> <<u, id>>]

Updates ==
    {Enabled(u, id) : u \in Users, id \in Ids}
        \cup {Disabled(u, id) : u \in Users, id \in Ids}
        \cup [kind : {"message"}, conn : Conns, from : Users]
        \cup [kind : {"agree", "unpeer"}, pair : Pairs]

Tell(events) ==
    /\ Len(log) + Len(events) <= MaxUpdates
    /\ log' = log \o events
    /\ UNCHANGED <<process, requests, restarts>>

\* A user attaches the bot, or changes a setting of the connection.
Attach(u, id) ==
    /\ actual[u] \in {None, id}
    /\ actual' = [actual EXCEPT ![u] = id]
    /\ Tell(<<Enabled(u, id)>>)

Detach(u) ==
    /\ actual[u] # None
    /\ actual' = [actual EXCEPT ![u] = None]
    /\ Tell(<<Disabled(u, actual[u])>>)

\* The id of a connection changes; the end of the old one, if it is told at
\* all, may come after the new one.
Rotate(u, id) ==
    /\ actual[u] \notin {None, id}
    /\ actual' = [actual EXCEPT ![u] = id]
    /\ \/ Tell(<<Enabled(u, id)>>)
       \/ Tell(<<Enabled(u, id), Disabled(u, actual[u])>>)

\* A user types in the chat with another: the connection of either tells.
Write(u, v) ==
    /\ u # v
    /\ \E w \in {u, v} :
          /\ actual[w] # None
          /\ Tell(<<[kind |-> "message", conn |-> <<w, actual[w]>>, from |-> u]>>)
    /\ UNCHANGED actual

Command == /\ \E k \in {"agree", "unpeer"}, p \in Pairs : Tell(<<[kind |-> k, pair |-> p]>>)
           /\ UNCHANGED actual

(***************************************************************************)
(* The update loop                                                         *)
(***************************************************************************)

\* Mutant: the reverse entry of a connection whose id changed stays.
StaleKept(m, u, c) == {}

\* The reverse entry of a connection whose id changed.
Stale(m, u, c) == {m.conn[u]} \ {c}

\* Mutant: only the first connection of a user is taken.
ConnectedOnce(m, u, c) ==
    IF m.conn[u] # None THEN m
    ELSE [m EXCEPT !.conn[u] = c, !.owner[c] = u]

\* handle_business_connection; what the end of a connection removes is the
\* connection the user has by then, not the one that ended.
Connected(m, u, c) ==
    [m EXCEPT !.conn[u] = c,
              !.owner = [d \in Conns |-> IF d = c THEN u
                                         ELSE IF d \in Stale(m, u, c) THEN None ELSE @[d]]]
Disconnected(m, u) ==
    [m EXCEPT !.conn[u] = None,
              !.owner = [d \in Conns |-> IF d = m.conn[u] THEN None ELSE @[d]]]

Handled(m, x) ==
    CASE x.kind = "enabled"  -> Connected(m, x.user, x.conn)
      [] x.kind = "disabled" -> Disconnected(m, x.user)
      [] x.kind = "agree"    -> [m EXCEPT !.peers = @ \cup {x.pair}]
      [] x.kind = "unpeer"   -> [m EXCEPT !.peers = @ \ {x.pair}]
      [] OTHER -> m

\* Mutant: a message of anyone is queued.
FromAnyone(m, x) ==
    IF x.kind # "message" THEN {}
    ELSE {u \in Users : u = m.owner[x.conn] /\ u # x.from}

\* Whose inbox a message goes to, nobody's for an echo or a stranger.
Receivers(m, x) ==
    IF x.kind # "message" THEN {}
    ELSE {u \in Users : u = m.owner[x.conn] /\ u # x.from /\ IsPeer(m, u, x.from)}

\* The first connection of a user is greeted before it is saved.
Greets(m, x) == x.kind = "enabled" /\ m.conn[x.user] = None

\* Mutant: the offset is left to the save after the batch.
OffsetLater(m, i) == m.offset

OffsetAt(m, i) == i

Copy(source, n, from) == [source |-> source, n |-> n, from |-> from]

\* UserInbox.push: a full deque drops its oldest entry.
Pushed(box, c) ==
    LET longer == Append(box, c)
    IN  IF Len(box) < MaxInbox THEN longer ELSE Tail(longer)

\* One update: the offset moves, the tables change, messages are queued.
HandleUpdate ==
    /\ ~saving /\ mem.offset < Len(log)
    /\ LET i == mem.offset + 1
           x == log[i]
       IN  /\ mem' = [Handled(mem, x) EXCEPT !.offset = OffsetAt(mem, i)]
           /\ saving' = Greets(mem, x)
           /\ disk' = IF x.kind = "message" \/ Greets(mem, x) THEN disk ELSE mem'
           /\ inbox' = [u \in Users |-> IF u \in Receivers(mem, x)
                                        THEN Pushed(inbox[u], Copy("update", i, x.from))
                                        ELSE inbox[u]]
    /\ UNCHANGED <<telegram, start, requests, restarts>>

GreetingEnds ==
    /\ saving /\ saving' = FALSE
    /\ disk' = mem
    /\ UNCHANGED <<telegram, mem, start, inbox, requests, restarts>>

\* The save after a batch, and those of bind_poll and prune_pending any time.
SaveState ==
    /\ disk # mem
    /\ disk' = mem
    /\ UNCHANGED <<telegram, mem, saving, start, inbox, requests, restarts>>

(***************************************************************************)
(* /send: two checks, a call of Telegram, a copy                           *)
(***************************************************************************)

Send(u, v) ==
    /\ sent < MaxSends /\ sent' = sent + 1
    /\ mem.conn[u] # None /\ IsPeer(mem, u, v)
    /\ sends' = sends \cup {[n |-> sent + 1, from |-> u, to |-> v, conn |-> mem.conn[u]]}
    /\ UNCHANGED <<telegram, process, posted, restarts>>

\* Telegram takes a text for a connection that exists.
Posts(s) ==
    /\ s.n \notin posted /\ s.conn = <<s.from, actual[s.from]>>
    /\ posted' = posted \cup {s.n}
    /\ UNCHANGED <<telegram, process, sends, sent, restarts>>

\* Mutant: the copy is queued whatever Telegram said.
AnyAnswer(s) == TRUE

Accepted(s) == s.n \in posted

Answered(s) ==
    /\ Accepted(s)
    /\ inbox' = [inbox EXCEPT ![s.to] = Pushed(@, Copy("send", s.n, s.from))]
    /\ sends' = sends \ {s}
    /\ UNCHANGED <<telegram, mem, disk, saving, start, sent, posted, restarts>>

\* Telegram refuses, or its answer is lost: no copy.
Refused(s) ==
    /\ sends' = sends \ {s}
    /\ UNCHANGED <<telegram, process, sent, posted, restarts>>

(***************************************************************************)
(* Restart                                                                 *)
(***************************************************************************)

\* The tables come from the file, inboxes start empty.
Restart ==
    /\ restarts < MaxRestarts /\ restarts' = restarts + 1
    /\ mem' = disk /\ saving' = FALSE /\ start' = disk.offset
    /\ inbox' = [u \in Users |-> <<>>] /\ sends' = {}
    /\ UNCHANGED <<telegram, disk, sent, posted>>

\* A run begins with users who are connected and peers of each other.
Settled == [conn   |-> [u \in Users |-> <<u, First>>],
            owner  |-> [c \in Conns |-> IF c[2] = First THEN c[1] ELSE None],
            peers  |-> Pairs, offset |-> 0]

Init ==
    /\ log = <<>> /\ actual = [u \in Users |-> First]
    /\ mem = Settled /\ disk = Settled /\ saving = FALSE /\ start = 0
    /\ inbox = [u \in Users |-> <<>>]
    /\ sends = {} /\ sent = 0 /\ posted = {} /\ restarts = 0

Next ==
    \/ \E u \in Users, id \in Ids : Attach(u, id) \/ Rotate(u, id)
    \/ \E u \in Users : Detach(u)
    \/ \E u, v \in Users : Write(u, v) \/ Send(u, v)
    \/ Command \/ HandleUpdate \/ GreetingEnds \/ SaveState \/ Restart
    \/ \E s \in sends : Posts(s) \/ Answered(s) \/ Refused(s)

Spec == Init /\ [][Next]_vars

(***************************************************************************)
(* Properties                                                              *)
(***************************************************************************)

Copies == [source : {"update", "send"}, n : Nat, from : Users]

\* Types; the offsets of the start, the file, the process and the log of
\* Telegram stand in this order.
DeliveryTypeOK ==
    /\ log \in Seq(Updates) /\ actual \in [Users -> Ids \cup {None}]
    /\ mem \in Tables /\ disk \in Tables /\ saving \in BOOLEAN
    /\ start \in Nat /\ start <= disk.offset /\ disk.offset <= mem.offset /\ mem.offset <= Len(log)
    /\ inbox \in [Users -> Seq(Copies)] /\ \A u \in Users : Len(inbox[u]) <= MaxInbox
    /\ sends \subseteq [n : 1 .. sent, from : Users, to : Users, conn : Conns]
    /\ sent \in Nat /\ posted \subseteq 1 .. sent /\ restarts \in Nat

\* conn_to_user is the inverse of user_to_conn, in the process and in the
\* file: an id that is no longer anyone's names nobody.
TablesInverse ==
    \A m \in {mem, disk}, u \in Users, c \in Conns : m.conn[u] = c <=> m.owner[c] = u

\* The tables after the first i updates, each handled once and in order.
Replay[i \in 0 .. Len(log)] ==
    IF i = 0 THEN Settled ELSE [Handled(Replay[i - 1], log[i]) EXCEPT !.offset = i]

\* However often the relay restarts, and whichever handler saved last, the
\* tables and the file are those of a relay that handled each update once.
StateIsReplay == mem = Replay[mem.offset] /\ disk = Replay[disk.offset]

\* What Telegram has told of a user's connection in the first n updates.
About(u, n) == {i \in 1 .. n : log[i].kind \in {"enabled", "disabled"} /\ log[i].user = u}

\* A relay that has handled every update never has a connection of a user
\* that is over, whatever was told late: it has the present one, or none when
\* the last it was told is an end (bot.py:738 then took the present one).
ConnectionsCurrent ==
    mem.offset = Len(log) =>
        \A u \in Users :
            LET about == About(u, Len(log))
                ended == \E i \in about : log[i].kind = "disabled" /\ \A j \in about : j <= i
            IN  mem.conn[u] = IF ended THEN None ELSE <<u, actual[u]>>

\* Where the copies from one source are in an inbox.
CopiesFrom(box, source) == {i \in 1 .. Len(box) : box[i].source = source}

\* Update i is a message for u by the tables of its time.
Queued(u, i) ==
    /\ log[i].kind = "message" /\ log[i].from # u
    /\ Replay[i - 1].conn[u] = log[i].conn
    /\ IsPeer(Replay[i - 1], u, log[i].from)

\* bot.py:743-771: the messages in an inbox are those the peers of a user
\* wrote to it, told by the connection the user had then, in the updates this
\* process has handled, each once, in order; what the file does not have yet
\* is handled again after a restart.  Only what newer copies pushed out of a
\* full inbox (bot.py:102) is missing.
InboxIsReplay ==
    \A u \in Users :
        LET copies == CopiesFrom(inbox[u], "update")
            queued == {i \in start + 1 .. mem.offset : Queued(u, i)}
        IN  /\ \A i \in copies : inbox[u][i].n \in queued
            /\ \A i, j \in copies : i < j => inbox[u][i].n < inbox[u][j].n
            /\ \A n \in queued :
                  \/ \E i \in copies : inbox[u][i].n = n
                  \/ Len(inbox[u]) = MaxInbox /\ \A i \in copies : n < inbox[u][i].n

\* A copy of /send is of a text Telegram delivered, and there is one of it,
\* in the inbox of one user.
CopyWasPosted ==
    \A u \in Users : \A i \in CopiesFrom(inbox[u], "send") :
        /\ inbox[u][i].n \in posted
        /\ \A v \in Users : \A j \in CopiesFrom(inbox[v], "send") :
              inbox[u][i].n = inbox[v][j].n => u = v /\ i = j

================================================================================
