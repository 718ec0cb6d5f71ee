----------------------------- MODULE DeliveryProofs -----------------------------
(***************************************************************************)
(* The tables and the inboxes of the relay, for any number of users, ids,  *)
(* updates, requests and restarts.                                         *)
(*                                                                         *)
(* TablesInverse alone is not inductive: a connection that starts would    *)
(* take over an id another user has.  Ids name their user, in every update *)
(* and so in both tables.                                                  *)
(*                                                                         *)
(* That the tables are those of Replay needs that Replay is what its       *)
(* recursive definition says.  Replays states the recursion without        *)
(* defining by it; that there is one function with it is an induction over *)
(* the length of the log, done with the least length that has none:        *)
(* LeastNatural, from the well-foundedness of finite sets under inclusion. *)
(***************************************************************************)
EXTENDS Delivery, FiniteSetTheorems, SequenceTheorems, TLAPS

Mutual(m) == \A u \in Users, c \in Conns : m.conn[u] = c <=> m.owner[c] = u

OwnConns(m) == \A u \in Users : m.conn[u] # None => m.conn[u][1] = u

Sound(m) == m \in Tables /\ Mutual(m) /\ OwnConns(m)

Offsets ==
    /\ start \in Nat /\ disk.offset \in Nat /\ mem.offset \in Nat
    /\ start <= disk.offset /\ disk.offset <= mem.offset /\ mem.offset <= Len(log)

Requests == /\ sent \in Nat /\ posted \subseteq 1 .. sent
            /\ sends \subseteq [n : 1 .. sent, from : Users, to : Users, conn : Conns]

Inboxes == /\ inbox \in [Users -> Seq(Copies)]
           /\ \A u \in Users : Len(inbox[u]) <= MaxInbox

Small == saving \in BOOLEAN /\ restarts \in Nat

DeliveryInv ==
    /\ log \in Seq(Updates)
    /\ actual \in [Users -> Ids \cup {None}]
    /\ Sound(mem) /\ Sound(disk)
    /\ Offsets /\ Requests /\ Inboxes /\ Small

\* A table that differs in the offset and the peers is as sound.
LEMMA SameConns ==
    ASSUME NEW m, Sound(m), NEW t \in Tables, t.conn = m.conn, t.owner = m.owner
    PROVE  Sound(t)
BY DEF Sound, Mutual, OwnConns

\* A connection that starts.
LEMMA ConnectedSound ==
    ASSUME NEW m, Sound(m), NEW u \in Users, NEW c \in Conns, c[1] = u
    PROVE  Sound(Connected(m, u, c))
<1> DEFINE t == Connected(m, u, c)
           conn == [m.conn EXCEPT ![u] = c]
           owner == [d \in Conns |-> IF d = c THEN u
                                     ELSE IF d \in Stale(m, u, c) THEN None ELSE m.owner[d]]
<1>0. m \in Tables /\ Mutual(m) /\ OwnConns(m)
  BY DEF Sound
<1>1. /\ conn \in [Users -> Conns \cup {None}] /\ owner \in [Conns -> Users \cup {None}]
      /\ t = [m EXCEPT !.conn = conn, !.owner = owner]
  BY <1>0 DEF Tables, Connected
<1>2. t \in Tables /\ t.conn = conn /\ t.owner = owner
  BY <1>0, <1>1 DEF Tables
<1>3. OwnConns(t)
  BY <1>0, <1>2 DEF OwnConns, Tables
<1>4. ASSUME NEW v \in Users, NEW d \in Conns
      PROVE  conn[v] = d <=> owner[d] = v
  <2>1. m.conn \in [Users -> Conns \cup {None}] /\ m.owner \in [Conns -> Users \cup {None}]
    BY <1>0 DEF Tables
  <2>2. m.conn[v] = d <=> m.owner[d] = v
    BY <1>0 DEF Mutual
  <2>3. m.conn[u] = d <=> m.owner[d] = u
    BY <1>0 DEF Mutual
  <2>4. m.conn[v] = d => d[1] = v
    BY <1>0, DeliveryAssumption DEF OwnConns, Conns
  <2>5. CASE v = u
    BY <2>1, <2>3, <2>5, DeliveryAssumption DEF Stale
  <2>6. CASE v # u
    BY <2>1, <2>2, <2>3, <2>4, <2>6, DeliveryAssumption DEF Stale
  <2>7. QED
    BY <2>5, <2>6
<1>5. Mutual(t)
  BY <1>2, <1>4 DEF Mutual
<1>6. QED
  BY <1>2, <1>3, <1>5 DEF Sound

\* A connection that ends, or the late end of an older one.
LEMMA DisconnectedSound ==
    ASSUME NEW m, Sound(m), NEW u \in Users
    PROVE  Sound(Disconnected(m, u))
<1> DEFINE t == Disconnected(m, u)
           conn == [m.conn EXCEPT ![u] = None]
           owner == [d \in Conns |-> IF d = m.conn[u] THEN None ELSE m.owner[d]]
<1>0. m \in Tables /\ Mutual(m) /\ OwnConns(m)
  BY DEF Sound
<1>1. /\ conn \in [Users -> Conns \cup {None}] /\ owner \in [Conns -> Users \cup {None}]
      /\ t = [m EXCEPT !.conn = conn, !.owner = owner]
  BY <1>0 DEF Tables, Disconnected
<1>2. t \in Tables /\ t.conn = conn /\ t.owner = owner
  BY <1>0, <1>1 DEF Tables
<1>3. OwnConns(t)
  BY <1>0, <1>2 DEF OwnConns, Tables
<1>4. ASSUME NEW v \in Users, NEW d \in Conns
      PROVE  conn[v] = d <=> owner[d] = v
  <2>1. m.conn \in [Users -> Conns \cup {None}] /\ m.owner \in [Conns -> Users \cup {None}]
    BY <1>0 DEF Tables
  <2>2. m.conn[v] = d <=> m.owner[d] = v
    BY <1>0 DEF Mutual
  <2>3. m.conn[u] = d <=> m.owner[d] = u
    BY <1>0 DEF Mutual
  <2>4. None \notin Users /\ None # d
    BY DeliveryAssumption DEF Conns
  <2>5. QED
    BY <2>1, <2>2, <2>3, <2>4
<1>5. Mutual(t)
  BY <1>2, <1>4 DEF Mutual
<1>6. QED
  BY <1>2, <1>3, <1>5 DEF Sound

\* Every update keeps the tables sound.
LEMMA HandledSound ==
    ASSUME NEW m, Sound(m), NEW x \in Updates
    PROVE  Sound(Handled(m, x))
<1>0. m \in Tables
  BY DEF Sound
<1>1. CASE x.kind = "enabled"
  <2>1. PICK u \in Users, id \in Ids : x = Enabled(u, id)
    BY <1>1 DEF Updates, Enabled, Disabled
  <2>2. x.user = u /\ x.conn = <<u, id>> /\ <<u, id>> \in Conns /\ <<u, id>>[1] = u
    BY <2>1 DEF Enabled, Conns
  <2>3. Handled(m, x) = Connected(m, u, <<u, id>>)
    BY <1>1, <2>2 DEF Handled
  <2>4. QED
    BY <2>2, <2>3, ConnectedSound
<1>2. CASE x.kind = "disabled"
  <2>1. PICK u \in Users, id \in Ids : x = Disabled(u, id)
    BY <1>2 DEF Updates, Enabled, Disabled
  <2>2. Handled(m, x) = Disconnected(m, u)
    BY <1>2, <2>1 DEF Handled, Disabled
  <2>3. QED
    BY <2>2, DisconnectedSound
<1>3. CASE x.kind \in {"agree", "unpeer"}
  <2>1. x.pair \in Pairs
    BY <1>3 DEF Updates, Enabled, Disabled
  <2>2. \/ Handled(m, x) = [m EXCEPT !.peers = @ \cup {x.pair}]
        \/ Handled(m, x) = [m EXCEPT !.peers = @ \ {x.pair}]
    BY <1>3 DEF Handled
  <2>3. /\ Handled(m, x) \in Tables
        /\ Handled(m, x).conn = m.conn /\ Handled(m, x).owner = m.owner
    BY <1>0, <2>1, <2>2 DEF Tables
  <2>4. QED
    BY <2>3, SameConns
<1>4. CASE x.kind = "message"
  BY <1>4 DEF Handled
<1>5. QED
  BY <1>1, <1>2, <1>3, <1>4 DEF Updates, Enabled, Disabled

LEMMA InitDeliveryInv == Init => DeliveryInv
<1> SUFFICES ASSUME Init PROVE DeliveryInv
  OBVIOUS
<1>1. log \in Seq(Updates) /\ actual \in [Users -> Ids \cup {None}]
  BY DeliveryAssumption DEF Init
<1>2. Settled \in Tables
  BY DeliveryAssumption DEF Settled, Tables, Conns
<1>3. Mutual(Settled) /\ OwnConns(Settled)
  BY DeliveryAssumption DEF Settled, Mutual, OwnConns, Conns
<1>4. Offsets
  BY DEF Init, Offsets, Settled
<1>5. Requests /\ Inboxes
  BY EmptySeq, DeliveryAssumption DEF Init, Requests, Inboxes
<1>6. Small
  BY DEF Init, Small
<1>7. QED
  BY <1>1, <1>2, <1>3, <1>4, <1>5, <1>6 DEF DeliveryInv, Sound, Init

\* What Telegram tells is of the kinds the relay knows.
LogGrows == Len(log) <= Len(log') /\ \A i \in 1 .. Len(log) : log'[i] = log[i]

LEMMA TellTyped ==
    ASSUME log \in Seq(Updates), NEW events \in Seq(Updates), Tell(events)
    PROVE  /\ log' \in Seq(Updates) /\ Len(log) \in Nat /\ Len(log') \in Nat
           /\ LogGrows
           /\ UNCHANGED <<process, requests, restarts>>
BY DEF Tell, LogGrows

LEMMA TelegramKeepsInv ==
    ASSUME DeliveryInv, NEW u \in Users, NEW id \in Ids,
           \/ Attach(u, id) \/ Rotate(u, id) \/ Detach(u)
           \/ \E v \in Users : Write(u, v)
           \/ Command
    PROVE  DeliveryInv' /\ LogGrows /\ UNCHANGED process
<1>0. /\ log \in Seq(Updates) /\ actual \in [Users -> Ids \cup {None}]
      /\ Sound(mem) /\ Sound(disk) /\ Offsets /\ Requests /\ Inboxes /\ Small
  BY DEF DeliveryInv
<1>1. ASSUME NEW events \in Seq(Updates), Tell(events), actual' \in [Users -> Ids \cup {None}]
      PROVE  DeliveryInv' /\ LogGrows /\ UNCHANGED process
  <2>1. /\ log' \in Seq(Updates) /\ Len(log) \in Nat /\ Len(log') \in Nat
        /\ LogGrows
        /\ UNCHANGED <<process, requests, restarts>>
    BY <1>0, <1>1, TellTyped
  <2>2. Offsets'
    BY <1>0, <2>1 DEF Offsets, process, LogGrows
  <2>3. Requests' /\ Inboxes' /\ Small' /\ Sound(mem)' /\ Sound(disk)'
    BY <1>0, <2>1 DEF Requests, Inboxes, Small, process, requests
  <2>4. QED
    BY <1>1, <2>1, <2>2, <2>3 DEF DeliveryInv
<1>2. \A j \in Ids : Enabled(u, j) \in Updates /\ Disabled(u, j) \in Updates
  BY DEF Updates
<1>3. CASE Attach(u, id)
  <2>1. actual' \in [Users -> Ids \cup {None}] /\ <<Enabled(u, id)>> \in Seq(Updates)
    BY <1>0, <1>2, <1>3 DEF Attach
  <2>2. QED
    BY <1>1, <1>3, <2>1 DEF Attach
<1>4. CASE Rotate(u, id)
  <2>1. /\ actual' \in [Users -> Ids \cup {None}] /\ actual[u] \in Ids
        /\ <<Enabled(u, id)>> \in Seq(Updates)
    BY <1>0, <1>2, <1>4 DEF Rotate
  <2>2. <<Enabled(u, id), Disabled(u, actual[u])>> \in Seq(Updates)
    BY <1>2, <2>1
  <2>3. QED
    BY <1>1, <1>4, <2>1, <2>2 DEF Rotate
<1>5. CASE Detach(u)
  <2>1. actual' \in [Users -> Ids \cup {None}] /\ <<Disabled(u, actual[u])>> \in Seq(Updates)
    BY <1>0, <1>2, <1>5 DEF Detach
  <2>2. QED
    BY <1>1, <1>5, <2>1 DEF Detach
<1>6. CASE \E v \in Users : Write(u, v)
  <2>1. PICK v \in Users : Write(u, v)
    BY <1>6
  <2>2. PICK w \in {u, v} :
           /\ actual[w] # None
           /\ Tell(<<[kind |-> "message", conn |-> <<w, actual[w]>>, from |-> u]>>)
    BY <2>1 DEF Write
  <2>3. [kind |-> "message", conn |-> <<w, actual[w]>>, from |-> u] \in Updates
    BY <1>0, <2>2 DEF Updates, Conns
  <2>4. actual' \in [Users -> Ids \cup {None}]
    BY <1>0, <2>1 DEF Write
  <2> DEFINE x == [kind |-> "message", conn |-> <<w, actual[w]>>, from |-> u]
  <2>5. <<x>> \in Seq(Updates) /\ Tell(<<x>>)
    BY <2>2, <2>3
  <2> HIDE DEF x
  <2>6. QED
    BY <1>1, <2>4, <2>5
<1>7. CASE Command
  <2>1. PICK k \in {"agree", "unpeer"}, p \in Pairs : Tell(<<[kind |-> k, pair |-> p]>>)
    BY <1>7 DEF Command
  <2>2. [kind |-> k, pair |-> p] \in Updates
    BY DEF Updates
  <2>3. actual' \in [Users -> Ids \cup {None}]
    BY <1>0, <1>7 DEF Command
  <2> DEFINE x == [kind |-> k, pair |-> p]
  <2>4. <<x>> \in Seq(Updates) /\ Tell(<<x>>)
    BY <2>1, <2>2
  <2> HIDE DEF x
  <2>5. QED
    BY <1>1, <2>3, <2>4
<1>8. QED
  BY <1>3, <1>4, <1>5, <1>6, <1>7

\* What was in s moves down by k places in t, and c is at the end.
PushStep(s, t, c, k) ==
    /\ t \in Seq(Copies) /\ Len(t) = Len(s) + 1 - k /\ Len(t) <= MaxInbox
    /\ t[Len(s) + 1 - k] = c
    /\ \A i \in 1 .. Len(s) - k : t[i] = s[i + k]
    /\ k = 1 => Len(s) = MaxInbox

\* A push keeps the newest copies: the oldest goes, from a full inbox, or none.
LEMMA PushedCopy ==
    ASSUME NEW s \in Seq(Copies), Len(s) <= MaxInbox, NEW c \in Copies
    PROVE  \E k \in {0, 1} : PushStep(s, Pushed(s, c), c, k)
<1> DEFINE t == Pushed(s, c)
<1>0. SUFFICES \E k \in {0, 1} : PushStep(s, t, c, k)
  OBVIOUS
<1> HIDE DEF t
<1> DEFINE longer == Append(s, c)
<1>1. /\ longer \in Seq(Copies) /\ Len(s) \in Nat /\ Len(longer) = Len(s) + 1
      /\ longer[Len(s) + 1] = c /\ \A i \in 1 .. Len(s) : longer[i] = s[i]
  BY AppendProperties, LenProperties
<1>2. MaxInbox \in Nat \ {0}
  BY DeliveryAssumption
<1>3. CASE Len(s) < MaxInbox
  <2>1. t = longer
    BY <1>3 DEF Pushed, t
  <2> HIDE DEF longer
  <2>2. QED
    BY <1>1, <1>2, <1>3, <2>1 DEF PushStep
<1>4. CASE ~(Len(s) < MaxInbox)
  <2>1. t = Tail(longer) /\ Len(s) = MaxInbox
    BY <1>1, <1>2, <1>4 DEF Pushed, t
  <2> HIDE DEF longer
  <2>2. longer # <<>>
    BY <1>1, EmptySeq
  <2>3. /\ Tail(longer) \in Seq(Copies) /\ Len(Tail(longer)) = Len(longer) - 1
        /\ \A i \in 1 .. Len(Tail(longer)) : Tail(longer)[i] = longer[i + 1]
    BY <1>1, <2>2, HeadTailProperties
  <2>4. Tail(longer)[Len(s)] = c /\ \A i \in 1 .. Len(s) - 1 : Tail(longer)[i] = s[i + 1]
    BY <1>1, <1>2, <2>1, <2>3
  <2>5. Len(s) + 1 - 1 = Len(s)
    BY <1>1
  <2>6. QED
    BY <1>1, <1>2, <2>1, <2>3, <2>4, <2>5 DEF PushStep
<1>5. QED
  BY <1>3, <1>4

LEMMA PushedIsInbox ==
    ASSUME NEW s \in Seq(Copies), Len(s) <= MaxInbox, NEW c \in Copies
    PROVE  Pushed(s, c) \in Seq(Copies) /\ Len(Pushed(s, c)) <= MaxInbox
BY PushedCopy DEF PushStep

LEMMA HandleUpdateKeepsInv ==
    ASSUME DeliveryInv, HandleUpdate
    PROVE  DeliveryInv'
<1> DEFINE i == mem.offset + 1
           t == Handled(mem, log[i])
<1>0. /\ log \in Seq(Updates) /\ actual \in [Users -> Ids \cup {None}]
      /\ Sound(mem) /\ Sound(disk) /\ mem.offset \in Nat
      /\ Offsets /\ Requests /\ Inboxes /\ Small
  BY DEF DeliveryInv, Sound, Tables
<1>1. i \in 1 .. Len(log)
  BY <1>0 DEF HandleUpdate
<1>2. log[i] \in Updates
  BY <1>0, <1>1
<1>3. Sound(t)
  BY <1>0, <1>2, HandledSound
<1>4. mem' = [t EXCEPT !.offset = i] /\ disk' \in {disk, mem'}
  BY DEF HandleUpdate, OffsetAt
<1>5. /\ [t EXCEPT !.offset = i] \in Tables
      /\ [t EXCEPT !.offset = i].conn = t.conn /\ [t EXCEPT !.offset = i].owner = t.owner
  <2> HIDE DEF t
  <2>1. i \in Nat /\ t \in Tables
    BY <1>0, <1>3 DEF Sound
  <2>2. QED
    BY <2>1 DEF Tables
<1>6. Sound(mem')
  BY <1>3, <1>4, <1>5, SameConns
<1>7. log' = log /\ actual' = actual /\ start' = start /\ Requests' /\ restarts' = restarts
  BY <1>0 DEF HandleUpdate, telegram, requests, Requests
<1>8. Offsets'
  <2>1. mem'.offset = i
    <3> HIDE DEF t, i
    <3>1. t \in Tables
      BY <1>3 DEF Sound
    <3>2. QED
      BY <1>4, <3>1 DEF Tables
  <2>2. /\ i \in Nat /\ mem.offset <= i /\ disk.offset <= i /\ i <= Len(log) /\ start <= i
        /\ start \in Nat /\ disk.offset \in Nat /\ start <= disk.offset
    BY <1>0, <1>1 DEF Offsets
  <2>3. disk'.offset \in {disk.offset, i}
    BY <1>4, <2>1
  <2> HIDE DEF i
  <2>4. QED
    BY <1>7, <2>1, <2>2, <2>3 DEF Offsets
<1>9. Inboxes'
  <2> DEFINE x == log[i]
  <2>1. ASSUME NEW u \in Receivers(mem, x) PROVE Copy("update", i, x.from) \in Copies
    <3>1. x.kind = "message"
      BY <2>1 DEF Receivers
    <3>2. x.from \in Users
      <4> HIDE DEF x
      <4>1. x \in Updates
        BY <1>2 DEF x
      <4>2. QED
        BY <3>1, <4>1 DEF Updates, Enabled, Disabled
    <3>3. QED
      BY <1>1, <3>2 DEF Copy, Copies
  <2>2. inbox' = [u \in Users |-> IF u \in Receivers(mem, x)
                                  THEN Pushed(inbox[u], Copy("update", i, x.from)) ELSE inbox[u]]
    BY DEF HandleUpdate
  <2> HIDE DEF x, i
  <2>3. \A u \in Users : inbox'[u] \in Seq(Copies) /\ Len(inbox'[u]) <= MaxInbox
    BY <1>0, <2>1, <2>2, PushedIsInbox DEF Inboxes
  <2>4. QED
    BY <2>2, <2>3 DEF Inboxes
<1>10. Small'
  <2>1. saving' \in BOOLEAN
    BY Zenon DEF HandleUpdate, Greets
  <2>2. QED
    BY <1>0, <1>7, <2>1 DEF Small
<1>11. QED
  BY <1>0, <1>4, <1>6, <1>7, <1>8, <1>9, <1>10 DEF DeliveryInv

LEMMA NextDeliveryInv == DeliveryInv /\ [Next]_vars => DeliveryInv'
<1> SUFFICES ASSUME DeliveryInv, [Next]_vars PROVE DeliveryInv'
  OBVIOUS
<1>1. CASE UNCHANGED vars
  BY <1>1 DEF DeliveryInv, Offsets, Requests, Inboxes, Small,
              vars
<1>2. CASE \/ \E u \in Users, id \in Ids : Attach(u, id) \/ Rotate(u, id)
           \/ \E u \in Users : Detach(u) \/ \E v \in Users : Write(u, v)
  BY <1>2, TelegramKeepsInv, DeliveryAssumption
<1>3. CASE Command
  <2>1. PICK k \in {"agree", "unpeer"}, p \in Pairs : Tell(<<[kind |-> k, pair |-> p]>>)
    BY <1>3 DEF Command
  <2>2. \E u \in Users : TRUE
    BY DEF Pairs
  <2>3. QED
    BY <1>3, <2>2, TelegramKeepsInv, DeliveryAssumption
<1>4. CASE HandleUpdate
  BY <1>4, HandleUpdateKeepsInv
<1>5. CASE GreetingEnds \/ SaveState \/ Restart
  <2>1. /\ log' = log /\ actual' = actual
        /\ mem' \in {mem, disk} /\ disk' \in {mem, disk} /\ (mem' = mem \/ disk' = disk)
    BY <1>5 DEF GreetingEnds, SaveState, Restart, telegram
  <2>2. Sound(mem') /\ Sound(disk')
    BY <2>1 DEF DeliveryInv
  <2>3. Offsets'
    BY <1>5 DEF DeliveryInv, Offsets, GreetingEnds, SaveState, Restart, telegram
  <2>4. Requests'
    BY <1>5 DEF DeliveryInv, Requests, GreetingEnds, SaveState, Restart, requests
  <2>5. Inboxes'
    <3>1. inbox' = inbox \/ inbox' = [u \in Users |-> <<>>]
      BY <1>5 DEF GreetingEnds, SaveState, Restart
    <3>2. Len(<<>>) <= MaxInbox /\ <<>> \in Seq(Copies)
      BY EmptySeq, DeliveryAssumption
    <3>3. CASE inbox' = [u \in Users |-> <<>>]
      BY <3>2, <3>3 DEF Inboxes
    <3>4. CASE inbox' = inbox
      BY <3>4 DEF DeliveryInv, Inboxes
    <3>5. QED
      BY <3>1, <3>3, <3>4
  <2>6. saving' \in BOOLEAN
    <3>1. CASE GreetingEnds \/ Restart
      BY <3>1, Zenon DEF GreetingEnds, Restart
    <3>2. CASE SaveState
      BY <3>2 DEF SaveState, DeliveryInv, Small
    <3>3. QED
      BY <1>5, <3>1, <3>2
  <2>7. restarts' \in Nat
    BY <1>5 DEF DeliveryInv, Small, GreetingEnds, SaveState, Restart
  <2>8. QED
    BY <2>1, <2>2, <2>3, <2>4, <2>5, <2>6, <2>7 DEF DeliveryInv, Small
\* What is left to show of a step of a request.
<1>6. ASSUME UNCHANGED <<telegram, mem, disk, saving, start, restarts>>, Requests', Inboxes'
      PROVE  DeliveryInv'
  BY <1>6 DEF DeliveryInv, Offsets, Small, telegram
<1>7. ASSUME NEW u \in Users, NEW v \in Users, Send(u, v)
      PROVE  DeliveryInv'
  <2>1. mem.conn[u] \in Conns
    BY <1>7 DEF DeliveryInv, Sound, Tables, Send
  <2>2. Requests'
    BY <1>7, <2>1 DEF DeliveryInv, Requests, Send
  <2>3. QED
    BY <1>6, <1>7, <2>2 DEF Send, process, DeliveryInv, Inboxes
<1>8. ASSUME NEW s \in sends, Posts(s) \/ Answered(s) \/ Refused(s)
      PROVE  DeliveryInv'
  <2>1. s \in [n : 1 .. sent, from : Users, to : Users, conn : Conns] /\ sent \in Nat
    BY DEF DeliveryInv, Requests
  <2>2. Requests'
    BY <1>8, <2>1 DEF DeliveryInv, Requests, Posts, Answered, Refused
  <2>3. CASE Answered(s)
    <3>1. Copy("send", s.n, s.from) \in Copies /\ s.to \in Users
      BY <2>1 DEF Copy, Copies
    <3>2. inbox' = [inbox EXCEPT ![s.to] = Pushed(@, Copy("send", s.n, s.from))]
      BY <2>3 DEF Answered
    <3>3. Inboxes'
      BY <3>1, <3>2, PushedIsInbox DEF DeliveryInv, Inboxes
    <3>4. QED
      BY <1>6, <2>2, <2>3, <3>3 DEF Answered
  <2>4. CASE Posts(s) \/ Refused(s)
    BY <1>6, <2>2, <2>4 DEF Posts, Refused, process, DeliveryInv, Inboxes
  <2>5. QED
    BY <1>8, <2>3, <2>4
<1>9. QED
  BY <1>1, <1>2, <1>3, <1>4, <1>5, <1>7, <1>8 DEF Next

\* bot.py:704-741: an id in conn_to_user is the present connection of the
\* user it names, and the other way round, in the process and in the file.
THEOREM ConnectionsInverse == Spec => []TablesInverse
<1>1. DeliveryInv => TablesInverse
  BY DEF DeliveryInv, Sound, Mutual, TablesInverse
<1>2. QED
  BY InitDeliveryInv, NextDeliveryInv, <1>1, PTL DEF Spec

\* Tables, inboxes and requests hold what they may, and the file never knows
\* more updates than the process, nor less than the process started with.
THEOREM DeliveryTypes == Spec => []DeliveryTypeOK
<1>1. DeliveryInv => DeliveryTypeOK
  BY DEF DeliveryInv, Sound, Offsets, Requests, Inboxes, Small, DeliveryTypeOK
<1>2. QED
  BY InitDeliveryInv, NextDeliveryInv, <1>1, PTL DEF Spec

(***************************************************************************)
(* Replay: what the recursion computes, by the least number it could fail  *)
(* for.  The library's induction theorems take an operator; that finite    *)
(* sets are well-founded under inclusion does not, and intervals are       *)
(* finite sets.                                                            *)
(***************************************************************************)

\* A set of naturals that is not empty has a least element.
LEMMA LeastNatural ==
    ASSUME NEW T \in SUBSET Nat, T # {}
    PROVE  \E m \in T : \A k \in T : m <= k
<1> DEFINE U == {0 .. k : k \in T}
           R == StrictSubsetOrdering(Nat)
<1>1. U \subseteq FiniteSubsetsOf(Nat)
  <2> SUFFICES ASSUME NEW k \in T PROVE 0 .. k \in FiniteSubsetsOf(Nat)
    OBVIOUS
  <2>1. IsFiniteSet(0 .. k)
    BY FS_Interval
  <2>2. QED
    BY <2>1 DEF FiniteSubsetsOf
<1>2. PICK x \in U : \A y \in U : ~(<<y, x>> \in R)
  <2>1. IsWellFoundedOn(R, FiniteSubsetsOf(Nat))
    BY FS_StrictSubsetOrderingWellFounded
  <2>2. U # {}
    OBVIOUS
  <2> HIDE DEF U, R
  <2>3. QED
    BY <1>1, <2>1, <2>2, WFMin
<1>3. PICK m \in T : x = 0 .. m
  OBVIOUS
<1>4. ASSUME NEW k \in T, k < m PROVE FALSE
  <2>1. 0 .. k \in U
    OBVIOUS
  <2>2. 0 .. k \subseteq 0 .. m /\ 0 .. k # 0 .. m
    <3>1. m \in 0 .. m /\ m \notin 0 .. k
      BY <1>4
    <3>2. \A i \in 0 .. k : i \in 0 .. m
      BY <1>4
    <3>3. QED
      BY <3>1, <3>2
  <2>3. <<0 .. k, x>> \in (SUBSET Nat) \X (SUBSET Nat)
    BY <1>3
  <2>4. <<0 .. k, x>> \in R
    BY <1>3, <2>2, <2>3 DEF StrictSubsetOrdering
  <2>5. QED
    BY <1>2, <2>1, <2>4
<1>5. QED
  BY <1>4

After(m, x, i) == [Handled(m, x) EXCEPT !.offset = i]

\* f holds the tables after each of the first n updates of l.
Replays(f, l, n) ==
    f = [i \in 0 .. n |-> IF i = 0 THEN Settled ELSE After(f[i - 1], l[i], i)]

\* The recursion has a solution, however long the log.
LEMMA ReplayExists ==
    ASSUME NEW l, NEW L \in Nat PROVE \E f : Replays(f, l, L)
<1> DEFINE Bad == {n \in Nat : ~\E f : Replays(f, l, n)}
<1> SUFFICES ASSUME Bad # {} PROVE FALSE
  OBVIOUS
<1>1. PICK n \in Bad : \A k \in Bad : n <= k
  BY LeastNatural
<1>2. n # 0
  <2> DEFINE f == [i \in 0 .. 0 |-> Settled]
  <2>1. f = [i \in 0 .. 0 |-> IF i = 0 THEN Settled ELSE After(f[i - 1], l[i], i)]
    OBVIOUS
  <2>2. Replays(f, l, 0)
    BY <2>1 DEF Replays
  <2>3. QED
    BY <2>2
<1>3. n - 1 \in Nat /\ n - 1 \notin Bad
  BY <1>1, <1>2
<1>4. PICK f : Replays(f, l, n - 1)
  BY <1>3
<1> DEFINE g == [i \in 0 .. n |-> IF i = n THEN After(f[n - 1], l[n], n) ELSE f[i]]
<1>5. ASSUME NEW i \in 0 .. n
      PROVE  g[i] = IF i = 0 THEN Settled ELSE After(g[i - 1], l[i], i)
  <2>1. CASE i = n
    <3>1. g[i] = After(f[n - 1], l[n], n) /\ g[n - 1] = f[n - 1]
      BY <1>3, <2>1
    <3>2. QED
      BY <1>2, <2>1, <3>1
  <2>2. CASE i # n
    <3>1. i \in 0 .. n - 1 /\ g[i] = f[i] /\ (i # 0 => i - 1 \in 0 .. n /\ g[i - 1] = f[i - 1])
      BY <1>3, <2>2
    <3>2. f[i] = IF i = 0 THEN Settled ELSE After(f[i - 1], l[i], i)
      BY <1>4, <3>1 DEF Replays
    <3>3. QED
      BY <3>1, <3>2
  <2>3. QED
    BY <2>1, <2>2
<1> HIDE DEF g
<1>6. g = [i \in 0 .. n |-> IF i = 0 THEN Settled ELSE After(g[i - 1], l[i], i)]
  <2>1. g = [i \in 0 .. n |-> g[i]]
    BY DEF g
  <2>2. QED
    BY <1>5, <2>1
<1>7. QED
  BY <1>1, <1>6 DEF Replays

\* Two logs that begin alike replay alike.
LEMMA ReplaysAlike ==
    ASSUME NEW f, NEW g, NEW l, NEW k, NEW n \in Nat, NEW m \in Nat, n <= m,
           Replays(f, l, n), Replays(g, k, m), \A i \in 1 .. n : l[i] = k[i]
    PROVE  \A i \in 0 .. n : f[i] = g[i]
<1> DEFINE Bad == {i \in 0 .. n : f[i] # g[i]}
<1> SUFFICES ASSUME Bad # {} PROVE FALSE
  OBVIOUS
<1>1. PICK i \in Bad : \A j \in Bad : i <= j
  <2>1. Bad \in SUBSET Nat
    OBVIOUS
  <2> HIDE DEF Bad
  <2>2. QED
    BY <2>1, LeastNatural
<1>2. /\ f[i] = IF i = 0 THEN Settled ELSE After(f[i - 1], l[i], i)
      /\ g[i] = IF i = 0 THEN Settled ELSE After(g[i - 1], k[i], i)
  BY DEF Replays
<1>3. i # 0 /\ i - 1 \in 0 .. n
  BY <1>2
<1>4. f[i - 1] = g[i - 1]
  BY <1>1, <1>3
<1>5. l[i] = k[i]
  BY <1>3
<1>6. QED
  BY <1>2, <1>3, <1>4, <1>5

LEMMA ReplayIs ==
    /\ Len(log) \in Nat => Replays(Replay, log, Len(log))
    /\ Len(log') \in Nat => Replays(Replay', log', Len(log'))
<1>1. Replay = CHOOSE f : Replays(f, log, Len(log))
  BY DEF Replay, Replays, After
<1>2. Replay' = CHOOSE f : Replays(f, log', Len(log'))
  BY DEF Replay, Replays, After
<1>3. /\ Len(log) \in Nat => \E f : Replays(f, log, Len(log))
      /\ Len(log') \in Nat => \E f : Replays(f, log', Len(log'))
  BY ReplayExists
<1>4. QED
  BY <1>1, <1>2, <1>3

ReplayInv == DeliveryInv /\ StateIsReplay

LEMMA InitReplayInv == Init => ReplayInv
<1> SUFFICES ASSUME Init PROVE ReplayInv
  OBVIOUS
<1>1. DeliveryInv
  BY InitDeliveryInv
<1>2. Len(log) = 0 /\ mem = Settled /\ disk = Settled /\ Settled.offset = 0
  BY EmptySeq DEF Init, Settled
<1>3. Replay = [i \in 0 .. 0 |-> IF i = 0 THEN Settled ELSE After(Replay[i - 1], log[i], i)]
  BY <1>2, ReplayIs DEF Replays
<1>4. Replay[0] = Settled
  BY <1>3
<1>5. QED
  BY <1>1, <1>2, <1>4 DEF ReplayInv, StateIsReplay

\* What was replayed stays as it was when the log grows.
LEMMA ReplayStands ==
    ASSUME DeliveryInv, DeliveryInv', LogGrows
    PROVE  \A i \in 0 .. Len(log) : Replay'[i] = Replay[i]
<1>1. Len(log) \in Nat /\ Len(log') \in Nat
  BY LenProperties DEF DeliveryInv
<1>2. Replays(Replay, log, Len(log)) /\ Replays(Replay', log', Len(log'))
  BY <1>1, ReplayIs
<1>3. QED
  BY <1>1, <1>2, ReplaysAlike DEF LogGrows

LEMMA NextReplayInv == ReplayInv /\ [Next]_vars => ReplayInv'
<1> SUFFICES ASSUME ReplayInv, [Next]_vars PROVE ReplayInv'
  OBVIOUS
<1>1. DeliveryInv /\ DeliveryInv'
  BY NextDeliveryInv DEF ReplayInv
<1>2. /\ mem = Replay[mem.offset] /\ disk = Replay[disk.offset]
      /\ mem.offset \in 0 .. Len(log) /\ disk.offset \in 0 .. Len(log)
      /\ Len(log) \in Nat
  BY <1>1, LenProperties DEF ReplayInv, StateIsReplay, DeliveryInv, Offsets
\* Steps that give the tables and the file nothing new.
<1>3. ASSUME LogGrows, mem' \in {mem, disk}, disk' \in {mem, disk} PROVE ReplayInv'
  <2>1. \A i \in 0 .. Len(log) : Replay'[i] = Replay[i]
    BY <1>1, <1>3, ReplayStands
  <2>2. mem' = Replay'[mem'.offset] /\ disk' = Replay'[disk'.offset]
    BY <1>2, <1>3, <2>1
  <2>3. QED
    BY <1>1, <2>2 DEF ReplayInv, StateIsReplay
<1>4. CASE \/ \E u \in Users, id \in Ids : Attach(u, id) \/ Rotate(u, id)
           \/ \E u \in Users : Detach(u) \/ \E v \in Users : Write(u, v)
           \/ Command
  <2>1. LogGrows /\ UNCHANGED process
    <3>1. CASE Command
      <4>1. \E u \in Users : TRUE
        BY <3>1 DEF Command, Pairs
      <4>2. QED
        BY <1>1, <3>1, <4>1, TelegramKeepsInv, DeliveryAssumption
    <3>2. CASE ~Command
      BY <1>1, <1>4, <3>2, TelegramKeepsInv, DeliveryAssumption
    <3>3. QED
      BY <3>1, <3>2
  <2>2. QED
    BY <1>3, <2>1 DEF process
<1>5. CASE HandleUpdate
  <2> DEFINE i == mem.offset + 1
             x == log[i]
  <2>1. /\ mem' = After(mem, x, i) /\ disk' \in {disk, mem'} /\ log' = log
        /\ i \in 1 .. Len(log)
    BY <1>2, <1>5 DEF HandleUpdate, After, OffsetAt, telegram
  <2>2. LogGrows
    BY <1>2, <2>1 DEF LogGrows
  <2>3. \A j \in 0 .. Len(log) : Replay'[j] = Replay[j]
    BY <1>1, <2>2, ReplayStands
  <2>4. Replay[i] = After(Replay[i - 1], log[i], i)
    <3>1. Replays(Replay, log, Len(log))
      BY <1>2, ReplayIs
    <3>2. i \in 0 .. Len(log) /\ i # 0
      BY <1>2, <2>1
    <3> HIDE DEF i
    <3>3. Replay[i] = IF i = 0 THEN Settled ELSE After(Replay[i - 1], log[i], i)
      BY <3>1, <3>2 DEF Replays
    <3>4. QED
      BY <3>2, <3>3
  <2>5. i - 1 = mem.offset
    BY <1>2
  <2>6. mem' = Replay'[i]
    BY <1>2, <2>1, <2>3, <2>4, <2>5
  <2>7. mem'.offset = i
    <3>1. mem \in Tables
      BY <1>1 DEF DeliveryInv, Sound
    <3>2. Handled(mem, x) \in Tables
      BY <1>1, <2>1, HandledSound, ElementOfSeq DEF DeliveryInv, Sound
    <3>3. QED
      BY <2>1, <3>2 DEF After, Tables
  <2>8. disk' = Replay'[disk'.offset]
    BY <1>2, <2>1, <2>3, <2>6, <2>7
  <2>9. QED
    BY <1>1, <2>6, <2>7, <2>8 DEF ReplayInv, StateIsReplay
<1>6. ASSUME log' = log, mem' \in {mem, disk}, disk' \in {mem, disk} PROVE ReplayInv'
  BY <1>2, <1>3, <1>6 DEF LogGrows
<1>7. CASE GreetingEnds \/ SaveState \/ Restart \/ UNCHANGED vars
  BY <1>6, <1>7 DEF GreetingEnds, SaveState, Restart, vars, telegram
<1>8. ASSUME NEW u \in Users, NEW v \in Users, Send(u, v) PROVE ReplayInv'
  BY <1>6, <1>8 DEF Send, telegram, process
<1>9. ASSUME NEW s \in sends, Posts(s) \/ Answered(s) \/ Refused(s) PROVE ReplayInv'
  BY <1>6, <1>9 DEF Posts, Answered, Refused, telegram, process
<1>10. QED
  BY <1>4, <1>5, <1>7, <1>8, <1>9 DEF Next

\* bot.py:783-809: for any number of updates, restarts and saves between, the
\* tables of the process and of the file are those of a relay that handled
\* each update once and in order.
THEOREM StateReplayed == Spec => []StateIsReplay
<1>1. ReplayInv => StateIsReplay
  BY DEF ReplayInv
<1>2. QED
  BY InitReplayInv, NextReplayInv, <1>1, PTL DEF Spec

(***************************************************************************)
(* Copies.  An inbox grows at its end and drops at its front, until a      *)
(* restart empties it.                                                     *)
(***************************************************************************)

\* Every copy from this source in u's inbox was there before, k places up.
Moved(u, source, k) ==
    \A i \in CopiesFrom(inbox'[u], source) :
        i + k \in CopiesFrom(inbox[u], source) /\ inbox'[u][i] = inbox[u][i + k]

\* And what is missing has left by the front, from a full inbox.
Kept(u, source, k) ==
    /\ \A i \in CopiesFrom(inbox[u], source) :
           i > k => i - k \in CopiesFrom(inbox'[u], source) /\ inbox'[u][i - k] = inbox[u][i]
    /\ k = 1 => Len(inbox[u]) = MaxInbox
    /\ Len(inbox[u]) = MaxInbox => Len(inbox'[u]) = MaxInbox

\* A copy from one source leaves the order of the copies from the other.
LEMMA OtherSource ==
    ASSUME Inboxes, NEW u \in Users, NEW c \in Copies, NEW source, c.source # source,
           inbox'[u] \in {inbox[u], Pushed(inbox[u], c)}
    PROVE  \E k \in {0, 1} : Moved(u, source, k) /\ Kept(u, source, k)
<1>1. inbox[u] \in Seq(Copies) /\ Len(inbox[u]) <= MaxInbox /\ Len(inbox[u]) \in Nat
      /\ MaxInbox \in Nat
  BY LenProperties, DeliveryAssumption DEF Inboxes
<1>2. CASE inbox'[u] = inbox[u]
  <2>1. \A i \in CopiesFrom(inbox[u], source) : i \in Nat /\ i + 0 = i /\ i - 0 = i
    BY <1>1 DEF CopiesFrom
  <2>2. QED
    BY <1>2, <2>1 DEF Moved, Kept
<1>3. CASE inbox'[u] = Pushed(inbox[u], c)
  <2>1. PICK k \in {0, 1} : PushStep(inbox[u], inbox'[u], c, k)
    BY <1>1, <1>3, PushedCopy
  <2>2. ASSUME NEW i \in CopiesFrom(inbox'[u], source)
        PROVE  i + k \in CopiesFrom(inbox[u], source) /\ inbox'[u][i] = inbox[u][i + k]
    <3>1. i \in 1 .. Len(inbox'[u]) /\ inbox'[u][i].source = source
      BY DEF CopiesFrom
    <3>2. i # Len(inbox[u]) + 1 - k
      BY <2>1, <3>1 DEF PushStep
    <3>3. i \in 1 .. Len(inbox[u]) - k /\ i + k \in 1 .. Len(inbox[u])
      BY <1>1, <2>1, <3>1, <3>2 DEF PushStep
    <3>4. inbox'[u][i] = inbox[u][i + k]
      BY <2>1, <3>3 DEF PushStep
    <3>5. QED
      BY <3>1, <3>3, <3>4 DEF CopiesFrom
  <2>3. ASSUME NEW i \in CopiesFrom(inbox[u], source), i > k
        PROVE  i - k \in CopiesFrom(inbox'[u], source) /\ inbox'[u][i - k] = inbox[u][i]
    <3>1. i \in 1 .. Len(inbox[u]) /\ inbox[u][i].source = source /\ i \in Nat /\ k \in Nat
      BY <1>1 DEF CopiesFrom
    <3>2. i - k \in 1 .. Len(inbox[u]) - k /\ (i - k) + k = i
      BY <1>1, <2>3, <3>1
    <3>3. inbox'[u][i - k] = inbox[u][i]
      BY <2>1, <3>2 DEF PushStep
    <3>4. i - k \in 1 .. Len(inbox'[u])
      BY <1>1, <2>1, <2>3, <3>1 DEF PushStep
    <3>5. QED
      BY <3>1, <3>3, <3>4 DEF CopiesFrom
  <2>4. Len(inbox[u]) = MaxInbox => Len(inbox'[u]) = MaxInbox
    BY <1>1, <2>1 DEF PushStep
  <2>5. QED
    BY <2>1, <2>2, <2>3, <2>4 DEF Moved, Kept, PushStep
<1>4. QED
  BY <1>2, <1>3

\* A new copy is one more, at the end.
LEMMA SameSource ==
    ASSUME Inboxes, NEW u \in Users, NEW c \in Copies, NEW source, c.source = source,
           inbox'[u] = Pushed(inbox[u], c)
    PROVE  \E k \in {0, 1} :
              LET end == Len(inbox[u]) + 1 - k
              IN  /\ end \in CopiesFrom(inbox'[u], source) /\ inbox'[u][end] = c
                  /\ \A i \in CopiesFrom(inbox'[u], source) \ {end} :
                        /\ i + k \in CopiesFrom(inbox[u], source)
                        /\ inbox'[u][i] = inbox[u][i + k] /\ i < end
                  /\ Kept(u, source, k)
<1>1. inbox[u] \in Seq(Copies) /\ Len(inbox[u]) <= MaxInbox /\ Len(inbox[u]) \in Nat
      /\ MaxInbox \in Nat \ {0}
  BY LenProperties, DeliveryAssumption DEF Inboxes
<1>2. PICK k \in {0, 1} : PushStep(inbox[u], inbox'[u], c, k)
  BY <1>1, PushedCopy
<1>3. PICK end \in Nat \ {0} : end = Len(inbox[u]) + 1 - k
  <2>1. k = 1 => Len(inbox[u]) = MaxInbox
    BY <1>2 DEF PushStep
  <2>2. Len(inbox[u]) + 1 - k \in Nat \ {0}
    BY <1>1, <2>1
  <2>3. QED
    BY <2>2
<1>4. end \in CopiesFrom(inbox'[u], source) /\ inbox'[u][end] = c
  BY <1>2, <1>3 DEF CopiesFrom, PushStep
<1>5. ASSUME NEW i \in CopiesFrom(inbox'[u], source) \ {end}
      PROVE  /\ i + k \in CopiesFrom(inbox[u], source)
             /\ inbox'[u][i] = inbox[u][i + k] /\ i < end
  <2>1. i \in 1 .. Len(inbox'[u]) /\ inbox'[u][i].source = source
    BY DEF CopiesFrom
  <2>2. i < end /\ i \in 1 .. Len(inbox[u]) - k /\ i + k \in 1 .. Len(inbox[u])
    BY <1>1, <1>2, <1>3, <2>1 DEF PushStep
  <2>3. QED
    BY <1>2, <2>1, <2>2 DEF CopiesFrom, PushStep
<1>6. ASSUME NEW i \in CopiesFrom(inbox[u], source), i > k
      PROVE  i - k \in CopiesFrom(inbox'[u], source) /\ inbox'[u][i - k] = inbox[u][i]
  <2>1. i \in 1 .. Len(inbox[u]) /\ inbox[u][i].source = source /\ i \in Nat /\ k \in Nat
    BY <1>1 DEF CopiesFrom
  <2>2. i - k \in 1 .. Len(inbox[u]) - k /\ (i - k) + k = i
    BY <1>1, <1>6, <2>1
  <2>3. inbox'[u][i - k] = inbox[u][i]
    BY <1>2, <2>2 DEF PushStep
  <2>4. i - k \in 1 .. Len(inbox'[u])
    BY <1>1, <1>2, <1>6, <2>1 DEF PushStep
  <2>5. QED
    BY <2>1, <2>3, <2>4 DEF CopiesFrom
<1>7. Kept(u, source, k)
  BY <1>1, <1>2, <1>6 DEF Kept, PushStep
<1>8. QED
  BY <1>2, <1>3, <1>4, <1>5, <1>7

\* A request that waits for Telegram has no copy yet, and no two have one number.
Unanswered ==
    /\ \A s \in sends : \A u \in Users : \A i \in CopiesFrom(inbox[u], "send") : inbox[u][i].n # s.n
    /\ \A s, t \in sends : s.n = t.n => s = t

CopyInv == DeliveryInv /\ CopyWasPosted /\ Unanswered

\* What an update queues.
LEMMA HandleQueues ==
    ASSUME DeliveryInv, HandleUpdate, NEW u \in Users
    PROVE  LET i == mem.offset + 1
               x == log[i]
               c == Copy("update", i, x.from)
           IN  IF u \in Receivers(mem, x)
               THEN c \in Copies /\ inbox'[u] = Pushed(inbox[u], c)
               ELSE inbox'[u] = inbox[u]
<1> DEFINE i == mem.offset + 1
           x == log[i]
<1>1. inbox'[u] = IF u \in Receivers(mem, x)
                  THEN Pushed(inbox[u], Copy("update", i, x.from)) ELSE inbox[u]
  BY DEF HandleUpdate
<1>2. i \in 1 .. Len(log) /\ log \in Seq(Updates) /\ i \in Nat
  BY LenProperties DEF HandleUpdate, DeliveryInv, Offsets
<1>3. x \in Updates
  BY <1>2, ElementOfSeq
<1> HIDE DEF i, x
<1>4. ASSUME u \in Receivers(mem, x) PROVE Copy("update", i, x.from) \in Copies
  <2>1. x.kind = "message"
    BY <1>4 DEF Receivers
  <2>2. x.from \in Users
    BY <1>3, <2>1 DEF Updates, Enabled, Disabled
  <2>3. QED
    BY <1>2, <2>2 DEF Copy, Copies
<1>5. QED
  BY <1>1, <1>4 DEF i, x

LEMMA NextCopyInv == CopyInv /\ [Next]_vars => CopyInv'
<1> SUFFICES ASSUME CopyInv, [Next]_vars PROVE CopyInv'
  OBVIOUS
<1>1. /\ DeliveryInv /\ DeliveryInv' /\ CopyWasPosted /\ Unanswered /\ Inboxes
      /\ sent \in Nat /\ posted \subseteq 1 .. sent
      /\ \A s \in sends : s.n \in 1 .. sent /\ s.to \in Users /\ s.from \in Users
  BY NextDeliveryInv DEF CopyInv, DeliveryInv, Requests
<1>0. ASSUME NEW box \in Seq(Copies) PROVE CopiesFrom(box, "send") \subseteq Int
  <2>1. Len(box) \in Nat
    BY LenProperties
  <2>2. QED
    BY <2>1 DEF CopiesFrom
<1>a. \A u \in Users : inbox[u] \in Seq(Copies) /\ inbox'[u] \in Seq(Copies)
  BY <1>1 DEF DeliveryInv, Inboxes
<1>b. \A u \in Users : \A i \in CopiesFrom(inbox[u], "send") \cup CopiesFrom(inbox'[u], "send") : i \in Int
  BY <1>0, <1>a
\* Steps that queue no copy of a request.
<1>2. ASSUME \A u \in Users : \E k \in {0, 1} : Moved(u, "send", k),
             sends' \subseteq sends, posted \subseteq posted'
      PROVE  CopyInv'
  <2>1. CopyWasPosted'
    <3> SUFFICES ASSUME NEW u \in Users, NEW i \in CopiesFrom(inbox'[u], "send")
                 PROVE  /\ inbox'[u][i].n \in posted'
                        /\ \A v \in Users : \A j \in CopiesFrom(inbox'[v], "send") :
                              inbox'[u][i].n = inbox'[v][j].n => u = v /\ i = j
      BY DEF CopyWasPosted
    <3>1. PICK k \in {0, 1} : Moved(u, "send", k)
      BY <1>2
    <3>2. i + k \in CopiesFrom(inbox[u], "send") /\ inbox'[u][i] = inbox[u][i + k]
      BY <3>1 DEF Moved
    <3>3. inbox'[u][i].n \in posted'
      BY <1>1, <1>2, <3>2 DEF CopyWasPosted
    <3>4. ASSUME NEW v \in Users, NEW j \in CopiesFrom(inbox'[v], "send"),
                 inbox'[u][i].n = inbox'[v][j].n
          PROVE  u = v /\ i = j
      <4>1. PICK m \in {0, 1} : Moved(v, "send", m) /\ (u = v => m = k)
        BY <1>2, <3>1
      <4>2. j + m \in CopiesFrom(inbox[v], "send") /\ inbox'[v][j] = inbox[v][j + m]
        BY <4>1 DEF Moved
      <4>3. u = v /\ i + k = j + m
        BY <1>1, <3>2, <3>4, <4>2 DEF CopyWasPosted
      <4>4. QED
        BY <1>b, <4>1, <4>3
    <3>5. QED
      BY <3>3, <3>4
  <2>2. Unanswered'
    <3>1. ASSUME NEW s \in sends', NEW u \in Users, NEW i \in CopiesFrom(inbox'[u], "send")
          PROVE  inbox'[u][i].n # s.n
      BY <1>1, <1>2 DEF Unanswered, Moved
    <3>2. QED
      BY <1>1, <1>2, <3>1 DEF Unanswered
  <2>3. QED
    BY <1>1, <2>1, <2>2 DEF CopyInv
<1>3. ASSUME inbox' = inbox, sends' \subseteq sends, posted \subseteq posted' PROVE CopyInv'
  <2>1. \A u \in Users : \A i \in CopiesFrom(inbox'[u], "send") : i \in Int /\ i + 0 = i
    BY <1>b
  <2>2. \A u \in Users : Moved(u, "send", 0)
    BY <1>3, <2>1 DEF Moved
  <2>3. QED
    BY <1>2, <1>3, <2>2
<1>4. CASE \/ \E u \in Users, id \in Ids : Attach(u, id) \/ Rotate(u, id)
           \/ \E u \in Users : Detach(u) \/ \E v \in Users : Write(u, v)
           \/ Command
  BY <1>3, <1>4 DEF Attach, Rotate, Detach, Write, Command, Tell, process, requests
<1>5. CASE HandleUpdate
  <2>1. ASSUME NEW u \in Users
        PROVE  \E k \in {0, 1} : Moved(u, "send", k)
    <3> DEFINE c == Copy("update", mem.offset + 1, log[mem.offset + 1].from)
    <3>1. CASE u \in Receivers(mem, log[mem.offset + 1])
      <4>1. c \in Copies /\ inbox'[u] = Pushed(inbox[u], c) /\ c.source # "send"
        BY <1>1, <1>5, <3>1, HandleQueues DEF Copy
      <4> HIDE DEF c
      <4>2. QED
        BY <1>1, <4>1, OtherSource
    <3>2. CASE u \notin Receivers(mem, log[mem.offset + 1])
      <4>1. inbox'[u] = inbox[u]
        BY <1>1, <1>5, <3>2, HandleQueues
      <4>2. \A i \in CopiesFrom(inbox'[u], "send") : i \in Int /\ i + 0 = i
        BY <1>b
      <4>3. Moved(u, "send", 0)
        BY <4>1, <4>2 DEF Moved
      <4>4. QED
        BY <4>3
    <3>3. QED
      BY <3>1, <3>2
  <2>2. QED
    BY <1>2, <1>5, <2>1 DEF HandleUpdate, requests
<1>6. CASE GreetingEnds \/ SaveState \/ UNCHANGED vars
  BY <1>3, <1>6 DEF GreetingEnds, SaveState, vars, requests
<1>7. CASE Restart
  <2>1. sends' = {} /\ inbox' = [u \in Users |-> <<>>]
    BY <1>7 DEF Restart
  <2>2. \A u \in Users : CopiesFrom(inbox'[u], "send") = {}
    BY <2>1, EmptySeq DEF CopiesFrom
  <2>3. QED
    BY <1>1, <2>1, <2>2 DEF CopyInv, CopyWasPosted, Unanswered
<1>8. ASSUME NEW u \in Users, NEW v \in Users, Send(u, v) PROVE CopyInv'
  <2>1. /\ sends' = sends \cup {[n |-> sent + 1, from |-> u, to |-> v, conn |-> mem.conn[u]]}
        /\ posted' = posted /\ inbox' = inbox
    BY <1>8 DEF Send, process
  <2>2. \A w \in Users : CopiesFrom(inbox'[w], "send") = CopiesFrom(inbox[w], "send")
    BY <2>1 DEF CopiesFrom
  <2>3. CopyWasPosted'
    BY <1>1, <2>1, <2>2 DEF CopyWasPosted
  <2>4. \A w \in Users : \A i \in CopiesFrom(inbox[w], "send") : inbox[w][i].n \in 1 .. sent
    BY <1>1 DEF CopyWasPosted
  <2>5. \A s \in sends' : s \in sends \/ s.n = sent + 1
    BY <2>1
  <2>6. \A s, t \in sends' : s.n = t.n => s = t
    BY <1>1, <2>1 DEF Unanswered
  <2>7. \A s \in sends' : \A w \in Users : \A i \in CopiesFrom(inbox[w], "send") : inbox[w][i].n # s.n
    BY <1>1, <2>4, <2>5 DEF Unanswered
  <2>8. QED
    BY <1>1, <2>1, <2>2, <2>3, <2>6, <2>7 DEF CopyInv, Unanswered
<1>9. ASSUME NEW s \in sends, Posts(s) \/ Refused(s) PROVE CopyInv'
  BY <1>3, <1>9 DEF Posts, Refused, process
<1>10. ASSUME NEW s \in sends, Answered(s) PROVE CopyInv'
  <2> DEFINE c == Copy("send", s.n, s.from)
  <2>1. /\ s.n \in posted /\ sends' = sends \ {s} /\ posted' = posted
        /\ inbox' = [inbox EXCEPT ![s.to] = Pushed(@, c)]
    BY <1>10 DEF Answered, Accepted
  <2>0. s.n \in posted /\ posted' = posted
    BY <2>1
  <2>2. c \in Copies /\ c.source = "send" /\ c.n = s.n /\ s.to \in Users
    BY <1>1 DEF Copy, Copies
  <2>3. inbox'[s.to] = Pushed(inbox[s.to], c) /\ \A u \in Users \ {s.to} : inbox'[u] = inbox[u]
    BY <1>1, <2>1, <2>2 DEF Inboxes
  <2> HIDE DEF c
  <2>k. PICK k \in {0, 1} : \E at :
           /\ inbox'[s.to][at] = c
           /\ \A i \in CopiesFrom(inbox'[s.to], "send") \ {at} :
                 i + k \in CopiesFrom(inbox[s.to], "send") /\ inbox'[s.to][i] = inbox[s.to][i + k]
    <3>1. PICK u \in Users : u = s.to
      BY <2>2
    <3>2. Inboxes /\ c \in Copies /\ c.source = "send" /\ inbox'[u] = Pushed(inbox[u], c)
      BY <1>1, <2>2, <2>3, <3>1
    <3>3. QED
      BY <3>1, <3>2, SameSource
  <2>4. PICK at :
           /\ inbox'[s.to][at] = c
           /\ \A i \in CopiesFrom(inbox'[s.to], "send") \ {at} :
                 i + k \in CopiesFrom(inbox[s.to], "send") /\ inbox'[s.to][i] = inbox[s.to][i + k]
    BY <2>k
  <2> DEFINE d(u) == IF u = s.to THEN k ELSE 0
  <2>5. ASSUME NEW u \in Users \ {s.to}, NEW i \in CopiesFrom(inbox'[u], "send")
        PROVE  i + 0 \in CopiesFrom(inbox[u], "send") /\ inbox'[u][i] = inbox[u][i + 0]
    <3>1. i + 0 = i
      BY <1>b
    <3>2. inbox'[u] = inbox[u]
      BY <2>3
    <3>3. QED
      BY <3>1, <3>2 DEF CopiesFrom
  \* A copy that is there now was there, or is the new one.
  <2>6. \A u \in Users : \A i \in CopiesFrom(inbox'[u], "send") :
           \/ i + d(u) \in CopiesFrom(inbox[u], "send") /\ inbox'[u][i] = inbox[u][i + d(u)]
           \/ u = s.to /\ i = at /\ inbox'[u][i].n = s.n
    BY <2>2, <2>4, <2>5
  <2>d. \A u \in Users : d(u) \in Int
    OBVIOUS
  <2> HIDE DEF d
  <2>7. \A u \in Users : \A i \in CopiesFrom(inbox[u], "send") : inbox[u][i].n # s.n
    BY <1>1 DEF Unanswered
  <2>8. CopyWasPosted'
    <3> SUFFICES ASSUME NEW u \in Users, NEW i \in CopiesFrom(inbox'[u], "send")
                 PROVE  /\ inbox'[u][i].n \in posted'
                        /\ \A v \in Users : \A j \in CopiesFrom(inbox'[v], "send") :
                              inbox'[u][i].n = inbox'[v][j].n => u = v /\ i = j
      BY DEF CopyWasPosted
    <3>1. inbox'[u][i].n \in posted'
      <4>1. CASE i + d(u) \in CopiesFrom(inbox[u], "send") /\ inbox'[u][i] = inbox[u][i + d(u)]
        <5>1. inbox[u][i + d(u)].n \in posted
          BY <1>1, <4>1 DEF CopyWasPosted
        <5>2. QED
          BY <2>0, <4>1, <5>1
      <4>2. CASE inbox'[u][i].n = s.n
        BY <2>0, <4>2
      <4>3. QED
        BY <2>6, <4>1, <4>2
    <3>2. ASSUME NEW v \in Users, NEW j \in CopiesFrom(inbox'[v], "send"), inbox'[u][i].n = inbox'[v][j].n
          PROVE  u = v /\ i = j
      <4>1. CASE i + d(u) \in CopiesFrom(inbox[u], "send") /\ inbox'[u][i] = inbox[u][i + d(u)]
        <5>1. inbox'[v][j].n # s.n
          BY <2>7, <3>2, <4>1
        <5>2. j + d(v) \in CopiesFrom(inbox[v], "send") /\ inbox'[v][j] = inbox[v][j + d(v)]
          BY <2>6, <5>1
        <5>3. u = v /\ i + d(u) = j + d(v)
          BY <1>1, <3>2, <4>1, <5>2 DEF CopyWasPosted
        <5>4. QED
          BY <1>b, <2>d, <5>3
      <4>2. CASE u = s.to /\ i = at /\ inbox'[u][i].n = s.n
        BY <2>6, <2>7, <3>2, <4>2
      <4>3. QED
        BY <2>6, <4>1, <4>2
    <3>3. QED
      BY <3>1, <3>2
  <2>9. Unanswered'
    <3>1. \A x, y \in sends' : x.n = y.n => x = y
      BY <1>1, <2>1 DEF Unanswered
    <3>2. \A x \in sends' : x \in sends /\ x.n # s.n
      BY <1>1, <2>1 DEF Unanswered
    <3>3. ASSUME NEW x \in sends', NEW u \in Users, NEW i \in CopiesFrom(inbox'[u], "send")
          PROVE  inbox'[u][i].n # x.n
      BY <1>1, <2>6, <3>2, <3>3 DEF Unanswered
    <3>4. QED
      BY <3>1, <3>3 DEF Unanswered
  <2>10. QED
    BY <1>1, <2>8, <2>9 DEF CopyInv
<1>11. QED
  BY <1>4, <1>5, <1>6, <1>7, <1>8, <1>9, <1>10 DEF Next

\* bot.py:1074-1089: however requests, answers and restarts interleave, a copy
\* of /send is of a text Telegram has posted, and there is one of it.
THEOREM CopiesPosted == Spec => []CopyWasPosted
<1>1. Init => CopyInv
  <2> SUFFICES ASSUME Init PROVE CopyInv
    OBVIOUS
  <2>0. \A u \in Users : inbox[u] = << >> /\ Len(inbox[u]) = 0
    BY EmptySeq DEF Init
  <2>1. ASSUME NEW u \in Users PROVE CopiesFrom(inbox[u], "send") = {}
    <3>1. 1 .. Len(inbox[u]) = {}
      BY <2>0
    <3>2. QED
      BY <3>1 DEF CopiesFrom
  <2>2. QED
    BY <2>1, InitDeliveryInv DEF Init, CopyInv, CopyWasPosted, Unanswered
<1>2. CopyInv => CopyWasPosted
  BY DEF CopyInv
<1>3. QED
  BY <1>1, <1>2, NextCopyInv, PTL DEF Spec

(***************************************************************************)
(* Messages.  What an update queues depends on the tables of its time      *)
(* alone, and those are Replay's.                                          *)
(***************************************************************************)
InboxInv == ReplayInv /\ InboxIsReplay

\* InboxIsReplay, for one user.
QueuedIn(u) == {i \in start + 1 .. mem.offset : Queued(u, i)}

InboxOf(u) ==
    LET copies == CopiesFrom(inbox[u], "update")
    IN  /\ \A i \in copies : inbox[u][i].n \in QueuedIn(u)
        /\ \A i, j \in copies : i < j => inbox[u][i].n < inbox[u][j].n
        /\ \A n \in QueuedIn(u) :
              \/ \E i \in copies : inbox[u][i].n = n
              \/ Len(inbox[u]) = MaxInbox /\ \A i \in copies : n < inbox[u][i].n

\* What has left the inbox, or leaves it now, is older than what stays.
LEMMA MissingIsOlder ==
    ASSUME NEW u \in Users, NEW k \in {0, 1}, NEW at, NEW n \in QueuedIn(u), InboxOf(u), n < at,
           \A i \in CopiesFrom(inbox[u], "update") \cup CopiesFrom(inbox'[u], "update") : i \in Nat \ {0},
           \A i \in CopiesFrom(inbox'[u], "update") :
              \/ inbox'[u][i].n = at
              \/ i + k \in CopiesFrom(inbox[u], "update") /\ inbox'[u][i] = inbox[u][i + k],
           Kept(u, "update", k),
           ~\E i \in CopiesFrom(inbox'[u], "update") : inbox'[u][i].n = n
    PROVE  Len(inbox'[u]) = MaxInbox /\ \A i \in CopiesFrom(inbox'[u], "update") : n < inbox'[u][i].n
<1>1. CASE \E i \in CopiesFrom(inbox[u], "update") : inbox[u][i].n = n
  <2>1. PICK i \in CopiesFrom(inbox[u], "update") : inbox[u][i].n = n
    BY <1>1
  <2>2. i = 1 /\ k = 1
    <3>1. ~(i > k)
      BY <2>1 DEF Kept
    <3>2. i \in Nat \ {0}
      OBVIOUS
    <3>3. QED
      BY <3>1, <3>2
  <2>3. Len(inbox'[u]) = MaxInbox
    BY <2>2 DEF Kept
  <2>4. ASSUME NEW j \in CopiesFrom(inbox'[u], "update") PROVE n < inbox'[u][j].n
    <3>1. CASE inbox'[u][j].n = at
      BY <3>1
    <3>2. CASE j + k \in CopiesFrom(inbox[u], "update") /\ inbox'[u][j] = inbox[u][j + k]
      <4>1. i < j + k
        BY <2>2
      <4>2. QED
        BY <2>1, <3>2, <4>1 DEF InboxOf
    <3>3. QED
      BY <3>1, <3>2
  <2>5. QED
    BY <2>3, <2>4
<1>2. CASE Len(inbox[u]) = MaxInbox /\ \A i \in CopiesFrom(inbox[u], "update") : n < inbox[u][i].n
  BY <1>2 DEF Kept
<1>3. QED
  BY <1>1, <1>2 DEF InboxOf

\* A connection names the user it is queued for, and the other way round.
LEMMA ReceiverIsQueued ==
    ASSUME ReplayInv, NEW u \in Users, mem.offset < Len(log)
    PROVE  u \in Receivers(mem, log[mem.offset + 1]) <=> Queued(u, mem.offset + 1)
<1> DEFINE i == mem.offset + 1
           x == log[i]
<1>1. /\ mem \in Tables /\ Mutual(mem) /\ log \in Seq(Updates) /\ mem.offset \in Nat
      /\ Len(log) \in Nat
  BY LenProperties DEF ReplayInv, DeliveryInv, Sound, Offsets
<1>2. i \in 1 .. Len(log) /\ i - 1 = mem.offset
  BY <1>1
<1>3. Replay[i - 1] = mem
  BY <1>2 DEF ReplayInv, StateIsReplay
<1>4. x \in Updates
  BY <1>1, <1>2, ElementOfSeq
<1> HIDE DEF i, x
<1>5. CASE x.kind # "message"
  BY <1>5 DEF Receivers, Queued, x, i
<1>6. CASE x.kind = "message"
  <2>1. x.conn \in Conns /\ x.from \in Users
    BY <1>4, <1>6 DEF Updates, Enabled, Disabled
  <2>2. mem.owner[x.conn] = u <=> mem.conn[u] = x.conn
    BY <1>1, <2>1 DEF Mutual
  <2>3. Receivers(mem, x) = {v \in Users : v = mem.owner[x.conn] /\ v # x.from /\ IsPeer(mem, v, x.from)}
    BY <1>6 DEF Receivers
  <2>4. Queued(u, i) <=> (x.from # u /\ mem.conn[u] = x.conn /\ IsPeer(mem, u, x.from))
    BY <1>3, <1>6 DEF Queued, x
  <2>5. QED
    BY <2>2, <2>3, <2>4 DEF x, i
<1>7. QED
  BY <1>5, <1>6

\* What was queued for an update stays so when the log grows.
LEMMA QueuedStands ==
    ASSUME DeliveryInv, DeliveryInv', LogGrows, NEW u \in Users, NEW i \in 1 .. Len(log)
    PROVE  Queued(u, i)' <=> Queued(u, i)
<1>1. i - 1 \in 0 .. Len(log) /\ log'[i] = log[i]
  BY LenProperties DEF DeliveryInv, LogGrows
<1>2. Replay'[i - 1] = Replay[i - 1]
  BY <1>1, ReplayStands
<1>3. QED
  BY <1>1, <1>2 DEF Queued

LEMMA NextInboxInv == InboxInv /\ [Next]_vars => InboxInv'
<1> SUFFICES ASSUME InboxInv, [Next]_vars PROVE InboxInv'
  OBVIOUS
<1>1. ReplayInv /\ ReplayInv' /\ DeliveryInv /\ DeliveryInv' /\ Inboxes
  BY NextReplayInv DEF InboxInv, ReplayInv, DeliveryInv
<1>2. /\ start \in Nat /\ mem.offset \in Nat /\ start <= mem.offset
      /\ mem.offset <= Len(log) /\ Len(log) \in Nat
  BY <1>1, LenProperties DEF DeliveryInv, Offsets
<1>a. ASSUME NEW u \in Users
      PROVE  \A i \in CopiesFrom(inbox[u], "update") \cup CopiesFrom(inbox'[u], "update") : i \in Nat \ {0}
  <2>1. inbox[u] \in Seq(Copies) /\ inbox'[u] \in Seq(Copies)
    BY <1>1 DEF DeliveryInv, Inboxes
  <2>2. Len(inbox[u]) \in Nat /\ Len(inbox'[u]) \in Nat
    BY <2>1, LenProperties
  <2>3. QED
    BY <2>2 DEF CopiesFrom
\* Steps that queue no message and handle no update.
<1>3. ASSUME LogGrows, mem' = mem, start' = start,
             \A u \in Users : \E k \in {0, 1} : Moved(u, "update", k) /\ Kept(u, "update", k)
      PROVE  InboxInv'
  <2> SUFFICES ASSUME NEW u \in Users PROVE InboxOf(u)'
    BY <1>1 DEF InboxInv, InboxIsReplay, InboxOf, QueuedIn
  <2>1. QueuedIn(u)' = QueuedIn(u)
    <3>1. \A i \in start + 1 .. mem.offset : Queued(u, i)' <=> Queued(u, i)
      BY <1>1, <1>2, <1>3, QueuedStands
    <3>2. QED
      BY <1>3, <3>1 DEF QueuedIn
  <2>2. InboxOf(u)
    BY DEF InboxInv, InboxIsReplay, InboxOf, QueuedIn
  <2>3. PICK k \in {0, 1} : Moved(u, "update", k) /\ Kept(u, "update", k)
    BY <1>3
  <2>4. \A i \in CopiesFrom(inbox'[u], "update") :
           i + k \in CopiesFrom(inbox[u], "update") /\ inbox'[u][i] = inbox[u][i + k] /\ i \in Int
    BY <1>a, <2>3 DEF Moved
  <2>5. \A i \in CopiesFrom(inbox'[u], "update") : inbox'[u][i].n \in QueuedIn(u)
    BY <2>2, <2>4 DEF InboxOf
  <2>6. ASSUME NEW i \in CopiesFrom(inbox'[u], "update"), NEW j \in CopiesFrom(inbox'[u], "update"), i < j
        PROVE  inbox'[u][i].n < inbox'[u][j].n
    <3>1. i + k < j + k
      BY <2>4, <2>6
    <3>2. QED
      BY <2>2, <2>4, <3>1 DEF InboxOf
  <2>7. ASSUME NEW n \in QueuedIn(u), ~\E i \in CopiesFrom(inbox'[u], "update") : inbox'[u][i].n = n
        PROVE  Len(inbox'[u]) = MaxInbox /\ \A i \in CopiesFrom(inbox'[u], "update") : n < inbox'[u][i].n
    <3>1. n \in Int
      BY <1>2 DEF QueuedIn
    <3>2. PICK at : at = n + 1 /\ n < at
      BY <3>1
    <3>3. QED
      BY <1>a, <2>2, <2>3, <2>4, <2>7, <3>2, MissingIsOlder
  <2>8. QED
    BY <2>1, <2>5, <2>6, <2>7 DEF InboxOf
<1>4. ASSUME LogGrows, mem' = mem, start' = start, inbox' = inbox PROVE InboxInv'
  <2>1. ASSUME NEW u \in Users PROVE Moved(u, "update", 0) /\ Kept(u, "update", 0)
    <3>1. \A i \in CopiesFrom(inbox[u], "update") : i + 0 = i /\ i - 0 = i
      BY <1>a
    <3>2. QED
      BY <1>4, <3>1 DEF Moved, Kept
  <2>2. QED
    BY <1>3, <1>4, <2>1
<1>6. CASE \/ \E u \in Users, id \in Ids : Attach(u, id) \/ Rotate(u, id)
           \/ \E u \in Users : Detach(u) \/ \E v \in Users : Write(u, v)
           \/ Command
  <2>1. LogGrows /\ UNCHANGED process
    <3>1. CASE Command
      <4>1. \E u \in Users : TRUE
        BY <3>1 DEF Command, Pairs
      <4>2. QED
        BY <1>1, <3>1, <4>1, TelegramKeepsInv, DeliveryAssumption
    <3>2. CASE ~Command
      BY <1>1, <1>6, <3>2, TelegramKeepsInv, DeliveryAssumption
    <3>3. QED
      BY <3>1, <3>2
  <2>2. QED
    BY <1>4, <2>1 DEF process
<1>7. CASE HandleUpdate
  <2> DEFINE at == mem.offset + 1
             x == log[at]
             c == Copy("update", at, x.from)
  <2>1. /\ log' = log /\ start' = start /\ mem'.offset = at
        /\ mem.offset < Len(log)
    <3>1. mem' = After(mem, x, at)
      BY <1>7 DEF HandleUpdate, After, OffsetAt
    <3>2. Handled(mem, x) \in Tables
      <4>1. at \in 1 .. Len(log)
        BY <1>2, <1>7 DEF HandleUpdate
      <4>2. QED
        BY <1>1, <4>1, HandledSound, ElementOfSeq DEF DeliveryInv, Sound
    <3>3. QED
      BY <1>7, <3>1, <3>2 DEF HandleUpdate, After, Tables, telegram
  <2>2. LogGrows
    BY <2>1 DEF LogGrows
  <2> SUFFICES ASSUME NEW u \in Users PROVE InboxOf(u)'
    BY <1>1 DEF InboxInv, InboxIsReplay, InboxOf, QueuedIn
  <2>3. InboxOf(u)
    BY DEF InboxInv, InboxIsReplay, InboxOf, QueuedIn
  <2>4. \A i \in start + 1 .. at : Queued(u, i)' <=> Queued(u, i)
    BY <1>1, <1>2, <2>1, <2>2, QueuedStands
  <2>5. QueuedIn(u)' = IF Queued(u, at) THEN QueuedIn(u) \cup {at} ELSE QueuedIn(u)
    <3>1. QueuedIn(u)' = {i \in start + 1 .. at : Queued(u, i)}
      BY <2>1, <2>4 DEF QueuedIn
    <3>2. \A i \in Int : i \in start + 1 .. at <=> (i \in start + 1 .. mem.offset \/ i = at)
      BY <1>2
    <3>3. QED
      BY <1>2, <3>1, <3>2 DEF QueuedIn
  <2>6. u \in Receivers(mem, x) <=> Queued(u, at)
    BY <1>1, <2>1, ReceiverIsQueued
  <2>7. at \in Int /\ \A n \in QueuedIn(u) : n \in Int /\ n < at
    BY <1>2 DEF QueuedIn
  <2> HIDE DEF at, x, c
  <2>8. CASE u \in Receivers(mem, x)
    <3>1. c \in Copies /\ c.source = "update" /\ c.n = at /\ inbox'[u] = Pushed(inbox[u], c)
      BY <1>1, <1>7, <2>8, HandleQueues DEF Copy, c, x, at
    <3>0. PICK k \in {0, 1} : \E end :
             /\ end \in CopiesFrom(inbox'[u], "update") /\ inbox'[u][end] = c
             /\ \A i \in CopiesFrom(inbox'[u], "update") \ {end} :
                   /\ i + k \in CopiesFrom(inbox[u], "update")
                   /\ inbox'[u][i] = inbox[u][i + k] /\ i < end
             /\ Kept(u, "update", k)
      BY <1>1, <3>1, SameSource
    <3>2. PICK end :
             /\ end \in CopiesFrom(inbox'[u], "update") /\ inbox'[u][end] = c
             /\ \A i \in CopiesFrom(inbox'[u], "update") \ {end} :
                   /\ i + k \in CopiesFrom(inbox[u], "update")
                   /\ inbox'[u][i] = inbox[u][i + k] /\ i < end
             /\ Kept(u, "update", k)
      BY <3>0
    <3>3. QueuedIn(u)' = QueuedIn(u) \cup {at} /\ inbox'[u][end].n = at
      BY <2>5, <2>6, <2>8, <3>1, <3>2
    <3>4. \A i \in CopiesFrom(inbox'[u], "update") : inbox'[u][i].n \in QueuedIn(u)'
      BY <2>3, <3>2, <3>3 DEF InboxOf
    <3>5. ASSUME NEW i \in CopiesFrom(inbox'[u], "update"), NEW j \in CopiesFrom(inbox'[u], "update"), i < j
          PROVE  inbox'[u][i].n < inbox'[u][j].n
      <4>1. i \in Nat /\ j \in Nat /\ end \in Nat
        BY <1>a, <3>2
      <4>2. i # end
        BY <3>2, <3>5, <4>1
      <4>3. i + k \in CopiesFrom(inbox[u], "update") /\ inbox'[u][i] = inbox[u][i + k]
        BY <3>2, <4>2
      <4>4. CASE j = end
        BY <2>3, <2>7, <3>3, <4>3, <4>4 DEF InboxOf
      <4>5. CASE j # end
        <5>1. j + k \in CopiesFrom(inbox[u], "update") /\ inbox'[u][j] = inbox[u][j + k] /\ i + k < j + k
          BY <3>2, <3>5, <4>1, <4>5
        <5>2. QED
          BY <2>3, <4>3, <5>1 DEF InboxOf
      <4>6. QED
        BY <4>4, <4>5
    <3>6. ASSUME NEW n \in QueuedIn(u)', ~\E i \in CopiesFrom(inbox'[u], "update") : inbox'[u][i].n = n
          PROVE  Len(inbox'[u]) = MaxInbox /\ \A i \in CopiesFrom(inbox'[u], "update") : n < inbox'[u][i].n
      <4>1. n # at
        BY <3>2, <3>3, <3>6
      <4>2. n \in QueuedIn(u) /\ n < at
        BY <2>7, <3>3, <4>1
      <4>3. \A i \in CopiesFrom(inbox'[u], "update") :
               \/ inbox'[u][i].n = at
               \/ i + k \in CopiesFrom(inbox[u], "update") /\ inbox'[u][i] = inbox[u][i + k]
        BY <3>2, <3>3
      <4>4. QED
        BY <1>a, <2>3, <3>2, <3>6, <4>2, <4>3, MissingIsOlder
    <3>7. QED
      BY <3>4, <3>5, <3>6 DEF InboxOf
  <2>9. CASE u \notin Receivers(mem, x)
    <3>1. inbox'[u] = inbox[u]
      BY <1>1, <1>7, <2>9, HandleQueues DEF x, at
    <3>2. QueuedIn(u)' = QueuedIn(u)
      BY <2>5, <2>6, <2>9
    <3>3. QED
      BY <2>3, <3>1, <3>2 DEF InboxOf
  <2>10. QED
    BY <2>8, <2>9
<1>8. CASE GreetingEnds \/ SaveState \/ UNCHANGED vars
  BY <1>4, <1>8 DEF GreetingEnds, SaveState, vars, telegram, LogGrows
<1>9. CASE Restart
  <2>1. /\ start' = mem'.offset /\ \A u \in Users : inbox'[u] = << >>
        /\ mem'.offset \in Nat
    BY <1>1, <1>9 DEF Restart, DeliveryInv, Offsets
  <2>2. ASSUME NEW u \in Users
        PROVE  /\ CopiesFrom(inbox'[u], "update") = {}
               /\ start' + 1 .. mem'.offset = {}
    <3>1. Len(inbox'[u]) = 0
      BY <2>1, EmptySeq
    <3>2. 1 .. Len(inbox'[u]) = {}
      BY <3>1
    <3>3. QED
      BY <2>1, <3>2 DEF CopiesFrom
  <2>3. QED
    BY <1>1, <2>2 DEF InboxInv, InboxIsReplay
<1>10. ASSUME NEW u \in Users, NEW v \in Users, Send(u, v) PROVE InboxInv'
  BY <1>4, <1>10 DEF Send, telegram, process, LogGrows
<1>11. ASSUME NEW s \in sends, Posts(s) \/ Refused(s) PROVE InboxInv'
  BY <1>4, <1>11 DEF Posts, Refused, telegram, process, LogGrows
<1>12. ASSUME NEW s \in sends, Answered(s) PROVE InboxInv'
  <2> DEFINE c == Copy("send", s.n, s.from)
  <2>1. /\ mem' = mem /\ start' = start /\ log' = log
        /\ inbox' = [inbox EXCEPT ![s.to] = Pushed(@, c)]
    BY <1>12 DEF Answered, telegram
  <2>2. c \in Copies /\ c.source # "update"
    BY <1>1 DEF DeliveryInv, Requests, Copy, Copies
  <2>3. \A u \in Users : inbox'[u] \in {inbox[u], Pushed(inbox[u], c)}
    BY <1>1, <2>1 DEF Inboxes
  <2> HIDE DEF c
  <2>4. \A u \in Users : \E k \in {0, 1} : Moved(u, "update", k) /\ Kept(u, "update", k)
    BY <1>1, <2>2, <2>3, OtherSource
  <2>5. mem' = mem /\ start' = start /\ LogGrows
    BY <2>1 DEF LogGrows
  <2>6. QED
    BY <1>3, <2>4, <2>5
<1>13. QED
  BY <1>6, <1>7, <1>8, <1>9, <1>10, <1>11, <1>12 DEF Next

\* bot.py:743-771: an inbox holds, each once and in order, the messages the
\* peers of its user wrote, as the tables of their time told, whatever was
\* saved, repeated or told late, but for the oldest a full inbox has dropped.
THEOREM InboxReplayed == Spec => []InboxIsReplay
<1>1. Init => InboxInv
  <2> SUFFICES ASSUME Init PROVE InboxInv
    OBVIOUS
  <2>1. ASSUME NEW u \in Users
        PROVE  CopiesFrom(inbox[u], "update") = {} /\ start + 1 .. mem.offset = {}
    <3>1. Len(inbox[u]) = 0 /\ start = 0 /\ mem.offset = 0
      BY EmptySeq DEF Init, Settled
    <3>2. 1 .. Len(inbox[u]) = {} /\ start + 1 .. mem.offset = {}
      BY <3>1
    <3>3. QED
      BY <3>2 DEF CopiesFrom
  <2>2. QED
    BY <2>1, InitReplayInv DEF InboxInv, InboxIsReplay
<1>2. InboxInv => InboxIsReplay
  BY DEF InboxInv
<1>3. QED
  BY <1>1, <1>2, NextInboxInv, PTL DEF Spec

(***************************************************************************)
(* The connection a user has is the one the last update about it tells;    *)
(* Telegram's side is the same with the updates it has told.               *)
(***************************************************************************)

TellsOf(x, u) == x.kind \in {"enabled", "disabled"} /\ x.user = u

Last(i, u, n) == i \in About(u, n) /\ \A j \in About(u, n) : j <= i

Told(x) == IF x.kind = "disabled" THEN None ELSE x.conn

\* What a table that has handled n updates has for a user.
AsTold(m) ==
    \A u \in Users :
        /\ About(u, m.offset) = {} => m.conn[u] = <<u, First>>
        /\ \A i \in Nat : Last(i, u, m.offset) => m.conn[u] = Told(log[i])

\* What Telegram has told last of a user's connection.
AsIs ==
    \A u \in Users :
        /\ About(u, Len(log)) = {} => actual[u] = First
        /\ \A i \in Nat : Last(i, u, Len(log)) /\ log[i].kind = "enabled"
                            => log[i].conn = <<u, actual[u]>>

CurrentInv == DeliveryInv /\ AsTold(mem) /\ AsTold(disk) /\ AsIs

\* One more update.
LEMMA AboutNext ==
    ASSUME NEW u, NEW n \in Nat
    PROVE  /\ About(u, n + 1) = About(u, n) \cup {i \in {n + 1} : TellsOf(log[i], u)}
           /\ About(u, n + 1)' = About(u, n)' \cup {i \in {n + 1} : TellsOf(log'[i], u)}
<1>1. 1 .. n + 1 = 1 .. n \cup {n + 1}
  OBVIOUS
<1>2. QED
  BY <1>1 DEF About, TellsOf

LEMMA LastNext ==
    ASSUME NEW u, NEW n \in Nat, NEW i \in Nat
    PROVE  /\ TellsOf(log[n + 1], u) => About(u, n + 1) # {} /\ (Last(i, u, n + 1) => i = n + 1)
           /\ ~TellsOf(log[n + 1], u) => /\ About(u, n + 1) = About(u, n)
                                         /\ Last(i, u, n + 1) <=> Last(i, u, n)
           /\ TellsOf(log'[n + 1], u) => About(u, n + 1)' # {} /\ (Last(i, u, n + 1)' => i = n + 1)
           /\ ~TellsOf(log'[n + 1], u) => /\ About(u, n + 1)' = About(u, n)'
                                          /\ Last(i, u, n + 1)' <=> Last(i, u, n)'
<1>1. About(u, n) \subseteq 1 .. n /\ About(u, n)' \subseteq 1 .. n
  BY DEF About
<1>2. ASSUME TellsOf(log[n + 1], u)
      PROVE  About(u, n + 1) # {} /\ (Last(i, u, n + 1) => i = n + 1)
  <2>1. n + 1 \in About(u, n + 1) /\ \A j \in About(u, n + 1) : j <= n + 1 /\ j \in Nat
    BY <1>1, <1>2, AboutNext
  <2>2. QED
    BY <2>1 DEF Last
<1>3. ASSUME ~TellsOf(log[n + 1], u)
      PROVE  About(u, n + 1) = About(u, n) /\ (Last(i, u, n + 1) <=> Last(i, u, n))
  <2>1. {j \in {n + 1} : TellsOf(log[j], u)} = {}
    BY <1>3
  <2>2. About(u, n + 1) = About(u, n)
    <3>1. About(u, n + 1) = About(u, n) \cup {j \in {n + 1} : TellsOf(log[j], u)}
      BY AboutNext
    <3>2. QED
      BY <2>1, <3>1
  <2>3. QED
    BY <2>2 DEF Last
<1>4. ASSUME TellsOf(log'[n + 1], u)
      PROVE  About(u, n + 1)' # {} /\ (Last(i, u, n + 1)' => i = n + 1)
  <2>1. n + 1 \in About(u, n + 1)' /\ \A j \in About(u, n + 1)' : j <= n + 1 /\ j \in Nat
    BY <1>1, <1>4, AboutNext
  <2>2. QED
    BY <2>1 DEF Last
<1>5. ASSUME ~TellsOf(log'[n + 1], u)
      PROVE  About(u, n + 1)' = About(u, n)' /\ (Last(i, u, n + 1)' <=> Last(i, u, n)')
  <2>1. {j \in {n + 1} : TellsOf(log'[j], u)} = {}
    BY <1>5
  <2>2. About(u, n + 1)' = About(u, n)'
    <3>1. About(u, n + 1)' = About(u, n)' \cup {j \in {n + 1} : TellsOf(log'[j], u)}
      BY AboutNext
    <3>2. QED
      BY <2>1, <3>1
  <2>3. QED
    BY <2>2 DEF Last
<1>6. QED
  BY <1>2, <1>3, <1>4, <1>5

\* What was told stays as it was when the log grows.
LEMMA AboutStands ==
    ASSUME log \in Seq(Updates), LogGrows, NEW u, NEW n \in Nat, n <= Len(log)
    PROVE  About(u, n)' = About(u, n) /\ \A i \in Nat : Last(i, u, n)' <=> Last(i, u, n)
<1>1. \A i \in 1 .. n : log'[i] = log[i]
  BY LenProperties DEF LogGrows
<1>2. About(u, n)' = About(u, n)
  BY <1>1 DEF About
<1>3. QED
  BY <1>2 DEF Last

\* Some update about a user is the last.
LEMMA LastExists ==
    ASSUME NEW u, NEW n \in Nat, About(u, n) # {}
    PROVE  \E i \in Nat : Last(i, u, n)
<1> DEFINE T == {n - i : i \in About(u, n)}
<1>1. T \in SUBSET Nat /\ T # {}
  BY DEF About
<1>2. PICK k \in T : \A j \in T : k <= j
  <2> HIDE DEF T
  <2>1. QED
    BY <1>1, LeastNatural
<1>3. PICK i \in About(u, n) : k = n - i
  OBVIOUS
<1>4. i \in Nat
  BY DEF About
<1>5. ASSUME NEW j \in About(u, n) PROVE j <= i
  <2>1. k <= n - j /\ j \in Nat
    BY <1>2 DEF About
  <2>2. QED
    BY <1>3, <1>4, <2>1
<1>6. QED
  BY <1>4, <1>5 DEF Last

\* A table is as told when the log grows.
LEMMA AsToldStands ==
    ASSUME log \in Seq(Updates), LogGrows, NEW m, m.offset \in Nat, m.offset <= Len(log), AsTold(m)
    PROVE  AsTold(m)'
<1>1. ASSUME NEW u \in Users
      PROVE  /\ About(u, m.offset)' = About(u, m.offset)
             /\ \A i \in Nat : Last(i, u, m.offset)' <=> Last(i, u, m.offset)
  BY AboutStands
<1>2. ASSUME NEW u \in Users, NEW i \in Nat, Last(i, u, m.offset) PROVE log'[i] = log[i]
  <2>1. i \in 1 .. Len(log)
    BY <1>2, LenProperties DEF Last, About
  <2>2. QED
    BY <2>1 DEF LogGrows
<1>3. QED
  BY <1>1, <1>2 DEF AsTold, Told

\* An update handled.
LEMMA HandledAsTold ==
    ASSUME log \in Seq(Updates), NEW m, Sound(m), m.offset < Len(log), AsTold(m)
    PROVE  AsTold([Handled(m, log[m.offset + 1]) EXCEPT !.offset = m.offset + 1])
<1> DEFINE n == m.offset
           x == log[n + 1]
           t == [Handled(m, x) EXCEPT !.offset = n + 1]
<1>1. m \in Tables /\ n \in Nat /\ Len(log) \in Nat /\ n + 1 \in 1 .. Len(log)
  BY LenProperties DEF Sound, Tables
<1>2. x \in Updates
  BY <1>1, ElementOfSeq
<1>3. t.offset = n + 1 /\ t.conn = Handled(m, x).conn
  <2>1. Handled(m, x) \in Tables
    BY <1>2, HandledSound DEF Sound
  <2> HIDE DEF x, n
  <2>2. QED
    BY <2>1 DEF Tables
<1>4. \A u \in Users : t.conn[u] = IF TellsOf(x, u) THEN Told(x) ELSE m.conn[u]
  <2> HIDE DEF t, n, x
  <2> SUFFICES ASSUME NEW u \in Users
               PROVE  Handled(m, x).conn[u] = IF TellsOf(x, u) THEN Told(x) ELSE m.conn[u]
    BY <1>3
  <2>0. m.conn \in [Users -> Conns \cup {None}]
    BY <1>1 DEF Tables
  <2>1. CASE x.kind = "enabled"
    <3>1. Handled(m, x).conn = [m.conn EXCEPT ![x.user] = x.conn]
      BY <1>1, <2>1 DEF Handled, Connected, Tables
    <3>2. QED
      BY <2>0, <2>1, <3>1 DEF TellsOf, Told
  <2>2. CASE x.kind = "disabled"
    <3>1. Handled(m, x).conn = [m.conn EXCEPT ![x.user] = None]
      BY <1>1, <2>2 DEF Handled, Disconnected, Tables
    <3>2. QED
      BY <2>0, <2>2, <3>1 DEF TellsOf, Told
  <2>3. CASE x.kind \notin {"enabled", "disabled"}
    <3>1. Handled(m, x).conn = m.conn
      BY <1>1, <2>3 DEF Handled, Tables
    <3>2. QED
      BY <2>3, <3>1 DEF TellsOf
  <2>4. QED
    BY <2>1, <2>2, <2>3
<1> HIDE DEF t
<1>5. ASSUME NEW u \in Users
      PROVE  /\ About(u, n + 1) = {} => t.conn[u] = <<u, First>>
             /\ \A i \in Nat : Last(i, u, n + 1) => t.conn[u] = Told(log[i])
  <2>1. /\ About(u, n) = {} => m.conn[u] = <<u, First>>
        /\ \A i \in Nat : Last(i, u, n) => m.conn[u] = Told(log[i])
    BY DEF AsTold
  <2>2. CASE TellsOf(x, u)
    <3>1. t.conn[u] = Told(x)
      BY <1>4, <2>2
    <3>2. QED
      BY <1>1, <2>2, <3>1, LastNext
  <2>3. CASE ~TellsOf(x, u)
    <3>1. t.conn[u] = m.conn[u]
      BY <1>4, <2>3
    <3>2. QED
      BY <1>1, <2>1, <2>3, <3>1, LastNext
  <2>4. QED
    BY <2>2, <2>3
<1>6. QED
  BY <1>3, <1>5 DEF AsTold, t

\* What Telegram tells of a user last is how its connection is.
LEMMA TellAsIs ==
    ASSUME DeliveryInv, AsIs, NEW events \in Seq(Updates), Len(events) \in {1, 2}, Tell(events),
           \A u \in Users :
              \/ actual'[u] = actual[u] /\ \A k \in 1 .. Len(events) : ~TellsOf(events[k], u)
              \/ LET x == events[Len(events)]
                 IN  TellsOf(x, u) /\ (x.kind = "enabled" => x.conn = <<u, actual'[u]>>)
    PROVE  AsIs'
<1>1. log \in Seq(Updates) /\ log' = log \o events
  BY DEF DeliveryInv, Tell
<1>2. PICK n \in Nat : n = Len(log)
  BY <1>1, LenProperties
<1>3. PICK k \in {1, 2} : k = Len(events)
  OBVIOUS
<1>4. /\ Len(log') = n + k /\ \A i \in 1 .. n : log'[i] = log[i]
      /\ \A i \in 1 .. k : log'[n + i] = events[i]
  BY <1>1, <1>2, <1>3, ConcatProperties
<1>5. LogGrows
  BY <1>2, <1>4 DEF LogGrows
<1> SUFFICES ASSUME NEW u \in Users
             PROVE  /\ About(u, n + k)' = {} => actual'[u] = First
                    /\ \A i \in Nat : Last(i, u, n + k)' /\ log'[i].kind = "enabled"
                                        => log'[i].conn = <<u, actual'[u]>>
  BY <1>4 DEF AsIs, About, Last
<1>6. About(u, n)' = About(u, n) /\ \A i \in Nat : Last(i, u, n)' <=> Last(i, u, n)
  BY <1>1, <1>2, <1>5, AboutStands
<1>7. CASE actual'[u] = actual[u] /\ \A i \in 1 .. k : ~TellsOf(events[i], u)
  <2>1. \A i \in 1 .. k : ~TellsOf(log'[n + i], u)
    BY <1>4, <1>7
  <2>2. About(u, n + 1)' = About(u, n)' /\ \A i \in Nat : Last(i, u, n + 1)' <=> Last(i, u, n)'
    BY <2>1, LastNext
  <2>3. About(u, n + k)' = About(u, n)' /\ \A i \in Nat : Last(i, u, n + k)' <=> Last(i, u, n)'
    <3>1. CASE k = 1
      BY <2>2, <3>1
    <3>2. CASE k = 2
      <4>1. ~TellsOf(log'[n + 1 + 1], u) /\ n + 1 \in Nat /\ n + 1 + 1 = n + k
        BY <2>1, <3>2
      <4>2. QED
        BY <2>2, <4>1, LastNext
    <3>3. QED
      BY <3>1, <3>2
  <2>4. /\ About(u, n) = {} => actual[u] = First
        /\ \A i \in Nat : Last(i, u, n) /\ log[i].kind = "enabled" => log[i].conn = <<u, actual[u]>>
    BY <1>2 DEF AsIs
  <2>5. ASSUME NEW i \in Nat, Last(i, u, n) PROVE log'[i] = log[i]
    BY <1>4, <2>5 DEF Last, About
  <2>6. QED
    BY <1>4, <1>6, <1>7, <2>3, <2>4, <2>5
<1>8. CASE /\ TellsOf(events[k], u)
           /\ events[k].kind = "enabled" => events[k].conn = <<u, actual'[u]>>
  <2>1. log'[n + k] = events[k]
    BY <1>4
  <2>2. PICK j \in Nat : j + 1 = n + k
    OBVIOUS
  <2>3. About(u, j + 1)' # {} /\ \A i \in Nat : Last(i, u, j + 1)' => i = j + 1
    BY <1>8, <2>1, <2>2, LastNext
  <2>4. QED
    BY <1>8, <2>1, <2>2, <2>3
<1>9. QED
  BY <1>3, <1>7, <1>8

LEMMA TelegramAsIs ==
    ASSUME DeliveryInv, AsIs, NEW u \in Users, NEW id \in Ids,
           \/ Attach(u, id) \/ Rotate(u, id) \/ Detach(u)
           \/ \E v \in Users : Write(u, v)
           \/ Command
    PROVE  AsIs'
<1>0. actual \in [Users -> Ids \cup {None}]
  BY DEF DeliveryInv
<1>1. \A j \in Ids : /\ Enabled(u, j) \in Updates /\ Disabled(u, j) \in Updates
                     /\ Enabled(u, j).kind = "enabled" /\ Disabled(u, j).kind = "disabled"
                     /\ Enabled(u, j).conn = <<u, j>>
                     /\ \A v \in Users : /\ TellsOf(Enabled(u, j), v) <=> v = u
                                         /\ TellsOf(Disabled(u, j), v) <=> v = u
  BY DEF Updates, Enabled, Disabled, TellsOf
\* Telegram tells one update.
<1>2. ASSUME NEW x \in Updates, Tell(<<x>>),
             \A v \in Users :
                \/ actual'[v] = actual[v] /\ ~TellsOf(x, v)
                \/ TellsOf(x, v) /\ (x.kind = "enabled" => x.conn = <<v, actual'[v]>>)
      PROVE  AsIs'
  <2> DEFINE events == <<x>>
  <2>1. events \in Seq(Updates) /\ Len(events) = 1 /\ events[1] = x /\ Tell(events)
    BY <1>2
  <2> HIDE DEF events
  <2>2. \A v \in Users :
           \/ actual'[v] = actual[v] /\ \A k \in 1 .. Len(events) : ~TellsOf(events[k], v)
           \/ LET last == events[Len(events)]
              IN  TellsOf(last, v) /\ (last.kind = "enabled" => last.conn = <<v, actual'[v]>>)
    BY <1>2, <2>1
  <2>3. QED
    BY <2>1, <2>2, TellAsIs
<1>3. CASE Attach(u, id)
  <2>1. actual' = [actual EXCEPT ![u] = id] /\ Tell(<<Enabled(u, id)>>)
    BY <1>3 DEF Attach
  <2>2. \A v \in Users : actual'[v] = IF v = u THEN id ELSE actual[v]
    BY <1>0, <2>1
  <2>3. QED
    BY <1>1, <1>2, <2>1, <2>2
<1>4. CASE Detach(u)
  <2>1. /\ actual' = [actual EXCEPT ![u] = None] /\ Tell(<<Disabled(u, actual[u])>>)
        /\ actual[u] \in Ids
    BY <1>0, <1>4 DEF Detach
  <2>2. \A v \in Users : actual'[v] = IF v = u THEN None ELSE actual[v]
    BY <1>0, <2>1
  <2>3. QED
    BY <1>1, <1>2, <2>1, <2>2
<1>5. CASE Rotate(u, id)
  <2>1. /\ actual' = [actual EXCEPT ![u] = id] /\ actual[u] \in Ids
        /\ \/ Tell(<<Enabled(u, id)>>) \/ Tell(<<Enabled(u, id), Disabled(u, actual[u])>>)
    BY <1>0, <1>5 DEF Rotate
  <2>2. \A v \in Users : actual'[v] = IF v = u THEN id ELSE actual[v]
    BY <1>0, <2>1
  <2>3. CASE Tell(<<Enabled(u, id)>>)
    BY <1>1, <1>2, <2>2, <2>3
  <2>4. CASE Tell(<<Enabled(u, id), Disabled(u, actual[u])>>)
    <3> DEFINE x == Enabled(u, id)
               y == Disabled(u, actual[u])
               events == <<x, y>>
    <3>1. x \in Updates /\ y \in Updates /\ y.kind = "disabled"
          /\ \A v \in Users : (TellsOf(x, v) <=> v = u) /\ (TellsOf(y, v) <=> v = u)
      BY <1>1, <2>1
    <3> HIDE DEF x, y
    <3>2. /\ events \in Seq(Updates) /\ Len(events) = 2 /\ events[1] = x /\ events[2] = y
      BY <3>1
    <3>3. Tell(events)
      BY <2>4 DEF x, y
    <3> HIDE DEF events
    <3>4. \A v \in Users :
             \/ actual'[v] = actual[v] /\ \A k \in 1 .. Len(events) : ~TellsOf(events[k], v)
             \/ LET last == events[Len(events)]
                IN  TellsOf(last, v) /\ (last.kind = "enabled" => last.conn = <<v, actual'[v]>>)
      BY <2>2, <3>1, <3>2
    <3>5. QED
      BY <3>2, <3>3, <3>4, TellAsIs
  <2>5. QED
    BY <2>1, <2>3, <2>4
<1>6. ASSUME NEW v \in Users, Write(u, v) PROVE AsIs'
  <2>1. PICK w \in {u, v} : /\ actual[w] # None
                            /\ Tell(<<[kind |-> "message", conn |-> <<w, actual[w]>>, from |-> u]>>)
    BY <1>6 DEF Write
  <2> DEFINE x == [kind |-> "message", conn |-> <<w, actual[w]>>, from |-> u]
  <2>2. x \in Updates /\ \A z \in Users : ~TellsOf(x, z)
    BY <1>0, <1>6, <2>1 DEF Updates, Conns, TellsOf
  <2>3. actual' = actual
    BY <1>6 DEF Write
  <2> HIDE DEF x
  <2>4. Tell(<<x>>)
    BY <2>1 DEF x
  <2>5. QED
    BY <1>2, <2>2, <2>3, <2>4
<1>7. CASE Command
  <2>1. PICK k \in {"agree", "unpeer"}, p \in Pairs : Tell(<<[kind |-> k, pair |-> p]>>)
    BY <1>7 DEF Command
  <2> DEFINE x == [kind |-> k, pair |-> p]
  <2>2. x \in Updates /\ \A z \in Users : ~TellsOf(x, z)
    BY DEF Updates, TellsOf
  <2>3. actual' = actual
    BY <1>7 DEF Command
  <2> HIDE DEF x
  <2>4. Tell(<<x>>)
    BY <2>1 DEF x
  <2>5. QED
    BY <1>2, <2>2, <2>3, <2>4
<1>8. QED
  BY <1>3, <1>4, <1>5, <1>6, <1>7

LEMMA NextCurrentInv == CurrentInv /\ [Next]_vars => CurrentInv'
<1> SUFFICES ASSUME CurrentInv, [Next]_vars PROVE CurrentInv'
  OBVIOUS
<1>1. DeliveryInv /\ DeliveryInv' /\ AsTold(mem) /\ AsTold(disk) /\ AsIs
  BY NextDeliveryInv DEF CurrentInv
<1>2. /\ log \in Seq(Updates) /\ Len(log) \in Nat /\ Sound(mem) /\ Sound(disk)
      /\ mem.offset \in Nat /\ mem.offset <= Len(log)
      /\ disk.offset \in Nat /\ disk.offset <= Len(log)
  BY <1>1, LenProperties DEF DeliveryInv, Offsets
\* Tables that are as told stay so.
<1>3. ASSUME LogGrows, mem' \in {mem, disk}, disk' \in {mem, disk}
      PROVE  AsTold(mem)' /\ AsTold(disk)'
  <2>1. PICK a \in {mem, disk}, b \in {mem, disk} : mem' = a /\ disk' = b
    BY <1>3
  <2>2. AsTold(a)' /\ AsTold(b)'
    BY <1>1, <1>2, <1>3, AsToldStands
  <2>3. QED
    BY <2>1, <2>2 DEF AsTold
<1>4. CASE \/ \E u \in Users, id \in Ids : Attach(u, id) \/ Rotate(u, id)
           \/ \E u \in Users : Detach(u) \/ \E v \in Users : Write(u, v)
           \/ Command
  <2>1. LogGrows /\ UNCHANGED process /\ AsIs'
    <3>1. CASE Command
      <4>1. \E u \in Users : TRUE
        BY <3>1 DEF Command, Pairs
      <4>2. QED
        BY <1>1, <3>1, <4>1, TelegramKeepsInv, TelegramAsIs, DeliveryAssumption
    <3>2. CASE ~Command
      BY <1>1, <1>4, <3>2, TelegramKeepsInv, TelegramAsIs, DeliveryAssumption
    <3>3. QED
      BY <3>1, <3>2
  <2>2. QED
    BY <1>1, <1>3, <2>1 DEF process, CurrentInv
<1>5. ASSUME log' = log, actual' = actual PROVE AsIs' /\ LogGrows
  BY <1>1, <1>2, <1>5 DEF AsIs, About, Last, LogGrows
<1>6. CASE HandleUpdate
  <2>1. /\ mem.offset < Len(log) /\ log' = log /\ actual' = actual
        /\ mem' = [Handled(mem, log[mem.offset + 1]) EXCEPT !.offset = mem.offset + 1]
        /\ disk' \in {disk, mem'}
    BY <1>6 DEF HandleUpdate, OffsetAt, telegram
  <2>2. PICK t : t = mem'
    OBVIOUS
  <2>3. AsTold(t)
    BY <1>1, <1>2, <2>1, <2>2, HandledAsTold
  <2>4. PICK d \in {disk, t} : d = disk'
    BY <2>1, <2>2
  <2>5. AsTold(d)
    BY <1>1, <2>3, <2>4
  <2>6. AsTold(mem)' /\ AsTold(disk)'
    BY <2>1, <2>2, <2>3, <2>4, <2>5 DEF AsTold, About, Last
  <2>7. QED
    BY <1>1, <1>5, <2>1, <2>6 DEF CurrentInv
<1>7. CASE GreetingEnds \/ SaveState \/ Restart \/ UNCHANGED vars
  <2>1. log' = log /\ actual' = actual /\ mem' \in {mem, disk} /\ disk' \in {mem, disk}
    BY <1>7 DEF GreetingEnds, SaveState, Restart, vars, telegram
  <2>2. QED
    BY <1>1, <1>3, <1>5, <2>1 DEF CurrentInv
<1>8. ASSUME NEW u \in Users, NEW v \in Users, Send(u, v) PROVE CurrentInv'
  BY <1>1, <1>3, <1>5, <1>8 DEF Send, telegram, process, CurrentInv
<1>9. ASSUME NEW s \in sends, Posts(s) \/ Answered(s) \/ Refused(s) PROVE CurrentInv'
  BY <1>1, <1>3, <1>5, <1>9 DEF Posts, Answered, Refused, telegram, process, CurrentInv
<1>10. QED
  BY <1>4, <1>6, <1>7, <1>8, <1>9 DEF Next

\* bot.py:697-740: when the relay has handled every update, a user's connection
\* is the present one, or none if the last that was told of it is an end.
THEOREM ConnectionsStayCurrent == Spec => []ConnectionsCurrent
<1>1. Init => CurrentInv
  <2> SUFFICES ASSUME Init PROVE CurrentInv
    OBVIOUS
  <2>1. Len(log) = 0 /\ mem = Settled /\ disk = Settled /\ Settled.offset = 0
    BY EmptySeq DEF Init, Settled
  <2>2. \A u \in Users : About(u, 0) = {} /\ \A i \in Nat : ~Last(i, u, 0)
    BY DEF About, Last
  <2>3. AsTold(mem) /\ AsTold(disk)
    BY <2>1, <2>2 DEF AsTold, Settled
  <2>4. AsIs
    BY <2>1, <2>2 DEF AsIs, Init
  <2>5. QED
    BY <2>3, <2>4, InitDeliveryInv DEF CurrentInv
<1>2. CurrentInv => ConnectionsCurrent
  <2> SUFFICES ASSUME CurrentInv, mem.offset = Len(log), NEW u \in Users
               PROVE  LET about == About(u, Len(log))
                          ended == \E i \in about : /\ log[i].kind = "disabled"
                                                    /\ \A j \in about : j <= i
                      IN  mem.conn[u] = IF ended THEN None ELSE <<u, actual[u]>>
    BY DEF ConnectionsCurrent
  <2>1. Len(log) \in Nat /\ AsTold(mem) /\ AsIs
    BY LenProperties DEF CurrentInv, DeliveryInv
  <2>2. CASE About(u, Len(log)) = {}
    BY <2>1, <2>2 DEF AsTold, AsIs
  <2>3. CASE About(u, Len(log)) # {}
    <3>1. PICK i \in Nat : Last(i, u, Len(log))
      BY <2>1, <2>3, LastExists
    <3>2. mem.conn[u] = Told(log[i])
      BY <2>1, <3>1 DEF AsTold
    <3>3. /\ i \in About(u, Len(log)) /\ \A j \in About(u, Len(log)) : j <= i /\ j \in Nat
          /\ log[i].kind \in {"enabled", "disabled"}
      BY <3>1 DEF Last, About
    <3>4. log[i].kind = "enabled" => log[i].conn = <<u, actual[u]>>
      BY <2>1, <3>1 DEF AsIs
    <3>5. \A j \in About(u, Len(log)) : i <= j => j = i
      BY <3>3
    <3>6. QED
      BY <3>2, <3>3, <3>4, <3>5 DEF Told
  <2>4. QED
    BY <2>2, <2>3
<1>3. QED
  BY <1>1, <1>2, NextCurrentInv, PTL DEF Spec

================================================================================
