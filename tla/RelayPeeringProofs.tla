-------------------------- MODULE RelayPeeringProofs --------------------------
(***************************************************************************)
(* Peers, for any number of users, requests, updates, batches and          *)
(* restarts.                                                               *)
(*                                                                         *)
(* That two tables agree needs no type invariant beyond the presence of    *)
(* the field: a handler writes both sides of a pair or neither, and every  *)
(* save and every start copies the whole table.  Types hold together with  *)
(* the names of requests.  That peers accepted each other needs a reason   *)
(* in the log for every pair and every acceptance a table holds; that an   *)
(* agreement lasts needs what becomes of a request between the two         *)
(* acceptances, with one that waits for its name standing for the request. *)
(***************************************************************************)
EXTENDS RelayPeering, TLAPS

HasPeers(m) == "peers" \in DOMAIN m

Symmetric(m) == \A u, v \in Users : IsPeer(m, u, v) <=> IsPeer(m, v, u)

PeersInv == /\ HasPeers(mem) /\ HasPeers(disk)
            /\ Symmetric(mem) /\ Symmetric(disk)

\* A handler keeps a symmetric table symmetric, whatever the update.
LEMMA HandledSymmetric ==
    ASSUME NEW m, HasPeers(m), Symmetric(m), NEW x, NEW n
    PROVE  HasPeers(Handled(m, x, n)) /\ Symmetric(Handled(m, x, n))
<1> DEFINE u == x.user
           v == x.peer
           k == PairKey(u, v)
<1>1. ASSUME NEW t, DOMAIN t = DOMAIN m, t.peers = m.peers
      PROVE  HasPeers(t) /\ Symmetric(t)
  BY <1>1 DEF HasPeers, Symmetric, IsPeer
<1>2. CASE x.kind = "pairnoise"
  <2>1. Handled(m, x, n) = Pairnoise(m, u, v, n)
    BY <1>2 DEF Handled
  <2>2. /\ DOMAIN Pairnoise(m, u, v, n) = DOMAIN m
        /\ Pairnoise(m, u, v, n).peers = m.peers
    BY DEF Pairnoise, HasPeers
  <2>3. QED
    BY <1>1, <2>1, <2>2
<1>3. CASE x.kind = "accept"
  <2>1. Handled(m, x, n) = Accept(m, u, v)
    BY <1>3 DEF Handled
  <2>2. CASE m.pending[k] # None /\ m.pending[k].accepted \cup {u} = k
    <3>1. /\ DOMAIN Accept(m, u, v) = DOMAIN m
          /\ Accept(m, u, v).peers = m.peers \cup {<<u, v>>, <<v, u>>}
      BY <2>2 DEF Accept, HasPeers
    <3>2. QED
      BY <2>1, <3>1 DEF HasPeers, Symmetric, IsPeer
  <2>3. CASE m.pending[k] = None \/ ~(m.pending[k].accepted \cup {u} = k)
    <3>1. DOMAIN Accept(m, u, v) = DOMAIN m /\ Accept(m, u, v).peers = m.peers
      BY <2>3 DEF Accept, HasPeers
    <3>2. QED
      BY <1>1, <2>1, <3>1
  <2>4. QED
    BY <2>2, <2>3
<1>4. CASE x.kind = "reject"
  <2>1. Handled(m, x, n) = Reject(m, u, v)
    BY <1>4 DEF Handled
  <2>2. DOMAIN Reject(m, u, v) = DOMAIN m /\ Reject(m, u, v).peers = m.peers
    BY DEF Reject, HasPeers
  <2>3. QED
    BY <1>1, <2>1, <2>2
<1>5. CASE x.kind = "unpeer"
  <2>1. Handled(m, x, n) = Unpeer(m, u, v)
    BY <1>5 DEF Handled
  <2>2. /\ DOMAIN Unpeer(m, u, v) = DOMAIN m
        /\ Unpeer(m, u, v).peers = m.peers \ {<<u, v>>, <<v, u>>}
    BY DEF Unpeer, HasPeers
  <2>3. QED
    BY <2>1, <2>2 DEF HasPeers, Symmetric, IsPeer
<1>6. CASE x.kind \notin Commands
  BY <1>6 DEF Handled, Commands
<1>7. QED
  BY <1>2, <1>3, <1>4, <1>5, <1>6 DEF Commands

LEMMA InitPeersInv == Init => PeersInv
BY DEF Init, PeersInv, HasPeers, Symmetric, IsPeer

\* Moving the offset, or forgetting requests, touches no peer.
LEMMA SamePeers ==
    ASSUME NEW m, NEW t, HasPeers(m), Symmetric(m),
           DOMAIN t = DOMAIN m, t.peers = m.peers
    PROVE  HasPeers(t) /\ Symmetric(t)
BY DEF HasPeers, Symmetric, IsPeer

LEMMA NextPeersInv == PeersInv /\ [Next]_vars => PeersInv'
<1> SUFFICES ASSUME PeersInv, [Next]_vars
             PROVE  PeersInv'
  OBVIOUS
<1>0. HasPeers(mem) /\ HasPeers(disk) /\ Symmetric(mem) /\ Symmetric(disk)
  BY DEF PeersInv
<1>1. ASSUME HasPeers(mem') /\ Symmetric(mem'), disk' = disk \/ disk' = mem'
      PROVE  PeersInv'
  BY <1>0, <1>1 DEF PeersInv, HasPeers, Symmetric, IsPeer
<1>2. CASE Send \/ GetUpdates \/ NamesFail \/ Expire \/ UNCHANGED vars
  BY <1>2, <1>0, <1>1 DEF Send, GetUpdates, NamesFail, Expire, vars
<1>3. CASE HandleUpdate
  <2> DEFINE h == Handled(mem, log[NextUpdate], NextUpdate)
  <2>1. HasPeers(h) /\ Symmetric(h)
    BY <1>0, HandledSymmetric
  <2>2. mem' = [h EXCEPT !.offset = NextUpdate] /\ (disk' = disk \/ disk' = mem')
    BY <1>3 DEF HandleUpdate
  <2> HIDE DEF h
  <2>3. DOMAIN mem' = DOMAIN h /\ mem'.peers = h.peers
    BY <2>1, <2>2 DEF HasPeers
  <2>4. QED
    BY <2>1, <2>2, <2>3, <1>1, SamePeers
<1>4. CASE AskNames
  <2>1. mem' = [mem EXCEPT !.offset = NextUpdate] /\ disk' = disk
    BY <1>4 DEF AskNames
  <2>2. DOMAIN mem' = DOMAIN mem /\ mem'.peers = mem.peers
    BY <2>1, <1>0 DEF HasPeers
  <2>3. QED
    BY <2>1, <2>2, <1>0, <1>1, SamePeers
<1>5. CASE NamesArrive
  BY <1>5, <1>0, <1>1, HandledSymmetric DEF NamesArrive
<1>6. CASE SaveState
  BY <1>6, <1>0, <1>1 DEF SaveState
<1>7. CASE PrunePending
  <2> DEFINE kept == [k \in Keys |-> IF IsExpired(mem, k) THEN None ELSE mem.pending[k]]
  <2>1. mem' = [mem EXCEPT !.pending = kept] /\ disk' = mem'
    BY <1>7 DEF PrunePending
  <2> HIDE DEF kept
  <2>2. DOMAIN mem' = DOMAIN mem /\ mem'.peers = mem.peers
    BY <2>1, <1>0 DEF HasPeers
  <2>3. QED
    BY <2>1, <2>2, <1>0, <1>1, SamePeers
<1>8. CASE Restart
  BY <1>8, <1>0, <1>1 DEF Restart
<1>9. QED
  BY <1>2, <1>3, <1>4, <1>5, <1>6, <1>7, <1>8 DEF Next

\* /send asks the sender's table and the inbox of the other side is filled on
\* the word of that one table: they always agree.
THEOREM PeersMutual == Spec => []PeersSymmetric
<1>1. PeersInv => PeersSymmetric
  BY DEF PeersInv, Symmetric, PeersSymmetric
<1>2. QED
  BY InitPeersInv, NextPeersInv, <1>1, PTL DEF Spec

(***************************************************************************)
(* Types                                                                   *)
(***************************************************************************)

\* A /pairnoise whose names are asked for is the last update the offset has
\* passed, and a file that knows of it was written since.
Naming == naming # 0 =>
    /\ log[naming].kind = "pairnoise"
    /\ disk.offset = naming => disk = mem

LEMMA KeyOfPair == \A u, v \in Users : u # v => PairKey(u, v) \in Keys
<1> SUFFICES ASSUME NEW u \in Users, NEW v \in Users, u # v
             PROVE  PairKey(u, v) \in Keys
  OBVIOUS
<1> DEFINE x == [kind |-> "accept", user |-> u, peer |-> v]
<1>1. x \in Updates
  BY DEF Updates, Commands
<1>2. PairKey(u, v) = PairKey(x.user, x.peer)
  OBVIOUS
<1>3. QED
  BY <1>1, <1>2 DEF Keys

LEMMA OffsetMoved ==
    ASSUME NEW m \in Tables, NEW n \in 0 .. MaxUpdates
    PROVE  /\ [m EXCEPT !.offset = n] \in Tables
           /\ [m EXCEPT !.offset = n].offset = n
           /\ [m EXCEPT !.offset = n].peers = m.peers
           /\ [m EXCEPT !.offset = n].pending = m.pending
BY DEF Tables

LEMMA PendingSet ==
    ASSUME NEW m \in Tables, NEW k \in Keys, NEW q \in Requests \cup {None}
    PROVE  /\ [m EXCEPT !.pending[k] = q] \in Tables
           /\ [m EXCEPT !.pending[k] = q].offset = m.offset
           /\ [m EXCEPT !.pending[k] = q].peers = m.peers
           /\ [m EXCEPT !.pending[k] = q].pending = [m.pending EXCEPT ![k] = q]
BY DEF Tables

LEMMA PeersSet ==
    ASSUME NEW m \in Tables, NEW q \in SUBSET (Users \X Users)
    PROVE  /\ [m EXCEPT !.peers = q] \in Tables
           /\ [m EXCEPT !.peers = q].offset = m.offset
           /\ [m EXCEPT !.peers = q].peers = q
           /\ [m EXCEPT !.peers = q].pending = m.pending
BY DEF Tables

LEMMA HandledTypes ==
    ASSUME NEW m \in Tables, NEW x \in Updates, NEW n \in 1 .. MaxUpdates
    PROVE  Handled(m, x, n) \in Tables /\ Handled(m, x, n).offset = m.offset
<1> DEFINE u == x.user
           v == x.peer
           k == PairKey(u, v)
<1>0. /\ u \in Users /\ v \in Users /\ k \in Keys /\ x.kind \in Commands
      /\ m.pending[k] # None => m.pending[k] \in Requests
  BY KeyOfPair DEF Updates, Tables
<1>1. <<u, v>> \in Users \X Users /\ <<v, u>> \in Users \X Users /\ m.peers \in SUBSET (Users \X Users)
  BY <1>0 DEF Tables
<1> HIDE DEF u, v, k
<1>3. CASE x.kind = "pairnoise"
  <2> DEFINE q == [accepted |-> {}, born |-> n]
  <2>1. q \in Requests \cup {None}
    BY DEF Requests
  <2>2. Handled(m, x, n) = m \/ Handled(m, x, n) = [m EXCEPT !.pending[k] = q]
    BY <1>3 DEF Handled, Pairnoise, u, v, k
  <2> HIDE DEF q
  <2>3. [m EXCEPT !.pending[k] = q] \in Tables /\ [m EXCEPT !.pending[k] = q].offset = m.offset
    BY <2>1, <1>0, PendingSet
  <2>4. QED
    BY <2>2, <2>3
<1>4. CASE x.kind = "accept"
  <2>1. Handled(m, x, n) = Accept(m, u, v) /\ k = PairKey(u, v)
    BY <1>4 DEF Handled, u, v, k
  <2>2. CASE m.pending[k] = None
    BY <2>1, <2>2 DEF Accept
  <2>3. CASE m.pending[k] # None /\ m.pending[k].accepted \cup {u} = k
    <3> DEFINE t == [m EXCEPT !.pending[k] = None]
               q == m.peers \cup {<<u, v>>, <<v, u>>}
    <3>1. t \in Tables /\ t.offset = m.offset
      BY <1>0, PendingSet
    <3>2. Accept(m, u, v) = [t EXCEPT !.peers = q]
      BY <2>3, <2>1 DEF Accept, Tables
    <3>3. q \in SUBSET (Users \X Users)
      BY <1>1
    <3> HIDE DEF t, q
    <3>4. QED
      BY <3>1, <3>2, <3>3, <2>1, PeersSet
  <2>4. CASE m.pending[k] # None /\ m.pending[k].accepted \cup {u} # k
    <3> DEFINE q == [m.pending[k] EXCEPT !.accepted = @ \cup {u}]
    <3>1. Accept(m, u, v) = [m EXCEPT !.pending[k] = q]
      BY <2>1, <2>4 DEF Accept
    <3>2. q \in Requests \cup {None}
      BY <2>4, <1>0 DEF Requests
    <3> HIDE DEF q
    <3>3. QED
      BY <3>1, <3>2, <2>1, <1>0, PendingSet
  <2>5. QED
    BY <2>2, <2>3, <2>4
<1>5. CASE x.kind = "reject"
  <2>1. Handled(m, x, n) = [m EXCEPT !.pending[k] = None]
    BY <1>5 DEF Handled, Reject, u, v, k
  <2>2. QED
    BY <2>1, <1>0, PendingSet
<1>6. CASE x.kind = "unpeer"
  <2> DEFINE q == m.peers \ {<<u, v>>, <<v, u>>}
  <2>1. q \in SUBSET (Users \X Users)
    BY <1>1
  <2>2. Handled(m, x, n) = [m EXCEPT !.peers = q]
    BY <1>6 DEF Handled, Unpeer, u, v
  <2> HIDE DEF q
  <2>3. QED
    BY <2>1, <2>2, PeersSet
<1>7. QED
  BY <1>0, <1>3, <1>4, <1>5, <1>6 DEF Commands

PeeringTypes == PeeringTypeOK /\ Naming

LEMMA InitPeeringTypes == Init => PeeringTypes
BY PeeringAssumption DEF Init, PeeringTypes, PeeringTypeOK, Naming, Tables

LEMMA NextPeeringTypes == PeeringTypes /\ [Next]_vars => PeeringTypes'
<1> SUFFICES ASSUME PeeringTypes, [Next]_vars
             PROVE  PeeringTypes'
  OBVIOUS
<1>0. /\ log \in Seq(Updates) /\ Len(log) \in Nat /\ Len(log) <= MaxUpdates
      /\ mem \in Tables /\ disk \in Tables /\ expired \subseteq 1 .. MaxUpdates
      /\ mem.offset \in Nat /\ disk.offset \in Nat
      /\ confirmed \in 0 .. disk.offset /\ disk.offset <= mem.offset
      /\ batch \in mem.offset .. Len(log)
      /\ naming \in {0, mem.offset} /\ lost \subseteq 1 .. MaxUpdates
      /\ MaxUpdates \in Nat
  BY PeeringAssumption DEF PeeringTypes, PeeringTypeOK, Tables
<1>00. Naming
  BY DEF PeeringTypes
<1>1. CASE Send
  <2>1. PICK x \in Updates : log' = Append(log, x)
    BY <1>1 DEF Send
  <2>2. /\ log' \in Seq(Updates) /\ Len(log') = Len(log) + 1
        /\ \A i \in 1 .. Len(log) : log'[i] = log[i]
    BY <2>1, <1>0
  <2>3. PeeringTypeOK'
    BY <1>1, <1>0, <2>2 DEF Send, PeeringTypeOK
  <2>4. Naming'
    BY <1>1, <1>0, <1>00, <2>2 DEF Send, Naming
  <2>5. QED
    BY <2>3, <2>4 DEF PeeringTypes
<1>2. CASE GetUpdates
  BY <1>2, <1>0, <1>00 DEF GetUpdates, BatchDone, NextUpdate, MaxOf, PeeringTypes, PeeringTypeOK, Naming
<1>3. CASE HandleUpdate
  <2> DEFINE n == NextUpdate
             h == Handled(mem, log[n], n)
  <2>1. /\ naming = 0 /\ n <= batch /\ mem' = [h EXCEPT !.offset = n]
        /\ disk' = disk \/ disk' = mem'
        /\ UNCHANGED <<log, confirmed, batch, naming, lost, expired>>
    BY <1>3 DEF HandleUpdate
  <2>2. n = mem.offset + 1 /\ n \in 1 .. Len(log)
    BY <2>1, <1>0 DEF NextUpdate, MaxOf
  <2> HIDE DEF n
  <2>3. log[n] \in Updates /\ n \in 1 .. MaxUpdates /\ n \in 0 .. MaxUpdates
    BY <2>2, <1>0
  <2>h. h \in Tables
    BY <2>3, <1>0, HandledTypes
  <2> HIDE DEF h
  <2>4. mem' \in Tables /\ mem'.offset = n
    BY <2>1, <2>3, <2>h, OffsetMoved
  <2>5. disk' \in Tables /\ confirmed' \in 0 .. disk'.offset /\ disk'.offset <= mem'.offset
    <3>1. CASE disk' = disk
      BY <2>1, <2>2, <2>4, <3>1, <1>0
    <3>2. CASE disk' = mem'
      BY <2>1, <2>2, <2>4, <3>2, <1>0
    <3>3. QED
      BY <2>1, <3>1, <3>2
  <2>6. QED
    BY <2>1, <2>2, <2>4, <2>5, <1>0 DEF PeeringTypes, PeeringTypeOK, Naming
<1>4. CASE AskNames
  <2> DEFINE n == NextUpdate
  <2>1. /\ naming = 0 /\ n <= batch /\ mem' = [mem EXCEPT !.offset = n]
        /\ log[n].kind = "pairnoise" /\ naming' = n
        /\ UNCHANGED <<log, confirmed, batch, lost, disk, expired>>
    BY <1>4 DEF AskNames
  <2>2. n = mem.offset + 1 /\ n \in 1 .. Len(log)
    BY <2>1, <1>0 DEF NextUpdate, MaxOf
  <2> HIDE DEF n
  <2>3. mem' \in Tables /\ mem'.offset = n
    <3>1. n \in 0 .. MaxUpdates
      BY <2>2, <1>0
    <3>2. QED
      BY <2>1, <3>1, <1>0, OffsetMoved
  <2>4. QED
    BY <2>1, <2>2, <2>3, <1>0 DEF PeeringTypes, PeeringTypeOK, Naming
<1>5. CASE NamesArrive
  <2> DEFINE h == Handled(mem, log[naming], naming)
  <2>1. /\ naming # 0 /\ mem' = h /\ naming' = 0 /\ (disk' = disk \/ disk' = h)
        /\ UNCHANGED <<log, confirmed, batch, lost, expired>>
    BY <1>5 DEF NamesArrive
  <2>2. log[naming] \in Updates /\ naming \in 1 .. MaxUpdates
    BY <2>1, <1>0
  <2>3. h \in Tables /\ h.offset = mem.offset
    BY <2>2, <1>0, HandledTypes
  <2> HIDE DEF h
  <2>4. QED
    BY <2>1, <2>3, <1>0 DEF PeeringTypes, PeeringTypeOK, Naming
<1>6. CASE NamesFail
  BY <1>6, <1>0 DEF NamesFail, PeeringTypes, PeeringTypeOK, Naming
<1>7. CASE SaveState
  BY <1>7, <1>0, <1>00 DEF SaveState, PeeringTypes, PeeringTypeOK, Naming
<1>8. CASE Expire
  <2>1. PICK k \in Keys, m \in {mem, disk} :
            m.pending[k] # None /\ expired' = expired \cup {m.pending[k].born}
    BY <1>8 DEF Expire
  <2>2. m.pending[k] \in Requests
    BY <2>1, <1>0 DEF Tables
  <2>3. expired' \subseteq 1 .. MaxUpdates
    BY <2>1, <2>2, <1>0 DEF Requests
  <2>4. QED
    BY <1>8, <2>3, <1>0, <1>00 DEF Expire, PeeringTypes, PeeringTypeOK, Naming
<1>9. CASE PrunePending
  <2> DEFINE kept == [k \in Keys |-> IF IsExpired(mem, k) THEN None ELSE mem.pending[k]]
  <2>1. /\ naming = 0 /\ mem' = [mem EXCEPT !.pending = kept] /\ disk' = mem'
        /\ UNCHANGED <<log, confirmed, batch, naming, lost, expired>>
    BY <1>9 DEF PrunePending, BatchDone
  <2>2. kept \in [Keys -> Requests \cup {None}]
    BY <1>0 DEF Tables
  <2> HIDE DEF kept
  <2>3. mem' \in Tables /\ mem'.offset = mem.offset
    BY <2>1, <2>2, <1>0 DEF Tables
  <2>4. QED
    BY <2>1, <2>3, <1>0 DEF PeeringTypes, PeeringTypeOK, Naming
<1>10. CASE Restart
  BY <1>10, <1>0 DEF Restart, MaxOf, PeeringTypes, PeeringTypeOK, Naming
<1>11. CASE UNCHANGED vars
  BY <1>11, <1>0, <1>00 DEF vars, PeeringTypes, PeeringTypeOK, Naming
<1>12. QED
  BY <1>1, <1>2, <1>3, <1>4, <1>5, <1>6, <1>7, <1>8, <1>9, <1>10, <1>11 DEF Next

\* The offset in the file lies between what Telegram dropped and what the
\* process handled, so that no update is dropped by both.
THEOREM PeeringTypeCorrect == Spec => []PeeringTypeOK
<1>1. PeeringTypes => PeeringTypeOK
  BY DEF PeeringTypes
<1>2. QED
  BY InitPeeringTypes, NextPeeringTypes, <1>1, PTL DEF Spec

(***************************************************************************)
(* Peers are those who agreed                                              *)
(***************************************************************************)

\* What makes u and v peers in a table that has handled d updates.
PeerFor(u, v, d) ==
    \E p, i, j \in 1 .. d :
        /\ BothAccepted(p, i, j, u, v)
        /\ \A r \in MaxOf(i, j) .. d : ~Between(r, "unpeer", u, v)

\* What an open request q between u and v says of those updates.
OpenFor(q, u, v, d) ==
    /\ q.born \in 1 .. d
    /\ Between(q.born, "pairnoise", u, v)
    /\ \A r \in q.born .. d : ~Between(r, "reject", u, v)
    /\ u \in q.accepted => \E i \in 1 .. d : q.born < i /\ Is(i, "accept", u, v)

Justified(m, d) ==
    \A u, v \in Users :
        /\ IsPeer(m, u, v) => PeerFor(u, v, d)
        /\ u # v /\ m.pending[PairKey(u, v)] # None =>
               OpenFor(m.pending[PairKey(u, v)], u, v, d)

\* What update n is, once its kind and users are known.
LEMMA WhichUpdate ==
    ASSUME NEW n, NEW x \in Updates, log[n] = x
    PROVE  \A kind, u, v :
               /\ Is(n, kind, u, v) <=> x.kind = kind /\ x.user = u /\ x.peer = v
               /\ Between(n, kind, u, v) <=> x.kind = kind /\ PairKey(u, v) = PairKey(x.user, x.peer)
<1>1. x = [kind |-> x.kind, user |-> x.user, peer |-> x.peer]
  BY DEF Updates
<1>2. \A kind, u, v : Is(n, kind, u, v) <=> x.kind = kind /\ x.user = u /\ x.peer = v
  BY <1>1 DEF Is
<1>3. \A u, v : PairKey(u, v) = PairKey(x.user, x.peer)
                 <=> (x.user = u /\ x.peer = v) \/ (x.user = v /\ x.peer = u)
  BY DEF PairKey
<1>4. QED
  BY <1>2, <1>3 DEF Between

LEMMA PeerLonger ==
    ASSUME NEW u, NEW v, NEW n \in Nat, PeerFor(u, v, n - 1), ~Between(n, "unpeer", u, v)
    PROVE  PeerFor(u, v, n)
<1>1. PICK p \in 1 .. n - 1, i \in 1 .. n - 1, j \in 1 .. n - 1 :
          /\ BothAccepted(p, i, j, u, v)
          /\ \A r \in MaxOf(i, j) .. n - 1 : ~Between(r, "unpeer", u, v)
  BY DEF PeerFor
<1>2. \A r \in MaxOf(i, j) .. n : r = n \/ r \in MaxOf(i, j) .. n - 1
  BY DEF MaxOf
<1>3. p \in 1 .. n /\ i \in 1 .. n /\ j \in 1 .. n
  OBVIOUS
<1>4. QED
  BY <1>1, <1>2, <1>3 DEF PeerFor

LEMMA OpenLonger ==
    ASSUME NEW q, NEW u, NEW v, NEW n \in Nat, OpenFor(q, u, v, n - 1), ~Between(n, "reject", u, v)
    PROVE  OpenFor(q, u, v, n)
<1>1. q.born \in 1 .. n - 1 /\ q.born \in 1 .. n
  BY DEF OpenFor
<1>2. \A r \in q.born .. n : r = n \/ r \in q.born .. n - 1
  BY <1>1
<1>3. \A i \in 1 .. n - 1 : i \in 1 .. n
  OBVIOUS
<1>4. QED
  BY <1>1, <1>2, <1>3 DEF OpenFor

\* A request that is still to be made changes no peer and no other request.
LEMMA PairnoiseLonger ==
    ASSUME NEW m, NEW n \in Nat, NEW x \in Updates, log[n] = x, x.kind = "pairnoise",
           Justified(m, n - 1)
    PROVE  Justified(m, n)
<1>1. \A u, v : ~Between(n, "unpeer", u, v) /\ ~Between(n, "reject", u, v)
  BY WhichUpdate
<1>2. QED
  BY <1>1, PeerLonger, OpenLonger DEF Justified

LEMMA PairnoiseJustified ==
    ASSUME NEW m \in Tables, NEW n \in 1 .. MaxUpdates, NEW x \in Updates,
           log[n] = x, x.kind = "pairnoise", Justified(m, n)
    PROVE  Justified(Handled(m, x, n), n)
<1> DEFINE t == Handled(m, x, n)
           k == PairKey(x.user, x.peer)
           q == [accepted |-> {}, born |-> n]
<1>1. t = m \/ t = [m EXCEPT !.pending[k] = q]
  BY DEF Handled, Pairnoise
<1>2. CASE t = m
  BY <1>2
<1>3. CASE t = [m EXCEPT !.pending[k] = q]
  <2>1. k \in Keys /\ q \in Requests \cup {None}
    BY KeyOfPair DEF Updates, Requests
  <2> HIDE DEF k, q
  <2>2. t.peers = m.peers /\ t.pending = [m.pending EXCEPT ![k] = q] /\ m.pending \in [Keys -> Requests \cup {None}]
    BY <1>3, <2>1, PendingSet DEF Tables
  <2> HIDE DEF t
  <2> SUFFICES ASSUME NEW u \in Users, NEW v \in Users
               PROVE  /\ IsPeer(t, u, v) => PeerFor(u, v, n)
                      /\ u # v /\ t.pending[PairKey(u, v)] # None =>
                             OpenFor(t.pending[PairKey(u, v)], u, v, n)
    BY DEF Justified, t
  <2>3. IsPeer(t, u, v) => PeerFor(u, v, n)
    BY <2>2 DEF IsPeer, Justified
  <2>4. ASSUME u # v, t.pending[PairKey(u, v)] # None
        PROVE  OpenFor(t.pending[PairKey(u, v)], u, v, n)
    <3>1. CASE PairKey(u, v) = k
      <4>1. t.pending[PairKey(u, v)] = q
        BY <2>1, <2>2, <3>1
      <4>2. Between(n, "pairnoise", u, v) /\ ~Between(n, "reject", u, v)
        BY <3>1, WhichUpdate DEF k
      <4>3. OpenFor(q, u, v, n)
        BY <4>2 DEF OpenFor, q
      <4>4. QED
        BY <4>1, <4>3
    <3>2. CASE PairKey(u, v) # k
      <4>1. t.pending[PairKey(u, v)] = m.pending[PairKey(u, v)]
        BY <2>2, <2>4, <3>2, KeyOfPair
      <4>2. QED
        BY <4>1, <2>4 DEF Justified
    <3>3. QED
      BY <3>1, <3>2
  <2>5. QED
    BY <2>3, <2>4
<1>4. QED
  BY <1>1, <1>2, <1>3

LEMMA AcceptJustified ==
    ASSUME NEW m \in Tables, NEW n \in 1 .. MaxUpdates, NEW x \in Updates,
           log[n] = x, x.kind = "accept", Justified(m, n - 1)
    PROVE  Justified(Handled(m, x, n), n)
<1> DEFINE t == Handled(m, x, n)
           a == x.user
           b == x.peer
           k == PairKey(a, b)
<1>0. /\ a \in Users /\ b \in Users /\ a # b /\ k \in Keys
      /\ m.pending \in [Keys -> Requests \cup {None}] /\ n \in Nat
  BY KeyOfPair, PeeringAssumption DEF Updates, Tables
<1>1. t = Accept(m, a, b)
  BY DEF Handled
<1>2. \A u, v : ~Between(n, "unpeer", u, v) /\ ~Between(n, "reject", u, v)
  BY WhichUpdate
<1>3. Is(n, "accept", a, b)
  BY WhichUpdate
<1>4. Justified(m, n)
  BY <1>0, <1>2, PeerLonger, OpenLonger DEF Justified
<1> HIDE DEF a, b
<1>5. CASE m.pending[k] = None
  BY <1>1, <1>4, <1>5 DEF Accept
<1>6. CASE m.pending[k] # None /\ m.pending[k].accepted \cup {a} = k
  <2> DEFINE q == m.pending[k]
  <2>1. t.peers = m.peers \cup {<<a, b>>, <<b, a>>} /\ t.pending = [m.pending EXCEPT ![k] = None]
    BY <1>1, <1>6 DEF Accept, Tables
  <2>2. OpenFor(q, b, a, n - 1) /\ OpenFor(q, b, a, n) /\ b \in q.accepted
    <3>1. PairKey(b, a) = k /\ b \in q.accepted
      BY <1>0, <1>6 DEF PairKey
    <3>2. QED
      BY <1>0, <1>4, <1>6, <3>1 DEF Justified
  <2> HIDE DEF q, t, k
  <2>3. PICK i \in 1 .. n - 1 : q.born < i /\ Is(i, "accept", b, a)
    BY <2>2 DEF OpenFor
  <2>4. /\ q.born \in 1 .. n - 1 /\ q.born < n /\ i < n
        /\ MaxOf(i, n) = n /\ MaxOf(n, i) = n /\ \A r \in n .. n : r = n
        /\ q.born \in 1 .. n /\ i \in 1 .. n /\ n \in 1 .. n
    BY <1>0, <2>2 DEF OpenFor, MaxOf
  <2>5. /\ Between(q.born, "pairnoise", a, b) /\ Between(q.born, "pairnoise", b, a)
        /\ \A r \in q.born .. n : ~Between(r, "reject", a, b) /\ ~Between(r, "reject", b, a)
    BY <2>2 DEF OpenFor, Between
  <2>6. BothAccepted(q.born, n, i, a, b) /\ BothAccepted(q.born, i, n, b, a)
    BY <1>3, <2>3, <2>4, <2>5 DEF BothAccepted
  <2>7. PeerFor(a, b, n) /\ PeerFor(b, a, n)
    BY <1>2, <2>4, <2>6 DEF PeerFor
  <2>8. ASSUME NEW u \in Users, NEW v \in Users, IsPeer(t, u, v)
        PROVE  PeerFor(u, v, n)
    <3>1. CASE <<u, v>> \in m.peers
      BY <1>4, <3>1 DEF Justified, IsPeer
    <3>2. CASE <<u, v>> \in {<<a, b>>, <<b, a>>}
      BY <2>7, <3>2
    <3>3. QED
      BY <2>1, <2>8, <3>1, <3>2 DEF IsPeer
  <2>9. ASSUME NEW u \in Users, NEW v \in Users, u # v, t.pending[PairKey(u, v)] # None
        PROVE  OpenFor(t.pending[PairKey(u, v)], u, v, n)
    <3>1. t.pending[PairKey(u, v)] = m.pending[PairKey(u, v)]
      BY <1>0, <2>1, <2>9, KeyOfPair
    <3>2. QED
      BY <1>4, <2>9, <3>1 DEF Justified
  <2>10. QED
    BY <2>8, <2>9 DEF Justified, t
<1>7. CASE m.pending[k] # None /\ m.pending[k].accepted \cup {a} # k
  <2> DEFINE q == m.pending[k]
             q2 == [q EXCEPT !.accepted = @ \cup {a}]
  <2>1. t.peers = m.peers /\ t.pending = [m.pending EXCEPT ![k] = q2]
    BY <1>1, <1>7 DEF Accept, Tables
  <2>2. q2.born = q.born /\ q2.accepted = q.accepted \cup {a}
    BY <1>0, <1>7 DEF Requests
  <2> HIDE DEF q, q2, t
  <2>3. ASSUME NEW u \in Users, NEW v \in Users, u # v, PairKey(u, v) = k
        PROVE  OpenFor(q2, u, v, n)
    <3>1. OpenFor(q, u, v, n - 1) /\ OpenFor(q, u, v, n)
      BY <1>0, <1>4, <1>7, <2>3 DEF Justified, q
    <3>2. q.born \in 1 .. n - 1 /\ q.born < n /\ n \in 1 .. n
      BY <1>0, <3>1 DEF OpenFor
    <3>3. (u = a /\ v = b) \/ (u = b /\ v = a)
      BY <2>3 DEF PairKey, k
    <3>4. CASE u = a /\ v = b
      BY <1>3, <2>2, <3>1, <3>2, <3>4 DEF OpenFor
    <3>5. CASE u = b /\ v = a
      BY <1>0, <2>2, <3>1, <3>5 DEF OpenFor
    <3>6. QED
      BY <3>3, <3>4, <3>5
  <2> HIDE DEF k
  <2>4. ASSUME NEW u \in Users, NEW v \in Users, u # v, t.pending[PairKey(u, v)] # None
        PROVE  OpenFor(t.pending[PairKey(u, v)], u, v, n)
    <3>1. CASE PairKey(u, v) = k
      BY <1>0, <2>1, <2>3, <2>4, <3>1
    <3>2. CASE PairKey(u, v) # k
      <4>1. t.pending[PairKey(u, v)] = m.pending[PairKey(u, v)]
        BY <2>1, <2>4, <3>2, KeyOfPair
      <4>2. QED
        BY <1>4, <2>4, <4>1 DEF Justified
    <3>3. QED
      BY <3>1, <3>2
  <2>5. \A u, v \in Users : IsPeer(t, u, v) => PeerFor(u, v, n)
    BY <1>4, <2>1 DEF Justified, IsPeer
  <2>6. QED
    BY <2>4, <2>5 DEF Justified, t
<1>8. QED
  BY <1>5, <1>6, <1>7

LEMMA RejectJustified ==
    ASSUME NEW m \in Tables, NEW n \in 1 .. MaxUpdates, NEW x \in Updates,
           log[n] = x, x.kind = "reject", Justified(m, n - 1)
    PROVE  Justified(Handled(m, x, n), n)
<1> DEFINE t == Handled(m, x, n)
           k == PairKey(x.user, x.peer)
<1>0. k \in Keys /\ m.pending \in [Keys -> Requests \cup {None}] /\ n \in Nat
  BY KeyOfPair, PeeringAssumption DEF Updates, Tables
<1>1. t.peers = m.peers /\ t.pending = [m.pending EXCEPT ![k] = None]
  BY DEF Handled, Reject, Tables
<1>2. \A u, v : /\ ~Between(n, "unpeer", u, v)
                /\ Between(n, "reject", u, v) => PairKey(u, v) = k
  BY WhichUpdate
<1> HIDE DEF t, k
<1>3. ASSUME NEW u \in Users, NEW v \in Users, u # v, t.pending[PairKey(u, v)] # None
      PROVE  OpenFor(t.pending[PairKey(u, v)], u, v, n)
  <2>1. PairKey(u, v) # k /\ t.pending[PairKey(u, v)] = m.pending[PairKey(u, v)]
    BY <1>0, <1>1, <1>3, KeyOfPair
  <2>2. OpenFor(m.pending[PairKey(u, v)], u, v, n - 1)
    BY <1>3, <2>1 DEF Justified
  <2>3. ~Between(n, "reject", u, v)
    BY <1>2, <2>1
  <2>4. OpenFor(m.pending[PairKey(u, v)], u, v, n)
    BY <1>0, <2>2, <2>3, OpenLonger
  <2>5. QED
    BY <2>1, <2>4
<1>4. ASSUME NEW u \in Users, NEW v \in Users, IsPeer(t, u, v)
      PROVE  PeerFor(u, v, n)
  <2>1. PeerFor(u, v, n - 1)
    BY <1>1, <1>4 DEF Justified, IsPeer
  <2>2. ~Between(n, "unpeer", u, v)
    BY <1>2
  <2>3. QED
    BY <1>0, <2>1, <2>2, PeerLonger
<1>5. QED
  BY <1>3, <1>4 DEF Justified, t

LEMMA UnpeerJustified ==
    ASSUME NEW m \in Tables, NEW n \in 1 .. MaxUpdates, NEW x \in Updates,
           log[n] = x, x.kind = "unpeer", Justified(m, n - 1)
    PROVE  Justified(Handled(m, x, n), n)
<1> DEFINE t == Handled(m, x, n)
<1>0. n \in Nat
  BY PeeringAssumption
<1>1. t.peers = m.peers \ {<<x.user, x.peer>>, <<x.peer, x.user>>} /\ t.pending = m.pending
  BY DEF Handled, Unpeer, Tables
<1>2. \A u, v : /\ ~Between(n, "reject", u, v)
                /\ Between(n, "unpeer", u, v) => <<u, v>> \in {<<x.user, x.peer>>, <<x.peer, x.user>>}
  BY WhichUpdate DEF Between
<1> HIDE DEF t
<1>3. ASSUME NEW u \in Users, NEW v \in Users, IsPeer(t, u, v)
      PROVE  PeerFor(u, v, n)
  <2>0. <<u, v>> \in m.peers /\ <<u, v>> \notin {<<x.user, x.peer>>, <<x.peer, x.user>>}
    BY <1>1, <1>3 DEF IsPeer
  <2>1. ~Between(n, "unpeer", u, v) /\ IsPeer(m, u, v)
    BY <1>2, <2>0 DEF IsPeer
  <2>2. PeerFor(u, v, n - 1)
    BY <2>1 DEF Justified
  <2>3. QED
    BY <1>0, <2>1, <2>2, PeerLonger
<1>4. ASSUME NEW u \in Users, NEW v \in Users, u # v, t.pending[PairKey(u, v)] # None
      PROVE  OpenFor(t.pending[PairKey(u, v)], u, v, n)
  <2>1. OpenFor(m.pending[PairKey(u, v)], u, v, n - 1)
    BY <1>1, <1>4 DEF Justified
  <2>2. ~Between(n, "reject", u, v)
    BY <1>2
  <2>3. QED
    BY <1>0, <1>1, <2>1, <2>2, OpenLonger
<1>5. QED
  BY <1>3, <1>4 DEF Justified, t

\* Every handler, on the update it is for.
LEMMA HandledJustified ==
    ASSUME NEW m \in Tables, NEW n \in 1 .. MaxUpdates, NEW x \in Updates,
           log[n] = x, Justified(m, n - 1)
    PROVE  Justified(Handled(m, x, n), n)
<1>1. CASE x.kind = "pairnoise"
  <2>1. n \in Nat
    BY PeeringAssumption
  <2>2. QED
    BY <1>1, <2>1, PairnoiseLonger, PairnoiseJustified
<1>2. x.kind \in Commands
  BY DEF Updates
<1>3. QED
  BY <1>1, <1>2, AcceptJustified, RejectJustified, UnpeerJustified DEF Commands

\* Only the peers and the open requests of a table matter, and fewer requests
\* need less.
LEMMA FewerJustified ==
    ASSUME NEW m, NEW t, NEW d, Justified(m, d), t.peers = m.peers,
           \A k \in Keys : t.pending[k] \in {None, m.pending[k]}
    PROVE  Justified(t, d)
<1>1. \A u, v \in Users : IsPeer(t, u, v) => PeerFor(u, v, d)
  BY DEF Justified, IsPeer
<1>2. ASSUME NEW u \in Users, NEW v \in Users, u # v, t.pending[PairKey(u, v)] # None
      PROVE  OpenFor(t.pending[PairKey(u, v)], u, v, d)
  <2>1. t.pending[PairKey(u, v)] = m.pending[PairKey(u, v)]
    BY <1>2, KeyOfPair
  <2>2. QED
    BY <1>2, <2>1 DEF Justified
<1>3. QED
  BY <1>1, <1>2 DEF Justified

\* A step justifies its tables as well in the log after it.
LEMMA LaterLog ==
    ASSUME NEW m, NEW d \in Nat, Justified(m, d),
           \A i \in 1 .. d : log'[i] = log[i]
    PROVE  Justified(m, d)'
<1>1. \A kind, u, v :
          \A i \in 1 .. d : /\ Is(i, kind, u, v)' <=> Is(i, kind, u, v)
                            /\ Between(i, kind, u, v)' <=> Between(i, kind, u, v)
  BY DEF Is, Between
<1>2. ASSUME NEW u \in Users, NEW v \in Users, PeerFor(u, v, d)
      PROVE  PeerFor(u, v, d)'
  <2>1. PICK p \in 1 .. d, i \in 1 .. d, j \in 1 .. d :
            /\ BothAccepted(p, i, j, u, v)
            /\ \A r \in MaxOf(i, j) .. d : ~Between(r, "unpeer", u, v)
    BY <1>2 DEF PeerFor
  <2>2. \A r : r \in p .. MaxOf(i, j) \/ r \in MaxOf(i, j) .. d => r \in 1 .. d
    BY DEF MaxOf
  <2>3. BothAccepted(p, i, j, u, v)'
    BY <1>1, <2>1, <2>2 DEF BothAccepted
  <2>4. QED
    BY <1>1, <2>1, <2>2, <2>3 DEF PeerFor
<1>3. ASSUME NEW q, NEW u \in Users, NEW v \in Users, OpenFor(q, u, v, d)
      PROVE  OpenFor(q, u, v, d)'
  <2>1. q.born \in 1 .. d /\ \A r \in q.born .. d : r \in 1 .. d
    BY <1>3 DEF OpenFor
  <2>2. QED
    BY <1>1, <1>3, <2>1 DEF OpenFor
<1>4. QED
  BY <1>2, <1>3 DEF Justified, IsPeer, PairKey

AgreedInv == Justified(mem, mem.offset) /\ Justified(disk, disk.offset)

LEMMA InitAgreedInv == Init => AgreedInv
BY KeyOfPair DEF Init, AgreedInv, Justified, IsPeer

LEMMA NextAgreedInv == PeeringTypes /\ AgreedInv /\ [Next]_vars => AgreedInv'
<1> SUFFICES ASSUME PeeringTypes, AgreedInv, [Next]_vars
             PROVE  AgreedInv'
  OBVIOUS
<1>0. /\ log \in Seq(Updates) /\ Len(log) \in Nat /\ Len(log) <= MaxUpdates
      /\ mem \in Tables /\ disk \in Tables /\ MaxUpdates \in Nat
      /\ mem.offset \in 0 .. Len(log) /\ disk.offset \in 0 .. mem.offset
      /\ batch \in mem.offset .. Len(log) /\ naming \in {0, mem.offset}
      /\ confirmed \in Int /\ confirmed <= mem.offset
      /\ naming # 0 => log[naming].kind = "pairnoise"
  BY PeeringAssumption DEF PeeringTypes, PeeringTypeOK, Naming, Tables
<1>00. Justified(mem, mem.offset) /\ Justified(disk, disk.offset)
  BY DEF AgreedInv
<1>1. ASSUME \A i \in 1 .. Len(log) : log'[i] = log[i],
             Justified(mem', mem'.offset), Justified(disk', disk'.offset),
             mem'.offset \in 0 .. Len(log), disk'.offset \in 0 .. Len(log)
      PROVE  AgreedInv'
  <2>1. \A d \in 0 .. Len(log) : d \in Nat /\ \A i \in 1 .. d : log'[i] = log[i]
    BY <1>0, <1>1
  <2>2. \A m : \A d \in 0 .. Len(log) : Justified(m, d) => Justified(m, d)'
    BY <2>1, LaterLog
  <2>3. QED
    BY <1>1, <2>2 DEF AgreedInv
<1>2. CASE Send
  <2>1. PICK x \in Updates : log' = Append(log, x)
    BY <1>2 DEF Send
  <2>2. \A i \in 1 .. Len(log) : log'[i] = log[i]
    BY <2>1, <1>0
  <2>3. QED
    BY <1>2, <2>2, <1>0, <1>00, <1>1 DEF Send
<1>3. CASE GetUpdates \/ NamesFail \/ Expire \/ UNCHANGED vars
  BY <1>3, <1>0, <1>00, <1>1 DEF GetUpdates, NamesFail, Expire, vars
<1>4. CASE HandleUpdate
  <2> DEFINE n == NextUpdate
             h == Handled(mem, log[n], n)
  <2>1. n <= batch /\ mem' = [h EXCEPT !.offset = n] /\ (disk' = disk \/ disk' = mem') /\ log' = log
    BY <1>4 DEF HandleUpdate
  <2>2. n = mem.offset + 1
    BY <1>0 DEF NextUpdate, MaxOf
  <2> HIDE DEF n
  <2>3. log[n] \in Updates /\ n \in 1 .. MaxUpdates /\ n \in 0 .. Len(log) /\ n - 1 = mem.offset
    BY <2>1, <2>2, <1>0
  <2>4. h \in Tables /\ Justified(h, n)
    BY <2>3, <1>0, <1>00, HandledTypes, HandledJustified
  <2> HIDE DEF h
  <2>5. mem'.peers = h.peers /\ mem'.pending = h.pending /\ mem'.offset = n
    BY <2>1, <2>3, <2>4, <1>0, OffsetMoved
  <2>6. Justified(mem', mem'.offset)
    BY <2>4, <2>5, FewerJustified
  <2>7. Justified(disk', disk'.offset) /\ disk'.offset \in 0 .. Len(log) /\ mem'.offset \in 0 .. Len(log)
    <3>1. CASE disk' = disk
      BY <3>1, <2>3, <2>5, <1>0, <1>00
    <3>2. CASE disk' = mem'
      BY <3>2, <2>3, <2>5, <2>6
    <3>3. QED
      BY <2>1, <3>1, <3>2
  <2>8. QED
    BY <2>1, <2>6, <2>7, <1>1
<1>5. CASE AskNames
  <2> DEFINE n == NextUpdate
  <2>1. /\ n <= batch /\ mem' = [mem EXCEPT !.offset = n]
        /\ disk' = disk /\ log' = log /\ log[n].kind = "pairnoise"
    BY <1>5 DEF AskNames
  <2>2. n = mem.offset + 1
    BY <1>0 DEF NextUpdate, MaxOf
  <2> HIDE DEF n
  <2>3. log[n] \in Updates /\ n \in 0 .. MaxUpdates /\ n \in 0 .. Len(log) /\ n \in Nat /\ n - 1 = mem.offset
    BY <2>1, <2>2, <1>0
  <2>4. Justified(mem, n)
    BY <2>1, <2>3, <1>00, PairnoiseLonger
  <2>5. mem'.peers = mem.peers /\ mem'.pending = mem.pending /\ mem'.offset = n
    BY <2>1, <2>3, <1>0, OffsetMoved
  <2>6. Justified(mem', mem'.offset)
    BY <2>4, <2>5, FewerJustified
  <2>7. QED
    BY <2>1, <2>3, <2>5, <2>6, <1>0, <1>00, <1>1
<1>6. CASE NamesArrive
  <2> DEFINE h == Handled(mem, log[naming], naming)
  <2>1. naming # 0 /\ mem' = h /\ (disk' = disk \/ disk' = h) /\ log' = log
    BY <1>6 DEF NamesArrive
  <2>2. /\ log[naming] \in Updates /\ naming \in 1 .. MaxUpdates
        /\ naming = mem.offset /\ log[naming].kind = "pairnoise"
    BY <2>1, <1>0
  <2>3. h \in Tables /\ h.offset = mem.offset /\ Justified(h, mem.offset)
    BY <2>2, <1>0, <1>00, HandledTypes, PairnoiseJustified
  <2> HIDE DEF h
  <2>4. QED
    BY <2>1, <2>3, <1>0, <1>00, <1>1
<1>7. CASE SaveState
  BY <1>7, <1>0, <1>00, <1>1 DEF SaveState
<1>8. CASE PrunePending
  <2> DEFINE kept == [k \in Keys |-> IF IsExpired(mem, k) THEN None ELSE mem.pending[k]]
  <2>1. mem' = [mem EXCEPT !.pending = kept] /\ disk' = mem' /\ log' = log
    BY <1>8 DEF PrunePending
  <2>2. \A k \in Keys : kept[k] \in {None, mem.pending[k]}
    OBVIOUS
  <2> HIDE DEF kept
  <2>3. mem'.peers = mem.peers /\ mem'.pending = kept /\ mem'.offset = mem.offset
    BY <2>1, <1>0 DEF Tables
  <2>4. Justified(mem', mem'.offset)
    BY <2>2, <2>3, <1>00, FewerJustified
  <2>5. QED
    BY <2>1, <2>3, <2>4, <1>0, <1>1
<1>9. CASE Restart
  BY <1>9, <1>0, <1>00, <1>1 DEF Restart
<1>10. QED
  BY <1>2, <1>3, <1>4, <1>5, <1>6, <1>7, <1>8, <1>9 DEF Next

\* While names are asked for, the last update the offset has passed is the
\* /pairnoise itself, which neither made nor ended a peering.
LEMMA AgreedNow == PeeringTypes /\ AgreedInv => PeersAgreed
<1> SUFFICES ASSUME PeeringTypes, AgreedInv, NEW u \in Users, NEW v \in Users, IsPeer(mem, u, v)
             PROVE  \E p, i, j \in 1 .. Done :
                        /\ BothAccepted(p, i, j, u, v)
                        /\ \A r \in MaxOf(i, j) .. Done : ~Between(r, "unpeer", u, v)
  BY DEF PeersAgreed
<1> DEFINE d == mem.offset
<1>1. /\ log \in Seq(Updates) /\ d \in 0 .. Len(log) /\ Len(log) \in Nat
      /\ naming \in {0, d} /\ confirmed \in Int /\ confirmed <= d
      /\ naming # 0 => log[naming].kind = "pairnoise"
  BY DEF PeeringTypes, PeeringTypeOK, Naming, Tables
<1>2. PICK p \in 1 .. d, i \in 1 .. d, j \in 1 .. d :
          /\ BothAccepted(p, i, j, u, v)
          /\ \A r \in MaxOf(i, j) .. d : ~Between(r, "unpeer", u, v)
  BY DEF AgreedInv, Justified, PeerFor
<1>3. Done = IF naming # 0 THEN d - 1 ELSE d
  BY <1>1 DEF Done, MaxOf
<1>4. p < i /\ p < j /\ log[i].kind = "accept" /\ log[j].kind = "accept"
  BY <1>2 DEF BothAccepted, Is
<1>5. i \in 1 .. Done /\ j \in 1 .. Done /\ p \in 1 .. Done
  BY <1>1, <1>3, <1>4
<1>6. \A r \in MaxOf(i, j) .. Done : r \in MaxOf(i, j) .. d
  BY <1>1, <1>3 DEF MaxOf
<1>7. QED
  BY <1>2, <1>5, <1>6

\* Whatever was repeated, half saved or restored from the file: peers are users
\* who both accepted one request, and neither of whom has left since.
THEOREM PeersAreAgreed == Spec => []PeersAgreed
BY InitPeeringTypes, NextPeeringTypes, InitAgreedInv, NextAgreedInv, AgreedNow, PTL DEF Spec

(***************************************************************************)
(* Those who agreed are peers                                              *)
(***************************************************************************)

\* A request that is open has not been accepted by both.
Proper(m) ==
    \A k \in Keys : m.pending[k] # None =>
        m.pending[k].accepted \subseteq k /\ m.pending[k].accepted # k

\* Nobody rejected or left since update p.
Unopposed(p, u, v, d) ==
    \A r \in p .. d : ~Between(r, "reject", u, v) /\ ~Between(r, "unpeer", u, v)

\* A request that was handled, with nothing against it since, has made peers or
\* is open, with the acceptances there were.  Requests in gone may be missing.
Counts(m, p, u, v, d) ==
    \/ IsPeer(m, u, v)
    \/ /\ m.pending[PairKey(u, v)] # None
       /\ \A i \in p .. d : Is(i, "accept", u, v) => u \in m.pending[PairKey(u, v)].accepted

Kept(m, d, gone) ==
    \A u, v \in Users, p \in 1 .. d :
        u # v /\ p \notin gone /\ Between(p, "pairnoise", u, v) /\ Unopposed(p, u, v, d)
        => Counts(m, p, u, v, d)

LEMMA FewerGone ==
    ASSUME NEW m, NEW t, NEW d, NEW g, NEW h, Kept(m, d, g),
           t.peers = m.peers, t.pending = m.pending,
           \A p \in 1 .. d : p \in g => p \in h
    PROVE  Kept(t, d, h)
BY DEF Kept, Counts, IsPeer

\* Update n is for other users, or is no acceptance: what counted still does.
LEMMA KeptBy ==
    ASSUME NEW m, NEW t, NEW n \in Nat, NEW g, NEW x \in Updates, log[n] = x,
           x.kind # "pairnoise", Kept(m, n - 1, g),
           \A u, v \in Users :
               /\ u # v
               /\ PairKey(u, v) = PairKey(x.user, x.peer) => x.kind = "accept"
               => /\ IsPeer(m, u, v) => IsPeer(t, u, v)
                  /\ m.pending[PairKey(u, v)] # None =>
                        \/ IsPeer(t, u, v)
                        \/ /\ t.pending[PairKey(u, v)] # None
                           /\ m.pending[PairKey(u, v)].accepted \subseteq t.pending[PairKey(u, v)].accepted
                           /\ x.kind = "accept" /\ x.user = u /\ x.peer = v
                              => u \in t.pending[PairKey(u, v)].accepted
    PROVE  Kept(t, n, g)
<1> SUFFICES ASSUME NEW u \in Users, NEW v \in Users, NEW p \in 1 .. n, u # v, p \notin g,
                    Between(p, "pairnoise", u, v), Unopposed(p, u, v, n)
             PROVE  Counts(t, p, u, v, n)
  BY DEF Kept
<1> DEFINE k == PairKey(u, v)
<1>1. p # n
  BY WhichUpdate
<1>2. /\ p \in 1 .. n - 1 /\ n \in p .. n
      /\ \A r \in p .. n - 1 : r \in p .. n
      /\ \A r \in p .. n : r = n \/ r \in p .. n - 1
  BY <1>1
<1>3. Unopposed(p, u, v, n - 1) /\ ~Between(n, "reject", u, v) /\ ~Between(n, "unpeer", u, v)
  BY <1>2 DEF Unopposed
<1>4. Counts(m, p, u, v, n - 1)
  BY <1>2, <1>3 DEF Kept
<1>5. PairKey(u, v) = PairKey(x.user, x.peer) => x.kind = "accept"
  BY <1>3, WhichUpdate DEF Updates, Commands
<1>6. Is(n, "accept", u, v) => x.kind = "accept" /\ x.user = u /\ x.peer = v
  BY WhichUpdate
<1>7. CASE IsPeer(t, u, v)
  BY <1>7 DEF Counts
<1>8. CASE ~IsPeer(t, u, v)
  <2>1. /\ m.pending[k] # None
        /\ \A i \in p .. n - 1 : Is(i, "accept", u, v) => u \in m.pending[k].accepted
    BY <1>4, <1>5, <1>8 DEF Counts
  <2>2. /\ t.pending[k] # None /\ m.pending[k].accepted \subseteq t.pending[k].accepted
        /\ Is(n, "accept", u, v) => u \in t.pending[k].accepted
    BY <1>5, <1>6, <1>8, <2>1
  <2> HIDE DEF k
  <2>3. \A i \in p .. n : Is(i, "accept", u, v) => u \in t.pending[k].accepted
    BY <1>2, <2>1, <2>2
  <2>4. QED
    BY <2>2, <2>3 DEF Counts, k
<1>9. QED
  BY <1>7, <1>8

LEMMA PairnoiseKeptLonger ==
    ASSUME NEW m, NEW n \in Nat, NEW g, NEW x \in Updates, log[n] = x, x.kind = "pairnoise",
           Kept(m, n - 1, g)
    PROVE  Kept(m, n, g \cup {n})
<1> SUFFICES ASSUME NEW u \in Users, NEW v \in Users, NEW p \in 1 .. n, u # v, p \notin g, p # n,
                    Between(p, "pairnoise", u, v), Unopposed(p, u, v, n)
             PROVE  Counts(m, p, u, v, n)
  BY DEF Kept
<1>1. /\ p \in 1 .. n - 1
      /\ \A r \in p .. n - 1 : r \in p .. n
      /\ \A r \in p .. n : r = n \/ r \in p .. n - 1
  OBVIOUS
<1>2. ~Is(n, "accept", u, v)
  BY WhichUpdate
<1>3. Counts(m, p, u, v, n - 1)
  BY <1>1 DEF Kept, Unopposed
<1>4. QED
  BY <1>1, <1>2, <1>3 DEF Counts

LEMMA PairnoiseKept ==
    ASSUME NEW m \in Tables, NEW n \in 1 .. MaxUpdates, NEW g, NEW x \in Updates,
           log[n] = x, x.kind = "pairnoise", expired = {}, Symmetric(m),
           Kept(m, n, g \cup {n})
    PROVE  Kept(Handled(m, x, n), n, g)
<1> DEFINE t == Handled(m, x, n)
           a == x.user
           b == x.peer
           k == PairKey(a, b)
           q == [accepted |-> {}, born |-> n]
<1>0. a \in Users /\ b \in Users /\ k \in Keys /\ q \in Requests \cup {None} /\ n \in Nat
  BY KeyOfPair, PeeringAssumption DEF Updates, Requests
<1>1. \/ t = m /\ (IsPeer(m, a, b) \/ m.pending[k] # None)
      \/ t = [m EXCEPT !.pending[k] = q] /\ ~IsPeer(m, a, b) /\ m.pending[k] = None
  <2>1. ~IsExpired(m, k) /\ t = Pairnoise(m, a, b, n)
    BY DEF IsExpired, Handled
  <2> HIDE DEF t
  <2>2. CASE IsPeer(m, a, b) \/ m.pending[k] # None
    <3>1. t = m
      BY <2>1, <2>2 DEF Pairnoise, IsPeer
    <3>2. QED
      BY <2>2, <3>1
  <2>3. CASE ~IsPeer(m, a, b) /\ m.pending[k] = None
    BY <2>1, <2>3 DEF Pairnoise
  <2>4. QED
    BY <2>2, <2>3
<1>2. Requests \cap {None} = {} /\ q \in Requests
  BY PeeringAssumption DEF Requests
<1> HIDE DEF q, t
<1>3. t.peers = m.peers /\ \A c \in Keys : m.pending[c] # None => t.pending[c] = m.pending[c]
  <2>1. CASE t = m
    BY <2>1
  <2>2. CASE t = [m EXCEPT !.pending[k] = q] /\ m.pending[k] = None
    <3>1. t.peers = m.peers /\ t.pending = [m.pending EXCEPT ![k] = q] /\ m.pending \in [Keys -> Requests \cup {None}]
      BY <2>2, <1>0, PendingSet DEF Tables
    <3>2. QED
      BY <2>2, <3>1
  <2>3. QED
    BY <1>1, <2>1, <2>2
<1>4. IsPeer(t, a, b) \/ t.pending[k] # None
  <2>1. CASE t = m /\ (IsPeer(m, a, b) \/ m.pending[k] # None)
    BY <2>1
  <2>2. CASE t = [m EXCEPT !.pending[k] = q]
    <3>1. t.pending = [m.pending EXCEPT ![k] = q] /\ m.pending \in [Keys -> Requests \cup {None}]
      BY <2>2, <1>0, PendingSet DEF Tables
    <3>2. QED
      BY <3>1, <1>0, <1>2
  <2>3. QED
    BY <1>1, <2>1, <2>2
<1> SUFFICES ASSUME NEW u \in Users, NEW v \in Users, NEW p \in 1 .. n, u # v, p \notin g,
                    Between(p, "pairnoise", u, v), Unopposed(p, u, v, n)
             PROVE  Counts(t, p, u, v, n)
  BY DEF Kept, t
<1>5. CASE p = n
  <2>1. PairKey(u, v) = k /\ ((u = a /\ v = b) \/ (u = b /\ v = a))
    BY <1>5, WhichUpdate DEF Between
  <2>2. IsPeer(t, a, b) => IsPeer(t, u, v)
    BY <2>1, <1>3, <1>0 DEF Symmetric, IsPeer
  <2>3. ~Is(n, "accept", u, v) /\ \A i \in p .. n : i = n
    BY <1>5, <1>0, WhichUpdate
  <2> HIDE DEF k
  <2>4. QED
    BY <1>4, <2>1, <2>2, <2>3 DEF Counts
<1>6. CASE p # n
  <2>1. Counts(m, p, u, v, n)
    BY <1>6 DEF Kept
  <2>2. PairKey(u, v) \in Keys
    BY KeyOfPair
  <2>3. QED
    BY <2>1, <2>2, <1>3 DEF Counts, IsPeer
<1>7. QED
  BY <1>5, <1>6

\* The other three handlers change the tables of the two users of the update
\* only, and an acceptance takes nothing away.
LEMMA HandledKept ==
    ASSUME NEW m \in Tables, NEW n \in 1 .. MaxUpdates, NEW g, NEW x \in Updates,
           log[n] = x, x.kind # "pairnoise", Kept(m, n - 1, g), Symmetric(m)
    PROVE  Kept(Handled(m, x, n), n, g)
<1> DEFINE t == Handled(m, x, n)
           a == x.user
           b == x.peer
           k == PairKey(a, b)
<1>0. /\ a \in Users /\ b \in Users /\ k \in Keys /\ n \in Nat
      /\ m.pending \in [Keys -> Requests \cup {None}] /\ Requests \cap {None} = {}
  BY KeyOfPair, PeeringAssumption DEF Updates, Tables, Requests
<1>1. x.kind \in {"accept", "reject", "unpeer"}
  BY DEF Updates, Commands
<1> HIDE DEF t, k
<1>2. ASSUME NEW u \in Users, NEW v \in Users, u # v, PairKey(u, v) # k
      PROVE  /\ IsPeer(m, u, v) => IsPeer(t, u, v)
             /\ t.pending[PairKey(u, v)] = m.pending[PairKey(u, v)]
  <2>1. /\ PairKey(u, v) \in Keys
        /\ <<u, v>> # <<a, b>> /\ <<u, v>> # <<b, a>>
    BY <1>2, KeyOfPair DEF PairKey, k
  <2>2. CASE x.kind = "accept"
    BY <1>0, <1>2, <2>1, <2>2 DEF t, k, Handled, Accept, Tables, IsPeer
  <2>3. CASE x.kind = "reject"
    BY <1>0, <1>2, <2>1, <2>3 DEF t, k, Handled, Reject, Tables, IsPeer
  <2>4. CASE x.kind = "unpeer"
    BY <1>0, <1>2, <2>1, <2>4 DEF t, k, Handled, Unpeer, Tables, IsPeer
  <2>5. QED
    BY <1>1, <2>2, <2>3, <2>4
<1>3. ASSUME NEW u \in Users, NEW v \in Users, u # v, PairKey(u, v) = k, x.kind = "accept"
      PROVE  /\ IsPeer(m, u, v) => IsPeer(t, u, v)
             /\ m.pending[k] # None =>
                   \/ IsPeer(t, u, v)
                   \/ /\ t.pending[k] # None
                      /\ m.pending[k].accepted \subseteq t.pending[k].accepted
                      /\ a \in t.pending[k].accepted
  <2>1. t = Accept(m, a, b) /\ k = PairKey(a, b)
    BY <1>3 DEF t, Handled, k
  <2>2. (u = a /\ v = b) \/ (u = b /\ v = a)
    BY <1>3 DEF PairKey, k
  <2>3. CASE m.pending[k] = None
    BY <2>1, <2>3 DEF Accept
  <2>4. CASE m.pending[k] # None /\ m.pending[k].accepted \cup {a} = k
    <3>1. t.peers = m.peers \cup {<<a, b>>, <<b, a>>}
      BY <2>1, <2>4 DEF Accept, Tables
    <3>2. QED
      BY <2>2, <3>1 DEF IsPeer
  <2>5. CASE m.pending[k] # None /\ m.pending[k].accepted \cup {a} # k
    <3> DEFINE q == [m.pending[k] EXCEPT !.accepted = @ \cup {a}]
    <3>1. t.peers = m.peers /\ t.pending = [m.pending EXCEPT ![k] = q]
      BY <2>1, <2>5 DEF Accept, Tables
    <3>2. q \in Requests /\ q.accepted = m.pending[k].accepted \cup {a}
      BY <1>0, <2>5 DEF Requests
    <3> HIDE DEF q
    <3>3. t.pending[k] = q /\ q # None
      BY <1>0, <3>1, <3>2
    <3>4. QED
      BY <3>1, <3>2, <3>3 DEF IsPeer
  <2>6. QED
    BY <2>3, <2>4, <2>5
<1>4. \A u, v \in Users :
          /\ u # v
          /\ PairKey(u, v) = PairKey(x.user, x.peer) => x.kind = "accept"
          => /\ IsPeer(m, u, v) => IsPeer(t, u, v)
             /\ m.pending[PairKey(u, v)] # None =>
                   \/ IsPeer(t, u, v)
                   \/ /\ t.pending[PairKey(u, v)] # None
                      /\ m.pending[PairKey(u, v)].accepted \subseteq t.pending[PairKey(u, v)].accepted
                      /\ x.kind = "accept" /\ x.user = u /\ x.peer = v
                         => u \in t.pending[PairKey(u, v)].accepted
  <2> SUFFICES ASSUME NEW u \in Users, NEW v \in Users, u # v,
                      PairKey(u, v) = k => x.kind = "accept"
               PROVE  /\ IsPeer(m, u, v) => IsPeer(t, u, v)
                      /\ m.pending[PairKey(u, v)] # None =>
                            \/ IsPeer(t, u, v)
                            \/ /\ t.pending[PairKey(u, v)] # None
                               /\ m.pending[PairKey(u, v)].accepted \subseteq t.pending[PairKey(u, v)].accepted
                               /\ x.kind = "accept" /\ x.user = u /\ x.peer = v
                                  => u \in t.pending[PairKey(u, v)].accepted
    BY DEF k
  <2>1. CASE PairKey(u, v) = k
    BY <1>3, <2>1
  <2>2. CASE PairKey(u, v) # k
    <3>1. x.user = u /\ x.peer = v => PairKey(u, v) = k
      BY DEF k
    <3>2. QED
      BY <1>2, <2>2, <3>1
  <2>3. QED
    BY <2>1, <2>2
<1>5. QED
  BY <1>0, <1>4, KeptBy DEF t

LEMMA HandledProper ==
    ASSUME NEW m \in Tables, NEW n \in 1 .. MaxUpdates, NEW x \in Updates, Proper(m)
    PROVE  Proper(Handled(m, x, n))
<1> DEFINE t == Handled(m, x, n)
           a == x.user
           b == x.peer
           k == PairKey(a, b)
<1>0. /\ k \in Keys /\ a \in k
      /\ m.pending \in [Keys -> Requests \cup {None}]
  BY KeyOfPair DEF Updates, Tables, PairKey
<1> SUFFICES Proper(t)
  OBVIOUS
<1> HIDE DEF t, a, b, k
<1>1. ASSUME NEW q, t.pending = [m.pending EXCEPT ![k] = q],
             q # None => q.accepted \subseteq k /\ q.accepted # k
      PROVE  Proper(t)
  BY <1>0, <1>1 DEF Proper
<1>2. CASE t.pending = m.pending
  BY <1>2 DEF Proper
<1>3. CASE x.kind = "pairnoise"
  <2> DEFINE q == [accepted |-> {}, born |-> n]
  <2>1. t = m \/ t = [m EXCEPT !.pending[k] = q]
    BY <1>3 DEF t, a, b, k, Handled, Pairnoise
  <2>2. q.accepted = {} /\ {} # k
    BY <1>0
  <2> HIDE DEF q
  <2>3. CASE t = [m EXCEPT !.pending[k] = q]
    <3>1. t.pending = [m.pending EXCEPT ![k] = q]
      BY <2>3 DEF Tables
    <3>2. QED
      BY <1>1, <2>2, <3>1
  <2>4. QED
    BY <1>2, <2>1, <2>3
<1>4. CASE x.kind = "accept"
  <2>1. t = Accept(m, a, b) /\ k = PairKey(a, b)
    BY <1>4 DEF t, a, b, k, Handled
  <2>2. CASE m.pending[k] = None
    BY <1>2, <2>1, <2>2 DEF Accept
  <2>3. CASE m.pending[k] # None /\ m.pending[k].accepted \cup {a} = k
    <3>1. t.pending = [m.pending EXCEPT ![k] = None]
      BY <2>1, <2>3 DEF Accept, Tables
    <3>2. QED
      BY <1>1, <3>1
  <2>4. CASE m.pending[k] # None /\ m.pending[k].accepted \cup {a} # k
    <3> DEFINE q == [m.pending[k] EXCEPT !.accepted = @ \cup {a}]
    <3>1. t.pending = [m.pending EXCEPT ![k] = q]
      BY <2>1, <2>4 DEF Accept, Tables
    <3>2. q.accepted = m.pending[k].accepted \cup {a}
      BY <1>0, <2>4 DEF Requests
    <3> HIDE DEF q
    <3>3. q.accepted \subseteq k /\ q.accepted # k
      BY <1>0, <2>4, <3>2 DEF Proper
    <3>4. QED
      BY <1>1, <3>1, <3>3
  <2>5. QED
    BY <2>2, <2>3, <2>4
<1>5. CASE x.kind = "reject"
  <2>1. t.pending = [m.pending EXCEPT ![k] = None]
    BY <1>5 DEF t, a, b, k, Handled, Reject, Tables
  <2>2. QED
    BY <1>1, <2>1
<1>6. CASE x.kind = "unpeer"
  <2>1. t.pending = m.pending
    BY <1>6 DEF t, Handled, Unpeer, Tables
  <2>2. QED
    BY <1>2, <2>1
<1>7. QED
  BY <1>3, <1>4, <1>5, <1>6 DEF Updates, Commands, t

LEMMA LaterLogKept ==
    ASSUME NEW m, NEW d \in Nat, NEW g, Kept(m, d, g),
           \A i \in 1 .. d : log'[i] = log[i]
    PROVE  Kept(m, d, g)'
<1>1. \A kind, u, v :
          \A i \in 1 .. d : /\ Is(i, kind, u, v)' <=> Is(i, kind, u, v)
                            /\ Between(i, kind, u, v)' <=> Between(i, kind, u, v)
  BY DEF Is, Between
<1>2. \A u, v : \A p \in 1 .. d : Unopposed(p, u, v, d)' <=> Unopposed(p, u, v, d)
  BY <1>1 DEF Unopposed
<1>3. \A u, v : \A p \in 1 .. d : Counts(m, p, u, v, d)' <=> Counts(m, p, u, v, d)
  BY <1>1 DEF Counts, IsPeer, PairKey
<1>4. QED
  BY <1>1, <1>2, <1>3 DEF Kept

KeptInv ==
    /\ Proper(mem) /\ Proper(disk)
    /\ expired = {} => /\ Kept(mem, mem.offset, lost \cup {naming})
                       /\ Kept(disk, disk.offset, lost \cup {naming})

LEMMA InitKeptInv == Init => KeptInv
BY DEF Init, KeptInv, Proper, Kept

LEMMA NextKeptInv == PeeringTypes /\ PeersInv /\ KeptInv /\ [Next]_vars => KeptInv'
<1> SUFFICES ASSUME PeeringTypes, PeersInv, KeptInv, [Next]_vars
             PROVE  KeptInv'
  OBVIOUS
<1> DEFINE g == lost \cup {naming}
           h == lost' \cup {naming'}
<1>0. /\ log \in Seq(Updates) /\ Len(log) \in Nat /\ Len(log) <= MaxUpdates
      /\ mem \in Tables /\ disk \in Tables /\ MaxUpdates \in Nat
      /\ mem.offset \in 0 .. Len(log) /\ disk.offset \in 0 .. mem.offset
      /\ batch \in mem.offset .. Len(log) /\ naming \in {0, mem.offset}
      /\ confirmed \in Int /\ confirmed <= mem.offset
      /\ naming # 0 => log[naming].kind = "pairnoise"
      /\ naming # 0 /\ disk.offset = naming => disk = mem
  BY PeeringAssumption DEF PeeringTypes, PeeringTypeOK, Naming, Tables
<1>00. /\ Proper(mem) /\ Proper(disk) /\ Symmetric(mem)
       /\ expired = {} => Kept(mem, mem.offset, g) /\ Kept(disk, disk.offset, g)
  BY DEF KeptInv, PeersInv
<1>1. ASSUME \A i \in 1 .. Len(log) : log'[i] = log[i],
             Proper(mem') /\ Proper(disk'),
             expired' = {} => Kept(mem', mem'.offset, h) /\ Kept(disk', disk'.offset, h),
             mem'.offset \in 0 .. Len(log), disk'.offset \in 0 .. Len(log)
      PROVE  KeptInv'
  <2>1. \A d \in 0 .. Len(log) : d \in Nat /\ \A i \in 1 .. d : log'[i] = log[i]
    BY <1>0, <1>1
  <2>2. \A m, gone : \A d \in 0 .. Len(log) : Kept(m, d, gone) => Kept(m, d, gone)'
    BY <2>1, LaterLogKept
  <2>3. Proper(mem)' /\ Proper(disk)'
    BY <1>1 DEF Proper
  <2>4. QED
    BY <1>1, <2>2, <2>3 DEF KeptInv
<1>2. CASE Send
  <2>1. PICK x \in Updates : log' = Append(log, x)
    BY <1>2 DEF Send
  <2>2. \A i \in 1 .. Len(log) : log'[i] = log[i]
    BY <2>1, <1>0
  <2>3. QED
    BY <1>2, <2>2, <1>0, <1>00, <1>1 DEF Send
<1>3. CASE GetUpdates \/ UNCHANGED vars
  <2>1. log' = log /\ mem' = mem /\ disk' = disk /\ expired' = expired /\ h = g
    BY <1>3 DEF GetUpdates, vars
  <2> HIDE DEF g, h
  <2>2. QED
    BY <2>1, <1>0, <1>00, <1>1
<1>4. CASE HandleUpdate
  <2> DEFINE n == NextUpdate
             s == Handled(mem, log[n], n)
  <2>1. /\ n <= batch /\ mem' = [s EXCEPT !.offset = n] /\ (disk' = disk \/ disk' = mem')
        /\ log' = log /\ h = g /\ expired' = expired
    BY <1>4 DEF HandleUpdate
  <2>2. n = mem.offset + 1
    BY <1>0 DEF NextUpdate, MaxOf
  <2> HIDE DEF n, g, h
  <2>3. /\ log[n] \in Updates /\ n \in 1 .. MaxUpdates /\ n \in 0 .. Len(log) /\ n \in Nat
        /\ n - 1 = mem.offset
    BY <2>1, <2>2, <1>0
  <2>4. s \in Tables /\ Proper(s)
    BY <2>3, <1>0, <1>00, HandledTypes, HandledProper
  <2>5. expired = {} => Kept(s, n, g)
    <3>1. ASSUME expired = {}, log[n].kind = "pairnoise"
          PROVE  Kept(s, n, g)
      <4>1. Kept(mem, n, g \cup {n})
        BY <3>1, <2>3, <1>00, PairnoiseKeptLonger
      <4>2. QED
        BY <3>1, <4>1, <2>3, <1>0, <1>00, PairnoiseKept
    <3>2. ASSUME expired = {}, log[n].kind # "pairnoise"
          PROVE  Kept(s, n, g)
      BY <3>2, <2>3, <1>0, <1>00, HandledKept
    <3>3. QED
      BY <3>1, <3>2
  <2> HIDE DEF s
  <2>6. mem'.peers = s.peers /\ mem'.pending = s.pending /\ mem'.offset = n
    BY <2>1, <2>3, <2>4, <1>0, OffsetMoved
  <2>7. Proper(mem') /\ (expired = {} => Kept(mem', mem'.offset, g))
    <3>1. Proper(mem')
      BY <2>4, <2>6 DEF Proper
    <3>2. QED
      BY <2>5, <2>6, <3>1, FewerGone
  <2>8. /\ Proper(disk') /\ (expired = {} => Kept(disk', disk'.offset, g))
        /\ disk'.offset \in 0 .. Len(log) /\ mem'.offset \in 0 .. Len(log)
    <3>1. CASE disk' = disk
      BY <3>1, <2>3, <2>6, <1>0, <1>00
    <3>2. CASE disk' = mem'
      BY <3>2, <2>3, <2>6, <2>7
    <3>3. QED
      BY <2>1, <3>1, <3>2
  <2>9. QED
    BY <2>1, <2>7, <2>8, <1>1
<1>5. CASE AskNames
  <2> DEFINE n == NextUpdate
  <2>1. /\ n <= batch /\ mem' = [mem EXCEPT !.offset = n] /\ naming = 0
        /\ disk' = disk /\ log' = log /\ log[n].kind = "pairnoise"
        /\ h = lost \cup {n} /\ g = lost \cup {0} /\ expired' = expired
    BY <1>5 DEF AskNames
  <2>2. n = mem.offset + 1
    BY <1>0 DEF NextUpdate, MaxOf
  <2> HIDE DEF n, g, h
  <2>3. /\ log[n] \in Updates /\ n \in 0 .. MaxUpdates /\ n \in 0 .. Len(log) /\ n \in Nat
        /\ n - 1 = mem.offset
    BY <2>1, <2>2, <1>0
  <2>4. mem'.peers = mem.peers /\ mem'.pending = mem.pending /\ mem'.offset = n
    BY <2>1, <2>3, <1>0, OffsetMoved
  <2>5. \A d \in Nat : \A p \in 1 .. d : p \in g \cup {n} => p \in h
    BY <2>1
  <2>6. expired = {} => Kept(mem', mem'.offset, h)
    <3>1. expired = {} => Kept(mem, n, g \cup {n})
      BY <2>1, <2>3, <1>00, PairnoiseKeptLonger
    <3>2. QED
      BY <3>1, <2>3, <2>4, <2>5, FewerGone
  <2>7. expired = {} => Kept(disk', disk'.offset, h)
    <3>1. disk.offset \in Nat
      BY <1>0
    <3>2. QED
      BY <3>1, <1>00, <2>1, <2>5, FewerGone
  <2>8. Proper(mem')
    BY <1>00, <2>4 DEF Proper
  <2>9. QED
    BY <2>1, <2>3, <2>4, <2>6, <2>7, <2>8, <1>0, <1>00, <1>1
<1>6. CASE NamesArrive
  <2> DEFINE s == Handled(mem, log[naming], naming)
  <2>1. /\ naming # 0 /\ mem' = s /\ log' = log /\ expired' = expired
        /\ h = lost \cup {0} /\ g = lost \cup {naming}
        /\ (disk' = disk /\ mem' = mem) \/ disk' = s
    BY <1>6 DEF NamesArrive
  <2>2. /\ log[naming] \in Updates /\ naming \in 1 .. MaxUpdates
        /\ naming = mem.offset /\ log[naming].kind = "pairnoise"
    BY <2>1, <1>0
  <2> HIDE DEF g, h
  <2>3. s \in Tables /\ s.offset = mem.offset /\ Proper(s)
    BY <2>2, <1>0, <1>00, HandledTypes, HandledProper
  <2>4. expired = {} => Kept(s, mem.offset, lost)
    BY <2>1, <2>2, <1>0, <1>00, PairnoiseKept
  <2> HIDE DEF s
  <2>5. expired = {} => Kept(s, s.offset, h)
    BY <2>1, <2>3, <2>4, FewerGone
  <2>6. ASSUME disk' = disk, mem' = mem
        PROVE  expired = {} => Kept(disk', disk'.offset, h)
    <3>1. CASE disk.offset = naming
      BY <3>1, <2>1, <2>5, <2>6, <1>0
    <3>2. CASE disk.offset # naming
      <4>1. \A p \in 1 .. disk.offset : p \in g => p \in h
        BY <3>2, <2>1, <2>2, <1>0
      <4>2. QED
        BY <4>1, <2>6, <1>00, FewerGone
    <3>3. QED
      BY <3>1, <3>2
  <2>7. CASE disk' = disk /\ mem' = mem
    BY <2>7, <2>6, <2>1, <2>3, <2>5, <1>0, <1>00, <1>1
  <2>8. CASE disk' = s
    BY <2>8, <2>1, <2>3, <2>5, <1>0, <1>1
  <2>9. QED
    BY <2>1, <2>7, <2>8
<1>7. CASE NamesFail
  <2>1. /\ log' = log /\ mem' = mem /\ disk' = disk /\ expired' = expired
        /\ \A p : p \in g => p \in h
    BY <1>7 DEF NamesFail
  <2> HIDE DEF g, h
  <2>2. expired = {} => Kept(mem, mem.offset, h) /\ Kept(disk, disk.offset, h)
    BY <2>1, <1>00, FewerGone
  <2>3. QED
    BY <2>1, <2>2, <1>0, <1>00, <1>1
<1>8. CASE SaveState
  BY <1>8, <1>0, <1>00, <1>1 DEF SaveState
<1>9. CASE Expire
  BY <1>9, <1>0, <1>00, <1>1 DEF Expire
<1>10. CASE PrunePending
  <2> DEFINE kept == [k \in Keys |-> IF IsExpired(mem, k) THEN None ELSE mem.pending[k]]
  <2>1. /\ mem' = [mem EXCEPT !.pending = kept] /\ disk' = mem' /\ log' = log
        /\ expired' = expired /\ expired # {}
    BY <1>10 DEF PrunePending, IsExpired
  <2>2. \A k \in Keys : kept[k] \in {None, mem.pending[k]}
    OBVIOUS
  <2> HIDE DEF kept
  <2>3. mem'.pending = kept /\ mem'.offset = mem.offset
    BY <2>1, <1>0 DEF Tables
  <2>4. Proper(mem')
    BY <2>2, <2>3, <1>00 DEF Proper
  <2>5. QED
    BY <2>1, <2>3, <2>4, <1>0, <1>1
<1>11. CASE Restart
  <2>1. /\ log' = log /\ mem' = disk /\ disk' = disk /\ expired' = expired
        /\ \A p \in 1 .. disk.offset : p \in g => p \in h
    BY <1>11, <1>0 DEF Restart
  <2> HIDE DEF g, h
  <2>2. expired = {} => Kept(disk, disk.offset, h)
    BY <2>1, <1>00, FewerGone
  <2>3. QED
    BY <2>1, <2>2, <1>0, <1>00, <1>1
<1>12. QED
  BY <1>2, <1>3, <1>4, <1>5, <1>6, <1>7, <1>8, <1>9, <1>10, <1>11 DEF Next

LEMMA KeptNow == PeeringTypes /\ PeersInv /\ KeptInv => AgreementKept
<1> SUFFICES ASSUME PeeringTypes, PeersInv, KeptInv, expired = {},
                    NEW u \in Users, NEW v \in Users,
                    NEW p \in 1 .. Done, NEW i \in 1 .. Done, NEW j \in 1 .. Done,
                    p \notin lost, BothAccepted(p, i, j, u, v),
                    \A r \in p .. Done : ~(Between(r, "reject", u, v) \/ Between(r, "unpeer", u, v))
             PROVE  IsPeer(mem, u, v)
  BY DEF AgreementKept
<1> DEFINE d == mem.offset
           k == PairKey(u, v)
<1>1. /\ log \in Seq(Updates) /\ d \in 0 .. Len(log) /\ Len(log) \in Nat
      /\ naming \in {0, d} /\ confirmed \in Int /\ confirmed <= d
      /\ naming # 0 => log[naming].kind = "pairnoise"
  BY DEF PeeringTypes, PeeringTypeOK, Naming, Tables
<1>2. Done = IF naming # 0 THEN d - 1 ELSE d
  BY <1>1 DEF Done, MaxOf
<1>3. /\ p \in 1 .. d /\ i \in p .. d /\ j \in p .. d /\ p # naming
      /\ \A r \in p .. d : r \in p .. Done \/ (naming # 0 /\ r = naming)
  BY <1>1, <1>2 DEF BothAccepted
<1>4. Unopposed(p, u, v, d) /\ Unopposed(p, v, u, d)
  <2>1. naming # 0 => log[naming] \in Updates
    BY <1>1
  <2>2. naming # 0 => ~Between(naming, "reject", u, v) /\ ~Between(naming, "unpeer", u, v)
    BY <1>1, <2>1, WhichUpdate
  <2>3. QED
    BY <1>3, <2>2 DEF Unopposed, Between
<1>5. u # v /\ Is(i, "accept", u, v) /\ Is(j, "accept", v, u)
  <2>1. log[i] \in Updates /\ Is(i, "accept", u, v) /\ Is(j, "accept", v, u)
    BY <1>1, <1>3 DEF BothAccepted
  <2>2. QED
    BY <2>1 DEF Is, Updates
<1>6. Counts(mem, p, u, v, d) /\ Counts(mem, p, v, u, d)
  <2>1. Kept(mem, d, lost \cup {naming})
    BY DEF KeptInv
  <2>2. Between(p, "pairnoise", u, v) /\ Between(p, "pairnoise", v, u)
    BY DEF BothAccepted, Between
  <2>3. QED
    BY <1>3, <1>4, <1>5, <2>1, <2>2 DEF Kept
<1>7. ASSUME ~IsPeer(mem, u, v)
      PROVE  FALSE
  <2>1. ~IsPeer(mem, v, u)
    BY <1>7 DEF PeersInv, Symmetric
  <2>2. PairKey(v, u) = k /\ k \in Keys
    BY <1>5, KeyOfPair DEF PairKey
  <2>3. mem.pending[k] # None /\ u \in mem.pending[k].accepted
    BY <1>3, <1>5, <1>6, <1>7 DEF Counts
  <2>4. v \in mem.pending[k].accepted
    BY <1>3, <1>5, <1>6, <2>1, <2>2 DEF Counts
  <2>5. mem.pending[k].accepted \subseteq k /\ mem.pending[k].accepted # k
    BY <2>2, <2>3 DEF KeptInv, Proper
  <2>6. QED
    BY <2>3, <2>4, <2>5 DEF PairKey
<1>8. QED
  BY <1>7

\* ... and users who both accepted a request that was not lost on its way are
\* peers, unless one of them rejected or left, or an hour went by.
THEOREM AgreementsKept == Spec => []AgreementKept
BY InitPeeringTypes, NextPeeringTypes, InitPeersInv, NextPeersInv,
   InitKeptInv, NextKeptInv, KeptNow, PTL DEF Spec
==============================================================================
