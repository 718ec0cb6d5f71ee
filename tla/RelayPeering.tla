---------------------------- MODULE RelayPeering -----------------------------
(***************************************************************************)
(* How two users become peers, and stop being peers, on the relay          *)
(* (bot.py): /pairnoise, /accept, /reject and /unpeer, the update loop     *)
(* that reads them from Telegram, the state file that holds the tables and *)
(* the offset together, requests that run out of time, and restarts at any *)
(* point.                                                                  *)
(*                                                                         *)
(* Telegram keeps an update until a getUpdates passes an offset beyond it. *)
(* The loop handles one update at a time and a handler awaits nothing      *)
(* between reading the tables and saving them, so it is one step.  Only    *)
(* /pairnoise may first ask Telegram for names, with the offset already    *)
(* moved; other handlers run and save meanwhile.  Writes succeed.          *)
(***************************************************************************)
EXTENDS Integers, Sequences, FiniteSets

CONSTANTS
    Users,
    MaxUpdates,   \* bound on the updates of a run
    MaxRestarts,  \* bound on restarts
    None

ASSUME PeeringAssumption ==
    /\ MaxUpdates \in Nat /\ MaxRestarts \in Nat
    /\ None \notin [accepted : SUBSET Users, born : 1 .. MaxUpdates]

Commands == {"pairnoise", "accept", "reject", "unpeer"}
Updates == {x \in [kind : Commands, user : Users, peer : Users] : x.user # x.peer}

\* pair_key: one request at most between two users.
PairKey(u, v) == {u, v}
Keys == {PairKey(x.user, x.peer) : x \in Updates}

VARIABLES
    log,        \* every update Telegram ever had for the bot, oldest first
    confirmed,  \* updates Telegram has dropped: the offset of the last getUpdates
    batch,      \* last update of the batch in hand
    naming,     \* the /pairnoise whose names are asked for, 0 if none
    lost,       \* the /pairnoise updates that were dropped unhandled
    mem,        \* the relay's tables and offset
    disk,       \* the state file
    expired,    \* requests whose hour is over, named by the update they are from
    restarts

vars == <<log, confirmed, batch, naming, lost, mem, disk, expired, restarts>>

Requests == [accepted : SUBSET Users, born : 1 .. MaxUpdates]
Tables == [peers   : SUBSET (Users \X Users),
           pending : [Keys -> Requests \cup {None}],
           offset  : 0 .. MaxUpdates]

IsPeer(m, u, v) == <<u, v>> \in m.peers

IsExpired(m, k) == m.pending[k] # None /\ m.pending[k].born \in expired

(***************************************************************************)
(* The handlers: tables before, update, tables after                       *)
(***************************************************************************)

\* Mutant: a second prompt starts over.
PairnoiseAfresh(m, u, v, n) ==
    IF IsPeer(m, u, v) THEN m
    ELSE [m EXCEPT !.pending[PairKey(u, v)] = [accepted |-> {}, born |-> n]]

\* _handle_pairnoise: nothing for peers, and nothing but another prompt while
\* a request is open.
Pairnoise(m, u, v, n) ==
    LET k == PairKey(u, v)
    IN  IF IsPeer(m, u, v) \/ (m.pending[k] # None /\ ~IsExpired(m, k))
        THEN m
        ELSE [m EXCEPT !.pending[k] = [accepted |-> {}, born |-> n]]

\* cmd_accept, which does not look at the clock.
Accept(m, u, v) ==
    LET k == PairKey(u, v)
    IN  CASE m.pending[k] = None -> m
          [] m.pending[k] # None /\ m.pending[k].accepted \cup {u} = k ->
                [m EXCEPT !.peers = @ \cup {<<u, v>>, <<v, u>>}, !.pending[k] = None]
          [] OTHER -> [m EXCEPT !.pending[k].accepted = @ \cup {u}]

\* Mutant: only the acceptance of the user who rejects is taken back.
RejectOwnSide(m, u, v) ==
    LET k == PairKey(u, v)
    IN  IF m.pending[k] = None THEN m
        ELSE [m EXCEPT !.pending[k].accepted = @ \ {u}]

\* cmd_reject.
Reject(m, u, v) == [m EXCEPT !.pending[PairKey(u, v)] = None]

\* Mutant: the other side's table is left alone.
UnpeerOwnSide(m, u, v) == [m EXCEPT !.peers = @ \ {<<u, v>>}]

\* cmd_unpeer.
Unpeer(m, u, v) == [m EXCEPT !.peers = @ \ {<<u, v>>, <<v, u>>}]

Handled(m, x, n) ==
    CASE x.kind = "pairnoise" -> Pairnoise(m, x.user, x.peer, n)
      [] x.kind = "accept"    -> Accept(m, x.user, x.peer)
      [] x.kind = "reject"    -> Reject(m, x.user, x.peer)
      [] x.kind = "unpeer"    -> Unpeer(m, x.user, x.peer)
      [] OTHER                -> m   \* the list of commands is all they get

(***************************************************************************)
(* The update loop                                                         *)
(***************************************************************************)

Send ==
    /\ Len(log) < MaxUpdates
    /\ \E x \in Updates : log' = Append(log, x)
    /\ UNCHANGED <<confirmed, batch, naming, lost, mem, disk, expired, restarts>>

MaxOf(a, b) == IF a < b THEN b ELSE a

\* The first update Telegram still has that the offset asks for.
NextUpdate == MaxOf(mem.offset, confirmed) + 1

BatchDone == naming = 0 /\ batch < NextUpdate

\* getUpdates, after the save: what is before the offset is confirmed, what is
\* after it comes back (up to 100 updates, far more than MaxUpdates).
GetUpdates ==
    /\ BatchDone /\ disk = mem
    /\ NextUpdate <= Len(log)
    /\ confirmed' = MaxOf(mem.offset, confirmed)
    /\ batch' = Len(log)
    /\ UNCHANGED <<log, naming, lost, mem, disk, expired, restarts>>

\* One update of the batch.  The offset moves first; a handler that changes
\* the tables saves them, and the offset with them.
HandleUpdate ==
    /\ naming = 0 /\ NextUpdate <= batch
    /\ mem' = [Handled(mem, log[NextUpdate], NextUpdate) EXCEPT !.offset = NextUpdate]
    /\ disk' = IF [mem' EXCEPT !.offset = mem.offset] = mem THEN disk ELSE mem'
    /\ UNCHANGED <<log, confirmed, batch, naming, lost, expired, restarts>>

\* A /pairnoise that lacks a name: getChat is called first, ...
AskNames ==
    /\ naming = 0 /\ NextUpdate <= batch
    /\ log[NextUpdate].kind = "pairnoise"
    /\ naming' = NextUpdate
    /\ mem' = [mem EXCEPT !.offset = NextUpdate]
    /\ UNCHANGED <<log, confirmed, batch, lost, disk, expired, restarts>>

\* ... then the request is made,
NamesArrive ==
    /\ naming # 0
    /\ mem' = Handled(mem, log[naming], naming)
    /\ disk' = IF mem' = mem THEN disk ELSE mem'
    /\ naming' = 0
    /\ UNCHANGED <<log, confirmed, batch, lost, expired, restarts>>

\* ... unless the call raises: the loop logs it and goes on.
NamesFail ==
    /\ naming # 0
    /\ naming' = 0
    /\ lost' = lost \cup {naming}
    /\ UNCHANGED <<log, confirmed, batch, mem, disk, expired, restarts>>

\* The save after a batch, and those of bind_poll and other handlers at any
\* time: everything is written.
SaveState ==
    /\ disk # mem
    /\ disk' = mem
    /\ UNCHANGED <<log, confirmed, batch, naming, lost, mem, expired, restarts>>

\* An hour has passed since a request was made.
Expire ==
    /\ \E k \in Keys, m \in {mem, disk} :
           /\ m.pending[k] # None
           /\ m.pending[k].born \notin expired
           /\ expired' = expired \cup {m.pending[k].born}
    /\ UNCHANGED <<log, confirmed, batch, naming, lost, mem, disk, restarts>>

\* prune_pending, between two batches.
PrunePending ==
    /\ BatchDone
    /\ \E k \in Keys : IsExpired(mem, k)
    /\ mem' = [mem EXCEPT !.pending =
                  [k \in Keys |-> IF IsExpired(mem, k) THEN None ELSE @[k]]]
    /\ disk' = mem'
    /\ UNCHANGED <<log, confirmed, batch, naming, lost, expired, restarts>>

\* Mutant: the offset is not read back.
RestartAtConfirmed ==
    /\ restarts < MaxRestarts
    /\ restarts' = restarts + 1
    /\ mem' = [disk EXCEPT !.offset = confirmed]
    /\ batch' = confirmed
    /\ naming' = 0
    /\ UNCHANGED <<log, confirmed, lost, disk, expired>>

\* The process stops and starts again from the file.
Restart ==
    /\ restarts < MaxRestarts
    /\ restarts' = restarts + 1
    /\ mem' = disk
    /\ batch' = MaxOf(disk.offset, confirmed)
    /\ naming' = 0
    /\ lost' = IF naming # 0 /\ naming <= disk.offset THEN lost \cup {naming} ELSE lost
    /\ UNCHANGED <<log, confirmed, disk, expired>>

Init ==
    /\ log = << >>
    /\ confirmed = 0
    /\ batch = 0
    /\ naming = 0
    /\ lost = {}
    /\ mem = [peers |-> {}, pending |-> [k \in Keys |-> None], offset |-> 0]
    /\ disk = mem
    /\ expired = {}
    /\ restarts = 0

Next ==
    \/ Send \/ GetUpdates
    \/ HandleUpdate \/ AskNames \/ NamesArrive \/ NamesFail
    \/ SaveState \/ Expire \/ PrunePending \/ Restart

Spec == Init /\ [][Next]_vars

(***************************************************************************)
(* Properties                                                              *)
(***************************************************************************)

\* Types; the file is never ahead of the process nor behind what Telegram was
\* told, so that no update is dropped by both.
PeeringTypeOK ==
    /\ log \in Seq(Updates) /\ Len(log) <= MaxUpdates
    /\ mem \in Tables /\ disk \in Tables
    /\ expired \subseteq 1 .. MaxUpdates
    /\ confirmed \in 0 .. disk.offset /\ disk.offset <= mem.offset
    /\ batch \in mem.offset .. Len(log)
    /\ naming \in {0, mem.offset} /\ lost \subseteq 1 .. MaxUpdates

\* send and handle_business_message ask one side's table only: two users are
\* peers for both or for neither, in the process and in the file.
PeersSymmetric ==
    \A u, v \in Users : /\ IsPeer(mem, u, v) <=> IsPeer(mem, v, u)
                        /\ IsPeer(disk, u, v) <=> IsPeer(disk, v, u)

Done == IF naming # 0 THEN naming - 1 ELSE MaxOf(mem.offset, confirmed)

Is(i, kind, u, v) == log[i] = [kind |-> kind, user |-> u, peer |-> v]
Between(i, kind, u, v) == Is(i, kind, u, v) \/ Is(i, kind, v, u)

\* Both users accepted after a request, one by update i and one by update j,
\* and nobody rejected it in the meantime.
BothAccepted(p, i, j, u, v) ==
    /\ p < i /\ p < j
    /\ Between(p, "pairnoise", u, v)
    /\ Is(i, "accept", u, v) /\ Is(j, "accept", v, u)
    /\ \A r \in p .. MaxOf(i, j) : ~Between(r, "reject", u, v)

\* bot.py:18-21 and README.md:60-62, "After both accept, the bot remembers
\* them as peers": no restart, repeated update or old request makes peers of
\* users who did not both accept, or keeps peers after either left.
PeersAgreed ==
    \A u, v \in Users : IsPeer(mem, u, v) =>
        \E p, i, j \in 1 .. Done :
            /\ BothAccepted(p, i, j, u, v)
            /\ \A r \in MaxOf(i, j) .. Done : ~Between(r, "unpeer", u, v)

\* ... and two users who both accepted a request that reached the relay, and
\* neither rejected nor left, are peers, whatever came in between, also when
\* the relay stopped in the middle of a batch and handles part of it again.
AgreementKept ==
    expired = {} =>
        \A u \in Users, v \in Users, p, i, j \in 1 .. Done :
            /\ p \notin lost
            /\ BothAccepted(p, i, j, u, v)
            /\ \A r \in p .. Done : ~(Between(r, "reject", u, v) \/ Between(r, "unpeer", u, v))
            => IsPeer(mem, u, v)
==============================================================================
