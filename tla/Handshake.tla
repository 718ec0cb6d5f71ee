------------------------------ MODULE Handshake ------------------------------
(***************************************************************************)
(* Two devices pair: pairing.c, the pairing half of session.c, the         *)
(* handshake screen and the peer loop of main.c, and the two relay inboxes *)
(* HELLOs travel through.  Users retry, walk away, confirm or refuse the   *)
(* words, wipe a device; the power fails; a HELLO may reach the relay      *)
(* after the device that sent it gave up.                                  *)
(*                                                                         *)
(* A private key and its public key are one value.  X25519 is the set of   *)
(* the two keys it mixes, HKDF and the hash under the words are injective. *)
(* Keys are tuples <<kind, n>>; identity keys are ordered by n.            *)
(***************************************************************************)
EXTENDS Integers, Sequences

CONSTANTS
    Ids,          \* the identity keys the generator may return
    MaxEph,       \* bound: ephemeral keys made in a run, one per attempt
    PollMax,      \* how many messages the screen takes from a response
    HeadMayFail,  \* TRUE: the request for the head id may fail
    LateSends,    \* TRUE: a HELLO may reach the relay after its sender gave up
    None

ASSUME HandshakeAssumption ==
    /\ Ids \subseteq Int
    /\ MaxEph \in Nat
    /\ PollMax \in Nat \ {0}
    /\ HeadMayFail \in BOOLEAN
    /\ LateSends \in BOOLEAN
    /\ None \notin Ids

Devices == {1, 2}
Peer(d) == 3 - d

VARIABLES
    pc,         \* the screen each device is in
    ident,      \* long-term identity in flash, None before the first attempt
    used,       \* identities ever generated
    nextEph,    \* number of the next ephemeral key
    eph,        \* ephemeral key of the current attempt
    gotHello,   \* got_their_hello
    theirs,     \* the HELLO taken, when gotHello
    words,      \* words last shown, as the user remembers them
    chains,     \* send and receive chain keys in RAM
    saved,      \* send and receive chain keys in flash, None without a record
    after,      \* poll cursor
    inbox,      \* relay inbox: the HELLOs for a device, ids count from 1
    late        \* HELLOs still on their way to a device's inbox

vars == <<pc, ident, used, nextEph, eph, gotHello, theirs, words, chains, saved,
          after, inbox, late>>

flash   == <<ident, used, saved>>
relay   == <<inbox, late>>
attempt == <<nextEph, eph, gotHello, theirs, words, chains>>

(***************************************************************************)
(* pair_finalise                                                           *)
(***************************************************************************)

IdKey(i)  == <<"id", i>>
EphKey(n) == <<"eph", n>>
DH(x, y)  == {x, y}

Hello(i, e) == [id |-> i, eph |-> e]

IAmLo(i, h) == i < h.id

\* The four secrets, dh2 and dh3 swapped by role.
Ikm(i, e, h) ==
    LET lo == IAmLo(i, h)
        crossMine   == DH(IdKey(i), EphKey(h.eph))
        crossTheirs == DH(EphKey(e), IdKey(h.id))
    IN  << DH(IdKey(i), IdKey(h.id)),
           IF lo THEN crossMine ELSE crossTheirs,
           IF lo THEN crossTheirs ELSE crossMine,
           DH(EphKey(e), EphKey(h.eph)) >>

\* Whoever has the lower identity sends with the first half.
Chains(i, e, h) ==
    IF IAmLo(i, h)
    THEN [send |-> <<Ikm(i, e, h), "first">>,  recv |-> <<Ikm(i, e, h), "second">>]
    ELSE [send |-> <<Ikm(i, e, h), "second">>, recv |-> <<Ikm(i, e, h), "first">>]

\* Mutant: the words cover the identities and not the ephemerals.
TranscriptIdsOnly(i, e, h) ==
    IF IAmLo(i, h) THEN <<i, h.id>> ELSE <<h.id, i>>

\* What the five words stand for.
Transcript(i, e, h) ==
    IF IAmLo(i, h) THEN <<i, e, h.id, h.eph>> ELSE <<h.id, h.eph, i, e>>

(***************************************************************************)
(* Starting an attempt                                                     *)
(***************************************************************************)

\* pair_init: the identity is loaded, or generated and saved.
PairInit(d) ==
    /\ IF ident[d] # None
       THEN UNCHANGED <<ident, used>>
       ELSE \E i \in Ids \ used : /\ ident' = [ident EXCEPT ![d] = i]
                                  /\ used' = used \cup {i}
    /\ eph' = [eph EXCEPT ![d] = nextEph]
    /\ nextEph' = nextEph + 1

\* tx_get_head_id: what the cursor may be set to; it stays 0 when the call
\* fails.
HeadIds(d) == {Len(inbox[d])} \cup (IF HeadMayFail THEN {0} ELSE {})

\* session_begin: whatever the last attempt left is cleared.
SessionBegin(d) ==
    /\ PairInit(d)
    /\ gotHello' = [gotHello EXCEPT ![d] = FALSE]
    /\ words' = [words EXCEPT ![d] = None]
    /\ chains' = [chains EXCEPT ![d] = None]

\* The user picks the peer and there is no record to resume: session_begin,
\* then the head id.
Begin(d) ==
    /\ pc[d] = "peers" /\ saved[d] = None
    /\ nextEph <= MaxEph
    /\ SessionBegin(d)
    /\ \E head \in HeadIds(d) : after' = [after EXCEPT ![d] = head]
    /\ pc' = [pc EXCEPT ![d] = "sending"]
    /\ UNCHANGED <<theirs, saved, relay>>

MyHello(d) == Hello(ident[d], eph[d])

\* session_make_hello_b64 and tx_send, answered 200.
SendHello(d) ==
    /\ pc[d] = "sending"
    /\ inbox' = [inbox EXCEPT ![Peer(d)] = Append(@, MyHello(d))]
    /\ pc' = [pc EXCEPT ![d] = "waiting"]
    /\ UNCHANGED <<flash, attempt, after, late>>

\* "Could not send HELLO": no 200 within 8 s, and the relay, which answers
\* Telegram first, may still push it.
SendFails(d) ==
    /\ pc[d] = "sending"
    /\ \/ UNCHANGED late
       \/ LateSends /\ late' = [late EXCEPT ![Peer(d)] = @ \cup {MyHello(d)}]
    /\ pc' = [pc EXCEPT ![d] = "peers"]
    /\ UNCHANGED <<flash, attempt, after, inbox>>

\* The relay pushes a HELLO whose sender has given up.
LatePush(d) ==
    /\ \E h \in late[d] :
           /\ late' = [late EXCEPT ![d] = @ \ {h}]
           /\ inbox' = [inbox EXCEPT ![d] = Append(@, h)]
    /\ UNCHANGED <<pc, flash, attempt, after>>

(***************************************************************************)
(* Waiting for the peer's HELLO and comparing the words                    *)
(***************************************************************************)

\* One turn of the loop: tx_poll, then pair_feed_hello on what it returned,
\* which keeps the first HELLO of the attempt.
Poll(d) ==
    /\ pc[d] = "waiting" /\ ~gotHello[d]
    /\ after[d] < Len(inbox[d])
    /\ LET rest == Len(inbox[d]) - after[d]
       IN  after' = [after EXCEPT ![d] = @ + (IF rest < PollMax THEN rest ELSE PollMax)]
    /\ theirs' = [theirs EXCEPT ![d] = inbox[d][after[d] + 1]]
    /\ gotHello' = [gotHello EXCEPT ![d] = TRUE]
    /\ UNCHANGED <<pc, flash, nextEph, eph, words, chains, relay>>

\* Esc, or 30 s have passed; looked at after each poll, a HELLO taken or not.
Abort(d) ==
    /\ pc[d] = "waiting"
    /\ pc' = [pc EXCEPT ![d] = "peers"]
    /\ UNCHANGED <<flash, attempt, after, relay>>

\* session_finalise, and the words are on the screen.
Finalise(d) ==
    /\ pc[d] = "waiting" /\ gotHello[d]
    /\ words' = [words EXCEPT ![d] = Transcript(ident[d], eph[d], theirs[d])]
    /\ chains' = [chains EXCEPT ![d] = Chains(ident[d], eph[d], theirs[d])]
    /\ pc' = [pc EXCEPT ![d] = "sas"]
    /\ UNCHANGED <<flash, nextEph, eph, gotHello, theirs, after, relay>>

\* "y": pressed by a user who was told the same words by the other one.
\* session_confirm_sas.
ConfirmSas(d) ==
    /\ pc[d] = "sas"
    /\ words[Peer(d)] = words[d]
    /\ pc' = [pc EXCEPT ![d] = "confirmed"]
    /\ UNCHANGED <<flash, attempt, after, relay>>

\* "n" or Esc.
RefuseSas(d) ==
    /\ pc[d] = "sas"
    /\ pc' = [pc EXCEPT ![d] = "peers"]
    /\ UNCHANGED <<flash, attempt, after, relay>>

\* session_persist(peer, 0), and the chat opens with that cursor.
PersistBaseline(d) ==
    /\ pc[d] = "confirmed"
    /\ saved' = [saved EXCEPT ![d] = chains[d]]
    /\ after' = [after EXCEPT ![d] = 0]
    /\ pc' = [pc EXCEPT ![d] = "chat"]
    /\ UNCHANGED <<ident, used, attempt, relay>>

(***************************************************************************)
(* Chat, power, wipe                                                       *)
(***************************************************************************)

\* Mutant: the chat opens on a session nothing was restored into.
ResumeNothing(d) ==
    /\ pc[d] = "peers" /\ saved[d] # None
    /\ after' = [after EXCEPT ![d] = 0]
    /\ pc' = [pc EXCEPT ![d] = "chat"]
    /\ UNCHANGED <<flash, attempt, relay>>

\* The user picks the peer and session_resume finds the record.
Resume(d) ==
    /\ pc[d] = "peers" /\ saved[d] # None
    /\ chains' = [chains EXCEPT ![d] = saved[d]]
    /\ after' = [after EXCEPT ![d] = 0]
    /\ pc' = [pc EXCEPT ![d] = "chat"]
    /\ UNCHANGED <<flash, nextEph, eph, gotHello, theirs, words, relay>>

\* Mutant: a HELLO in a chat is fed to the pairing context and taken over.
ChatHelloRekeys(d) ==
    /\ pc[d] = "chat"
    /\ after[d] < Len(inbox[d])
    /\ after' = [after EXCEPT ![d] = @ + 1]
    /\ chains' = [chains EXCEPT ![d] = Chains(ident[d], eph[d], inbox[d][after[d] + 1])]
    /\ saved' = [saved EXCEPT ![d] = Chains(ident[d], eph[d], inbox[d][after[d] + 1])]
    /\ UNCHANGED <<pc, ident, used, nextEph, eph, gotHello, theirs, words, relay>>

\* session_decode_incoming answers -5 to a HELLO in a paired session, the
\* chat shows "peer reset - re-pair needed" and saves an unchanged cursor.
ChatHello(d) ==
    /\ pc[d] = "chat"
    /\ after[d] < Len(inbox[d])
    /\ after' = [after EXCEPT ![d] = @ + 1]
    /\ UNCHANGED <<pc, flash, attempt, relay>>

LeaveChat(d) ==
    /\ pc[d] = "chat"
    /\ pc' = [pc EXCEPT ![d] = "peers"]
    /\ UNCHANGED <<flash, attempt, after, relay>>

PowerLoss(d) ==
    /\ pc[d] # "peers"
    /\ pc' = [pc EXCEPT ![d] = "peers"]
    /\ gotHello' = [gotHello EXCEPT ![d] = FALSE]
    /\ chains' = [chains EXCEPT ![d] = None]
    /\ UNCHANGED <<flash, nextEph, eph, theirs, words, after, relay>>

\* storage_forget_all and a reboot; the words no longer stand for anything.
Wipe(d) ==
    /\ pc[d] = "peers" /\ ident[d] # None
    /\ ident' = [ident EXCEPT ![d] = None]
    /\ saved' = [saved EXCEPT ![d] = None]
    /\ words' = [words EXCEPT ![d] = None]
    /\ chains' = [chains EXCEPT ![d] = None]
    /\ gotHello' = [gotHello EXCEPT ![d] = FALSE]
    /\ UNCHANGED <<pc, used, nextEph, eph, theirs, after, relay>>

(***************************************************************************)
(* The specification                                                       *)
(***************************************************************************)

Init ==
    /\ pc = [d \in Devices |-> "peers"]
    /\ ident = [d \in Devices |-> None]
    /\ used = {}
    /\ nextEph = 1
    /\ eph = [d \in Devices |-> 0]
    /\ gotHello = [d \in Devices |-> FALSE]
    /\ theirs = [d \in Devices |-> None]
    /\ words = [d \in Devices |-> None]
    /\ chains = [d \in Devices |-> None]
    /\ saved = [d \in Devices |-> None]
    /\ after = [d \in Devices |-> 0]
    /\ inbox = [d \in Devices |-> <<>>]
    /\ late = [d \in Devices |-> {}]

\* What a device, with a user who keeps at it, does sooner or later.
Proceeds(d) ==
    \/ Begin(d) \/ SendHello(d) \/ Poll(d) \/ Abort(d) \/ Finalise(d)
    \/ ConfirmSas(d) \/ PersistBaseline(d)
    \/ Resume(d) \/ ChatHello(d) \/ LeaveChat(d)

Disturbed(d) ==
    SendFails(d) \/ LatePush(d) \/ RefuseSas(d) \/ PowerLoss(d) \/ Wipe(d)

Next == \E d \in Devices : Proceeds(d) \/ Disturbed(d)

Spec == Init /\ [][Next]_vars

(***************************************************************************)
(* Properties                                                              *)
(***************************************************************************)

Hellos == [id : Ids, eph : 1 .. MaxEph]

\* Types, and what each screen implies about the session behind it.
HandshakeTypeOK ==
    /\ pc \in [Devices -> {"peers", "sending", "waiting", "sas", "confirmed", "chat"}]
    /\ \A d \in Devices :
           /\ ident[d] \in Ids \cup {None}
           /\ late[d] \subseteq Hellos
           /\ inbox[d] \in Seq(Hellos)
           /\ after[d] \in 0 .. Len(inbox[d])
           /\ gotHello[d] => theirs[d] \in Hellos /\ theirs[d].id # ident[d]
           /\ pc[d] \in {"sas", "confirmed"} => gotHello[d]
           /\ saved[d] # None => ident[d] # None
           /\ pc[d] = "chat" => chains[d] = saved[d]

\* README.md:64-67: once two users confirmed the same words, what one device
\* sends with is what the other receives with, in both directions, however
\* many attempts, power cuts, wipes and stray HELLOs came before, and the two
\* directions never share a chain.
KeysAgree ==
    saved[1] # None /\ saved[2] # None =>
        /\ saved[1].send = saved[2].recv
        /\ saved[2].send = saved[1].recv
        /\ saved[1].send # saved[1].recv

\* session.c:97-100, "Refuse with a clear error": a record in flash is never
\* replaced by another one; only a factory reset removes it.
NoSilentRekey ==
    [][\A d \in Devices : saved[d] # None => saved'[d] \in {saved[d], None}]_vars

\* main.c:367-368, "so we only react to the peer's fresh HELLO for THIS
\* handshake", and README.md:234-235, "handshake runs -> five SAS words
\* appear": while both devices wait, each finds a HELLO beyond its cursor.
HelloReachable ==
    (\A d \in Devices : pc[d] = "waiting") =>
        \A d \in Devices : gotHello[d] \/ after[d] < Len(inbox[d])
==============================================================================
