--------------------------- MODULE HandshakeProofs ---------------------------
(***************************************************************************)
(* Two users who confirmed the same words share chain keys, whatever       *)
(* happened before: proved for any number of attempts, any identities, and *)
(* relays that lose or delay HELLOs.                                       *)
(*                                                                         *)
(* The argument: from the moment a device confirms to a factory reset, its *)
(* words stand still; they name its identity and determine its chain keys; *)
(* and the second to confirm had the words of the first.  Types, and that  *)
(* a saved record is never replaced, follow at the end.                    *)
(***************************************************************************)
EXTENDS Handshake, TLAPS

(***************************************************************************)
(* The pure part: equal words, different identities                        *)
(***************************************************************************)

\* pair_finalise: of two sides with one transcript, exactly one is the lower.
LEMMA OneIsLower ==
    ASSUME NEW i, NEW e, NEW h, NEW j, NEW f, NEW g, i # j,
           Transcript(i, e, h) = Transcript(j, f, g)
    PROVE  /\ IAmLo(i, h) <=> ~IAmLo(j, g)
           /\ h.id = j /\ h.eph = f /\ g.id = i /\ g.eph = e
<1>1. CASE IAmLo(i, h) /\ IAmLo(j, g)
  <2>1. <<i, e, h.id, h.eph>> = <<j, f, g.id, g.eph>>
    BY <1>1 DEF Transcript
  <2>2. QED BY <2>1
<1>2. CASE ~IAmLo(i, h) /\ ~IAmLo(j, g)
  <2>1. <<h.id, h.eph, i, e>> = <<g.id, g.eph, j, f>>
    BY <1>2 DEF Transcript
  <2>2. QED BY <2>1
<1>3. CASE IAmLo(i, h) /\ ~IAmLo(j, g)
  <2>1. <<i, e, h.id, h.eph>> = <<g.id, g.eph, j, f>>
    BY <1>3 DEF Transcript
  <2>2. QED BY <2>1, <1>3
<1>4. CASE ~IAmLo(i, h) /\ IAmLo(j, g)
  <2>1. <<h.id, h.eph, i, e>> = <<j, f, g.id, g.eph>>
    BY <1>4 DEF Transcript
  <2>2. QED BY <2>1, <1>4
<1>5. QED BY <1>1, <1>2, <1>3, <1>4

LEMMA DHCommutes == ASSUME NEW x, NEW y PROVE DH(x, y) = DH(y, x)
BY DEF DH

\* The four secrets come out in the same order on both sides.
LEMMA SameIkm ==
    ASSUME NEW i, NEW e, NEW h, NEW j, NEW f, NEW g,
           IAmLo(i, h), ~IAmLo(j, g),
           h.id = j, h.eph = f, g.id = i, g.eph = e
    PROVE  Ikm(i, e, h) = Ikm(j, f, g)
<1>1. Ikm(i, e, h) = << DH(IdKey(i), IdKey(j)), DH(IdKey(i), EphKey(f)),
                        DH(EphKey(e), IdKey(j)), DH(EphKey(e), EphKey(f)) >>
  BY DEF Ikm
<1>2. Ikm(j, f, g) = << DH(IdKey(j), IdKey(i)), DH(EphKey(f), IdKey(i)),
                        DH(IdKey(j), EphKey(e)), DH(EphKey(f), EphKey(e)) >>
  BY DEF Ikm
<1>3. QED BY <1>1, <1>2, DHCommutes

\* Equal words, different identities: mirrored chain keys.
LEMMA MirroredChains ==
    ASSUME NEW i, NEW e, NEW h, NEW j, NEW f, NEW g, i # j,
           Transcript(i, e, h) = Transcript(j, f, g)
    PROVE  /\ Chains(i, e, h).send = Chains(j, f, g).recv
           /\ Chains(j, f, g).send = Chains(i, e, h).recv
           /\ Chains(i, e, h).send # Chains(i, e, h).recv
<1>1. /\ IAmLo(i, h) <=> ~IAmLo(j, g)
      /\ h.id = j /\ h.eph = f /\ g.id = i /\ g.eph = e
  BY OneIsLower
<1>2. Ikm(i, e, h) = Ikm(j, f, g)
  BY <1>1, SameIkm
<1>3. QED BY <1>1, <1>2 DEF Chains

(***************************************************************************)
(* The inductive invariant                                                 *)
(***************************************************************************)

Domains ==
    /\ DOMAIN pc = Devices /\ DOMAIN ident = Devices /\ DOMAIN eph = Devices
    /\ DOMAIN theirs = Devices /\ DOMAIN words = Devices
    /\ DOMAIN chains = Devices /\ DOMAIN saved = Devices

\* An identity is generated once.
IdentitiesDiffer ==
    /\ \A d \in Devices : ident[d] # None => ident[d] \in used
    /\ ident[1] # None => ident[1] # ident[2]

Done(d) == saved[d] # None \/ pc[d] = "confirmed"

\* The words and chains of device d come from one attempt under its identity.
Derived(d, c) ==
    \E e, h : /\ words[d] = Transcript(ident[d], e, h)
              /\ c = Chains(ident[d], e, h)

DeviceInv(d) ==
    /\ pc[d] \in {"sas", "confirmed"} => Derived(d, chains[d])
    /\ saved[d] # None => Derived(d, saved[d])
    /\ saved[d] # None => pc[d] \in {"peers", "chat"}
    /\ Done(d) \/ pc[d] # "peers" => ident[d] # None

WordsBindChains == \A d \in Devices : DeviceInv(d)

SecondHadTheWords == Done(1) /\ Done(2) => words[1] = words[2]

PairInv == Domains /\ IdentitiesDiffer /\ WordsBindChains /\ SecondHadTheWords

LEMMA AgreeFromInv == PairInv => KeysAgree
<1> SUFFICES ASSUME PairInv, saved[1] # None, saved[2] # None
             PROVE  /\ saved[1].send = saved[2].recv
                    /\ saved[2].send = saved[1].recv
                    /\ saved[1].send # saved[1].recv
  BY DEF KeysAgree
<1>1. /\ Derived(1, saved[1]) /\ Derived(2, saved[2])
      /\ words[1] = words[2] /\ ident[1] # ident[2]
  BY DEF PairInv, WordsBindChains, DeviceInv, SecondHadTheWords, IdentitiesDiffer, Done,
         Devices
<1>2. PICK e, h : /\ words[1] = Transcript(ident[1], e, h)
                  /\ saved[1] = Chains(ident[1], e, h)
  BY <1>1 DEF Derived
<1>3. PICK f, g : /\ words[2] = Transcript(ident[2], f, g)
                  /\ saved[2] = Chains(ident[2], f, g)
  BY <1>1 DEF Derived
<1>4. Transcript(ident[1], e, h) = Transcript(ident[2], f, g)
  BY <1>1, <1>2, <1>3
<1>5. /\ Chains(ident[1], e, h).send = Chains(ident[2], f, g).recv
      /\ Chains(ident[2], f, g).send = Chains(ident[1], e, h).recv
      /\ Chains(ident[1], e, h).send # Chains(ident[1], e, h).recv
  BY <1>1, <1>4, MirroredChains
<1>6. QED BY <1>2, <1>3, <1>5

LEMMA InitPairInv == Init => PairInv
BY DEF Init, PairInv, Domains, IdentitiesDiffer, WordsBindChains,
       DeviceInv, SecondHadTheWords, Done, Devices

\* What a step of device d leaves alone.
OthersStay(d) ==
    \A x \in Devices \ {d} :
        /\ pc'[x] = pc[x] /\ ident'[x] = ident[x] /\ words'[x] = words[x]
        /\ chains'[x] = chains[x] /\ saved'[x] = saved[x]

\* One device moves: it is enough to look at that device, and at what it
\* confirms.
LEMMA OneDeviceMoves ==
    ASSUME PairInv, NEW d \in Devices, OthersStay(d), Domains', IdentitiesDiffer',
           DeviceInv(d)',
           Done(d)' => \/ Done(d) /\ words'[d] = words[d]
                       \/ words'[d] = words'[Peer(d)]
    PROVE  PairInv'
<1>1. \A x \in Devices \ {d} : DeviceInv(x)' /\ (Done(x)' <=> Done(x))
  BY DEF PairInv, WordsBindChains, DeviceInv, Derived, Done, OthersStay
<1>2. WordsBindChains'
  BY <1>1 DEF WordsBindChains
<1>3. SecondHadTheWords'
  BY <1>1 DEF SecondHadTheWords, PairInv, Devices, Peer, OthersStay
<1>4. QED BY <1>2, <1>3 DEF PairInv

\* Steps that touch neither keys nor words, and confirm and save nothing.
LEMMA WalkPairInv ==
    ASSUME PairInv, NEW d \in Devices, NEW s \in {"peers", "waiting"},
           pc' = [pc EXCEPT ![d] = s],
           s = "waiting" => pc[d] = "sending",
           UNCHANGED <<ident, used, eph, words, chains, saved, theirs>>
    PROVE  PairInv'
<1>1. Domains' /\ IdentitiesDiffer' /\ OthersStay(d)
  BY DEF PairInv, Domains, IdentitiesDiffer, OthersStay
<1>2. pc'[d] = s
  BY DEF PairInv, Domains
<1>3. DeviceInv(d)'
  BY <1>2 DEF PairInv, WordsBindChains, DeviceInv, Derived, Done
<1>4. Done(d)' => Done(d)
  BY <1>2 DEF Done
<1>5. QED BY <1>1, <1>3, <1>4, OneDeviceMoves

LEMMA NextPairInv == PairInv /\ [Next]_vars => PairInv'
<1> SUFFICES ASSUME PairInv, [Next]_vars PROVE PairInv'
  OBVIOUS
<1>1. CASE UNCHANGED <<pc, ident, used, eph, theirs, words, chains, saved>>
  BY <1>1 DEF PairInv, Domains, IdentitiesDiffer, WordsBindChains, DeviceInv,
              SecondHadTheWords, Done, Derived
<1>s. SUFFICES ASSUME NEW d \in Devices, Proceeds(d) \/ Disturbed(d) PROVE PairInv'
  BY <1>1 DEF Next, vars
<1> USE DEF flash, relay, attempt
<1>2. CASE Begin(d)
  <2>1. /\ pc[d] = "peers" /\ saved[d] = None /\ saved' = saved
        /\ pc' = [pc EXCEPT ![d] = "sending"]
        /\ words' = [words EXCEPT ![d] = None]
        /\ chains' = [chains EXCEPT ![d] = None]
        /\ eph' = [eph EXCEPT ![d] = nextEph] /\ theirs' = theirs
    BY <1>2 DEF Begin, SessionBegin, PairInit
  <2>2. \/ ident[d] # None /\ UNCHANGED <<ident, used>>
        \/ \E i \in Ids \ used : /\ ident' = [ident EXCEPT ![d] = i]
                                 /\ used' = used \cup {i}
    BY <1>2 DEF Begin, SessionBegin, PairInit
  <2>3. PICK i : \/ ident[d] # None /\ UNCHANGED <<ident, used>>
                 \/ /\ i \in Ids \ used /\ i # None
                    /\ ident' = [ident EXCEPT ![d] = i] /\ used' = used \cup {i}
    BY <2>2, HandshakeAssumption
  <2>4. IdentitiesDiffer' /\ ident'[d] # None
    BY <2>3 DEF PairInv, Domains, IdentitiesDiffer, Devices
  <2>5. Domains' /\ OthersStay(d)
    BY <2>1, <2>3 DEF PairInv, Domains, OthersStay
  <2>6. pc'[d] = "sending" /\ saved'[d] = None
    BY <2>1 DEF PairInv, Domains
  <2>7. DeviceInv(d)' /\ ~Done(d)'
    BY <2>4, <2>6 DEF DeviceInv, Done
  <2>8. QED BY <2>4, <2>5, <2>7, OneDeviceMoves
<1>3. CASE SendHello(d)
  BY <1>3, WalkPairInv DEF SendHello
<1>4. CASE SendFails(d)
  BY <1>4, WalkPairInv DEF SendFails
<1>5. CASE LatePush(d) \/ ChatHello(d)
  BY <1>1, <1>5 DEF LatePush, ChatHello
<1>6. CASE Poll(d)
  <2>1. /\ theirs' = [theirs EXCEPT ![d] = inbox[d][after[d] + 1]]
        /\ UNCHANGED <<pc, ident, used, eph, words, chains, saved>>
    BY <1>6 DEF Poll
  <2>2. QED
    BY <2>1 DEF PairInv, Domains, IdentitiesDiffer, WordsBindChains, DeviceInv,
                SecondHadTheWords, Done, Derived
<1>7. CASE Abort(d) \/ RefuseSas(d) \/ LeaveChat(d)
  BY <1>7, WalkPairInv DEF Abort, RefuseSas, LeaveChat
<1>8. CASE Finalise(d)
  <2>1. /\ pc[d] = "waiting" /\ pc' = [pc EXCEPT ![d] = "sas"]
        /\ words' = [words EXCEPT ![d] = Transcript(ident[d], eph[d], theirs[d])]
        /\ chains' = [chains EXCEPT ![d] = Chains(ident[d], eph[d], theirs[d])]
        /\ UNCHANGED <<ident, used, eph, theirs, saved>>
    BY <1>8 DEF Finalise
  <2>2. Domains' /\ IdentitiesDiffer' /\ OthersStay(d)
    BY <2>1 DEF PairInv, Domains, IdentitiesDiffer, OthersStay
  <2>3. /\ pc'[d] = "sas" /\ saved'[d] = None /\ ident'[d] # None
        /\ words'[d] = Transcript(ident[d], eph[d], theirs[d])
        /\ chains'[d] = Chains(ident[d], eph[d], theirs[d])
    BY <2>1 DEF PairInv, Domains, WordsBindChains, DeviceInv
  <2>4. Derived(d, chains[d])'
    BY <2>1, <2>3 DEF Derived
  <2>5. DeviceInv(d)' /\ ~Done(d)'
    BY <2>3, <2>4 DEF DeviceInv, Done
  <2>6. QED BY <2>2, <2>5, OneDeviceMoves
<1>9. CASE ConfirmSas(d)
  <2>1. /\ pc[d] = "sas" /\ pc' = [pc EXCEPT ![d] = "confirmed"]
        /\ words[Peer(d)] = words[d]
        /\ UNCHANGED <<ident, used, eph, theirs, words, chains, saved>>
    BY <1>9 DEF ConfirmSas
  <2>2. Domains' /\ IdentitiesDiffer' /\ OthersStay(d)
    BY <2>1 DEF PairInv, Domains, IdentitiesDiffer, OthersStay
  <2>3. pc'[d] = "confirmed" /\ Derived(d, chains[d])' /\ saved'[d] = None
    BY <2>1 DEF PairInv, Domains, WordsBindChains, DeviceInv, Derived
  <2>4. DeviceInv(d)'
    BY <2>1, <2>3 DEF PairInv, WordsBindChains, DeviceInv
  <2>5. QED BY <2>1, <2>2, <2>4, OneDeviceMoves
<1>10. CASE PersistBaseline(d)
  <2>1. /\ pc[d] = "confirmed" /\ pc' = [pc EXCEPT ![d] = "chat"]
        /\ saved' = [saved EXCEPT ![d] = chains[d]]
        /\ UNCHANGED <<ident, used, eph, theirs, words, chains>>
    BY <1>10 DEF PersistBaseline
  <2>2. Domains' /\ IdentitiesDiffer' /\ OthersStay(d)
    BY <2>1 DEF PairInv, Domains, IdentitiesDiffer, OthersStay
  <2>3. /\ pc'[d] = "chat" /\ saved'[d] = chains[d] /\ ident'[d] # None
        /\ Done(d) /\ Derived(d, chains[d])
    BY <2>1 DEF PairInv, Domains, WordsBindChains, DeviceInv, Done
  <2>4. Derived(d, saved[d])'
    BY <2>1, <2>3 DEF Derived
  <2>5. DeviceInv(d)'
    BY <2>3, <2>4 DEF DeviceInv
  <2>6. QED BY <2>1, <2>2, <2>3, <2>5, OneDeviceMoves
<1>11. CASE Resume(d)
  <2>1. /\ pc[d] = "peers" /\ saved[d] # None
        /\ pc' = [pc EXCEPT ![d] = "chat"]
        /\ chains' = [chains EXCEPT ![d] = saved[d]]
        /\ UNCHANGED <<ident, used, eph, theirs, words, saved>>
    BY <1>11 DEF Resume
  <2>2. Domains' /\ IdentitiesDiffer' /\ OthersStay(d)
    BY <2>1 DEF PairInv, Domains, IdentitiesDiffer, OthersStay
  <2>3. /\ pc'[d] = "chat" /\ saved'[d] = saved[d] /\ ident'[d] # None
        /\ Done(d) /\ Derived(d, saved[d])
    BY <2>1 DEF PairInv, Domains, WordsBindChains, DeviceInv, Done
  <2>4. Derived(d, saved[d])'
    BY <2>1, <2>3 DEF Derived
  <2>5. DeviceInv(d)'
    BY <2>3, <2>4 DEF DeviceInv
  <2>6. QED BY <2>1, <2>2, <2>3, <2>5, OneDeviceMoves
<1>12. CASE PowerLoss(d)
  <2>1. /\ pc' = [pc EXCEPT ![d] = "peers"]
        /\ chains' = [chains EXCEPT ![d] = None]
        /\ UNCHANGED <<ident, used, eph, theirs, words, saved>>
    BY <1>12 DEF PowerLoss
  <2>2. Domains' /\ IdentitiesDiffer' /\ OthersStay(d)
    BY <2>1 DEF PairInv, Domains, IdentitiesDiffer, OthersStay
  <2>3. pc'[d] = "peers"
    BY <2>1 DEF PairInv, Domains
  <2>4. Done(d)' => Done(d)
    BY <2>1, <2>3 DEF Done
  <2>5. DeviceInv(d)'
    BY <2>1, <2>3 DEF PairInv, WordsBindChains, DeviceInv, Derived, Done
  <2>6. QED BY <2>1, <2>2, <2>4, <2>5, OneDeviceMoves
<1>13. CASE Wipe(d)
  <2>1. /\ pc[d] = "peers" /\ pc' = pc
        /\ ident' = [ident EXCEPT ![d] = None]
        /\ saved' = [saved EXCEPT ![d] = None]
        /\ words' = [words EXCEPT ![d] = None]
        /\ chains' = [chains EXCEPT ![d] = None]
        /\ UNCHANGED <<used, eph, theirs>>
    BY <1>13 DEF Wipe
  <2>2. Domains' /\ IdentitiesDiffer' /\ OthersStay(d)
    BY <2>1 DEF PairInv, Domains, IdentitiesDiffer, OthersStay, Devices
  <2>3. pc'[d] = "peers" /\ saved'[d] = None
    BY <2>1 DEF PairInv, Domains
  <2>4. DeviceInv(d)' /\ ~Done(d)'
    BY <2>3 DEF DeviceInv, Done
  <2>5. QED BY <2>2, <2>4, OneDeviceMoves
<1>14. QED
  BY <1>s, <1>2, <1>3, <1>4, <1>5, <1>6, <1>7, <1>8, <1>9, <1>10, <1>11, <1>12, <1>13
     DEF Proceeds, Disturbed

\* README.md:64-67: devices whose users confirmed the same words hold
\* mirrored chain keys, after any number of attempts, cuts and wipes.
THEOREM Agreement == Spec => []KeysAgree
<1>1. PairInv => KeysAgree
  BY AgreeFromInv
<1>2. QED BY <1>1, InitPairInv, NextPairInv, PTL DEF Spec

(***************************************************************************)
(* A record is never replaced                                              *)
(***************************************************************************)

\* session.c:97-100: no step puts other chain keys in the place of saved
\* ones; a HELLO in a chat never does.
THEOREM RecordsStay == Spec => NoSilentRekey
<1> DEFINE Stay == \A d \in Devices : saved[d] # None => saved'[d] \in {saved[d], None}
<1>1. ASSUME PairInv, [Next]_vars PROVE Stay
  <2>1. CASE UNCHANGED saved
    BY <2>1
  <2>2. CASE \E d \in Devices : PersistBaseline(d)
    <3>1. PICK d \in Devices : PersistBaseline(d)
      BY <2>2
    <3>2. pc[d] = "confirmed" /\ saved' = [saved EXCEPT ![d] = chains[d]]
      BY <3>1 DEF PersistBaseline
    <3>3. saved[d] = None
      BY <1>1, <3>2 DEF PairInv, WordsBindChains, DeviceInv
    <3>4. QED BY <1>1, <3>2, <3>3 DEF PairInv, Domains
  <2>3. CASE \E d \in Devices : Wipe(d)
    <3>1. PICK d \in Devices : saved' = [saved EXCEPT ![d] = None]
      BY <2>3 DEF Wipe
    <3>2. QED BY <1>1, <3>1 DEF PairInv, Domains
  <2>4. QED
    BY <1>1, <2>1, <2>2, <2>3
       DEF Next, Proceeds, Disturbed, vars, flash, relay, attempt, Begin, SessionBegin, PairInit,
           SendHello, SendFails, LatePush, Poll, Abort, Finalise, ConfirmSas,
           RefuseSas, Resume, ChatHello, LeaveChat, PowerLoss
<1>2. ASSUME PairInv, [Next]_vars PROVE [Stay]_vars
  BY <1>1, <1>2
<1>3. QED BY <1>2, InitPairInv, NextPairInv, PTL DEF Spec, NoSilentRekey

(***************************************************************************)
(* Types and screens                                                       *)
(***************************************************************************)

Screens == {"peers", "sending", "waiting", "sas", "confirmed", "chat"}

HandshakeTypes ==
    /\ pc \in [Devices -> Screens]
    /\ nextEph \in 1 .. MaxEph + 1
    /\ DOMAIN gotHello = Devices /\ DOMAIN after = Devices
    /\ DOMAIN inbox = Devices /\ DOMAIN late = Devices
    /\ DOMAIN ident = Devices /\ DOMAIN eph = Devices /\ DOMAIN theirs = Devices
    /\ DOMAIN chains = Devices /\ DOMAIN saved = Devices

\* A HELLO on its way to d, or taken by it, is of another identity.
Foreign(d, h) == h \in Hellos /\ h.id \in used /\ h.id # ident[d]

ScreenInv(d) ==
    /\ ident[d] \in Ids \cup {None}
    /\ pc[d] = "sending" => eph[d] \in 1 .. MaxEph
    /\ inbox[d] \in Seq(Hellos)
    /\ \A i \in 1 .. Len(inbox[d]) : Foreign(d, inbox[d][i])
    /\ \A h \in late[d] : Foreign(d, h)
    /\ after[d] \in 0 .. Len(inbox[d])
    /\ gotHello[d] => Foreign(d, theirs[d])
    /\ pc[d] \in {"sas", "confirmed"} => gotHello[d]
    /\ pc[d] = "chat" => chains[d] = saved[d]

ScreensInv == HandshakeTypes /\ \A d \in Devices : ScreenInv(d)

LEMMA InitScreens == Init => ScreensInv
BY HandshakeAssumption DEF Init, ScreensInv, HandshakeTypes, Screens, ScreenInv

\* Nothing that is said of the other device has moved.
LEMMA OtherScreen ==
    ASSUME ScreensInv, NEW x \in Devices, used \subseteq used',
           pc'[x] = pc[x], ident'[x] = ident[x], eph'[x] = eph[x],
           inbox'[x] = inbox[x], late'[x] = late[x], after'[x] = after[x],
           gotHello'[x] = gotHello[x], theirs'[x] = theirs[x],
           chains'[x] = chains[x], saved'[x] = saved[x]
    PROVE  ScreenInv(x)'
BY DEF ScreensInv, ScreenInv, Foreign

\* A HELLO of d goes to the inbox of its peer, or is on its way there.
LEMMA MyHelloForeign ==
    ASSUME PairInv, ScreensInv, NEW d \in Devices, pc[d] = "sending"
    PROVE  Foreign(Peer(d), MyHello(d))
<1>1. ident[d] \in Ids /\ ident[d] \in used /\ ident[d] # ident[Peer(d)] /\ eph[d] \in 1 .. MaxEph
  BY HandshakeAssumption DEF PairInv, WordsBindChains, DeviceInv, IdentitiesDiffer, ScreensInv, ScreenInv, Devices, Peer
<1>2. QED
  BY <1>1 DEF Foreign, MyHello, Hello, Hellos

LEMMA NextScreens == PairInv /\ ScreensInv /\ [Next]_vars => ScreensInv'
<1> SUFFICES ASSUME PairInv, ScreensInv, [Next]_vars PROVE ScreensInv'
  OBVIOUS
<1>1. CASE UNCHANGED vars
  BY <1>1 DEF vars, ScreensInv, HandshakeTypes, ScreenInv, Foreign
<1>s. SUFFICES ASSUME NEW d \in Devices, Proceeds(d) \/ Disturbed(d) PROVE ScreensInv'
  BY <1>1 DEF Next
<1> USE DEF flash, relay, attempt
<1>o. Peer(d) \in Devices /\ Peer(d) # d /\ \A x \in Devices \ {d} : x = Peer(d)
  BY DEF Devices, Peer
<1>t. HandshakeTypes /\ ScreenInv(d) /\ ScreenInv(Peer(d))
  BY <1>o DEF ScreensInv
\* It is enough to look at both devices.
<1>b. ASSUME HandshakeTypes', ScreenInv(d)', ScreenInv(Peer(d))' PROVE ScreensInv'
  BY <1>b, <1>o DEF ScreensInv
<1>2. CASE Begin(d)
  <2>1. /\ pc[d] = "peers" /\ pc' = [pc EXCEPT ![d] = "sending"]
        /\ nextEph <= MaxEph /\ nextEph' = nextEph + 1
        /\ eph' = [eph EXCEPT ![d] = nextEph]
        /\ gotHello' = [gotHello EXCEPT ![d] = FALSE]
        /\ chains' = [chains EXCEPT ![d] = None]
        /\ UNCHANGED <<theirs, saved, inbox, late>>
    BY <1>2 DEF Begin, SessionBegin, PairInit
  <2>2. PICK i : \/ ident[d] # None /\ UNCHANGED <<ident, used>>
                 \/ /\ i \in Ids \ used /\ i # None
                    /\ ident' = [ident EXCEPT ![d] = i] /\ used' = used \cup {i}
    BY <1>2, HandshakeAssumption DEF Begin, SessionBegin, PairInit
  <2>3. PICK head \in HeadIds(d) : after' = [after EXCEPT ![d] = head]
    BY <1>2 DEF Begin
  <2>4. head \in 0 .. Len(inbox[d])
    BY <1>t, <2>3 DEF HeadIds, ScreenInv
  <2>5. HandshakeTypes'
    BY <1>t, <2>1, <2>2, <2>3, HandshakeAssumption DEF HandshakeTypes, Screens
  <2>6. used \subseteq used' /\ ScreenInv(Peer(d))'
    BY <1>o, <1>t, <2>1, <2>2, <2>3, OtherScreen DEF HandshakeTypes
  <2>7. ident'[d] \in Ids \cup {None} /\ \A h : Foreign(d, h) => Foreign(d, h)'
    BY <1>t, <2>2 DEF HandshakeTypes, ScreenInv, Foreign
  <2>8. ScreenInv(d)'
    BY <1>t, <2>1, <2>3, <2>4, <2>7, HandshakeAssumption DEF HandshakeTypes, ScreenInv
  <2>9. QED BY <2>5, <2>6, <2>8, <1>b
<1>3. CASE SendHello(d)
  <2>1. /\ pc[d] = "sending" /\ pc' = [pc EXCEPT ![d] = "waiting"]
        /\ inbox' = [inbox EXCEPT ![Peer(d)] = Append(inbox[Peer(d)], MyHello(d))]
        /\ UNCHANGED <<ident, used, nextEph, eph, gotHello, theirs, chains, saved, after, late>>
    BY <1>3 DEF SendHello
  <2>2. Foreign(Peer(d), MyHello(d)) /\ MyHello(d) \in Hellos
    BY <2>1, MyHelloForeign DEF Foreign
  <2>3. HandshakeTypes'
    BY <1>t, <2>1 DEF HandshakeTypes, Screens
  <2>4. ScreenInv(d)'
    BY <1>o, <1>t, <2>1 DEF HandshakeTypes, ScreenInv, Foreign
  <2> DEFINE box == inbox[Peer(d)]
             new == Append(box, MyHello(d))
  <2>5. /\ new \in Seq(Hellos) /\ Len(new) = Len(box) + 1 /\ Len(box) \in Nat
        /\ \A i \in 1 .. Len(new) : Foreign(Peer(d), new[i])
    BY <1>t, <2>2 DEF ScreenInv
  <2>6. inbox'[Peer(d)] = new
    BY <1>o, <1>t, <2>1 DEF HandshakeTypes
  <2>7. after[Peer(d)] \in 0 .. Len(new)
    BY <1>t, <2>5 DEF ScreenInv
  <2> HIDE DEF new
  <2>8. ScreenInv(Peer(d))'
    BY <1>o, <1>t, <2>1, <2>5, <2>6, <2>7 DEF HandshakeTypes, ScreenInv, Foreign
  <2>9. QED BY <2>3, <2>4, <2>8, <1>b
<1>4. CASE SendFails(d)
  <2>1. /\ pc[d] = "sending" /\ pc' = [pc EXCEPT ![d] = "peers"]
        /\ UNCHANGED <<ident, used, nextEph, eph, gotHello, theirs, chains, saved, after, inbox>>
        /\ \/ late' = late
           \/ late' = [late EXCEPT ![Peer(d)] = late[Peer(d)] \cup {MyHello(d)}]
    BY <1>4 DEF SendFails
  <2>2. Foreign(Peer(d), MyHello(d))
    BY <2>1, MyHelloForeign
  <2>3. QED
    BY <1>b, <1>o, <1>t, <2>1, <2>2 DEF HandshakeTypes, Screens, ScreenInv, Foreign
<1>5. CASE LatePush(d)
  <2>1. PICK h \in late[d] :
            /\ late' = [late EXCEPT ![d] = late[d] \ {h}]
            /\ inbox' = [inbox EXCEPT ![d] = Append(inbox[d], h)]
    BY <1>5 DEF LatePush
  <2>2. UNCHANGED <<pc, ident, used, nextEph, eph, gotHello, theirs, chains, saved, after>>
    BY <1>5 DEF LatePush
  <2>3. HandshakeTypes' /\ ScreenInv(Peer(d))'
    BY <1>o, <1>t, <2>1, <2>2, OtherScreen DEF HandshakeTypes
  <2> DEFINE new == Append(inbox[d], h)
  <2>4. Foreign(d, h) /\ h \in Hellos
    BY <1>t DEF ScreenInv, Foreign
  <2>5. /\ new \in Seq(Hellos) /\ Len(new) = Len(inbox[d]) + 1 /\ Len(inbox[d]) \in Nat
        /\ \A i \in 1 .. Len(new) : Foreign(d, new[i])
    BY <1>t, <2>4 DEF ScreenInv
  <2>6. inbox'[d] = new /\ late'[d] \subseteq late[d]
    BY <1>t, <2>1 DEF HandshakeTypes
  <2>7. after[d] \in 0 .. Len(new)
    BY <1>t, <2>5 DEF ScreenInv
  <2> HIDE DEF new
  <2>8. ScreenInv(d)'
    BY <1>t, <2>2, <2>5, <2>6, <2>7 DEF ScreenInv, Foreign
  <2>9. QED BY <2>3, <2>8, <1>b
<1>6. CASE Poll(d)
  <2>1. /\ after[d] < Len(inbox[d])
        /\ theirs' = [theirs EXCEPT ![d] = inbox[d][after[d] + 1]]
        /\ gotHello' = [gotHello EXCEPT ![d] = TRUE]
        /\ UNCHANGED <<pc, ident, used, saved, nextEph, eph, chains, inbox, late>>
    BY <1>6 DEF Poll
  <2>2. PICK n : after' = [after EXCEPT ![d] = n] /\ n \in 0 .. Len(inbox[d])
    <3> DEFINE rest == Len(inbox[d]) - after[d]
               n == after[d] + (IF rest < PollMax THEN rest ELSE PollMax)
    <3>1. after' = [after EXCEPT ![d] = n]
      BY <1>6 DEF Poll
    <3>2. n \in 0 .. Len(inbox[d])
      <4>1. Len(inbox[d]) \in Nat /\ after[d] \in Nat /\ after[d] <= Len(inbox[d]) /\ PollMax \in Nat
        BY <1>t, HandshakeAssumption DEF ScreenInv
      <4>2. QED BY <4>1
    <3>3. QED BY <3>1, <3>2
  <2>3. Foreign(d, inbox[d][after[d] + 1])
    <3>1. after[d] + 1 \in 1 .. Len(inbox[d])
      BY <1>t, <2>1 DEF ScreenInv
    <3>2. QED BY <1>t, <3>1 DEF ScreenInv
  <2>4. HandshakeTypes' /\ ScreenInv(Peer(d))'
    BY <1>o, <1>t, <2>1, <2>2, OtherScreen DEF HandshakeTypes
  <2>5. ScreenInv(d)'
    BY <1>t, <2>1, <2>2, <2>3 DEF HandshakeTypes, ScreenInv, Foreign
  <2>6. QED BY <2>4, <2>5, <1>b
<1>7. CASE Abort(d) \/ RefuseSas(d) \/ LeaveChat(d) \/ ConfirmSas(d) \/ Finalise(d)
  <2>1. PICK s \in Screens :
            /\ pc' = [pc EXCEPT ![d] = s]
            /\ s \in {"peers", "sas", "confirmed"}
            /\ s \in {"sas", "confirmed"} => gotHello[d]
    BY <1>7, <1>t DEF Abort, RefuseSas, LeaveChat, ConfirmSas, Finalise, ScreenInv, Screens
  <2>2. /\ UNCHANGED <<ident, used, nextEph, eph, gotHello, theirs, saved, after, inbox, late>>
        /\ chains' = chains \/ \E c : chains' = [chains EXCEPT ![d] = c]
    BY <1>7 DEF Abort, RefuseSas, LeaveChat, ConfirmSas, Finalise
  <2>3. HandshakeTypes' /\ ScreenInv(Peer(d))'
    BY <1>o, <1>t, <2>1, <2>2, OtherScreen DEF HandshakeTypes
  <2>4. pc'[d] = s
    BY <1>t, <2>1 DEF HandshakeTypes
  <2>5. ScreenInv(d)'
    BY <1>t, <2>1, <2>2, <2>4 DEF ScreenInv, Foreign
  <2>6. QED BY <2>3, <2>5, <1>b
<1>8. CASE PersistBaseline(d) \/ Resume(d)
  <2>1. /\ pc' = [pc EXCEPT ![d] = "chat"] /\ after' = [after EXCEPT ![d] = 0]
        /\ UNCHANGED <<ident, used, nextEph, eph, gotHello, theirs, inbox, late>>
        /\ \/ saved' = [saved EXCEPT ![d] = chains[d]] /\ chains' = chains
           \/ chains' = [chains EXCEPT ![d] = saved[d]] /\ saved' = saved
    BY <1>8 DEF PersistBaseline, Resume
  <2>2. HandshakeTypes' /\ ScreenInv(Peer(d))'
    BY <1>o, <1>t, <2>1, OtherScreen DEF HandshakeTypes, Screens
  <2>3. pc'[d] = "chat" /\ after'[d] = 0 /\ chains'[d] = saved'[d]
    BY <1>t, <2>1 DEF HandshakeTypes
  <2>4. ScreenInv(d)'
    BY <1>t, <2>1, <2>3 DEF ScreenInv, Foreign
  <2>5. QED BY <2>2, <2>4, <1>b
<1>9. CASE ChatHello(d)
  <2>1. /\ after[d] < Len(inbox[d]) /\ after' = [after EXCEPT ![d] = after[d] + 1]
        /\ UNCHANGED <<pc, ident, used, nextEph, eph, gotHello, theirs, chains, saved, inbox, late>>
    BY <1>9 DEF ChatHello
  <2>2. HandshakeTypes' /\ ScreenInv(Peer(d))'
    BY <1>o, <1>t, <2>1, OtherScreen DEF HandshakeTypes
  <2>3. after'[d] \in 0 .. Len(inbox[d])
    BY <1>t, <2>1 DEF HandshakeTypes, ScreenInv
  <2>4. ScreenInv(d)'
    BY <1>t, <2>1, <2>3 DEF ScreenInv, Foreign
  <2>5. QED BY <2>2, <2>4, <1>b
<1>10. CASE PowerLoss(d)
  <2>1. /\ pc' = [pc EXCEPT ![d] = "peers"] /\ gotHello' = [gotHello EXCEPT ![d] = FALSE]
        /\ chains' = [chains EXCEPT ![d] = None]
        /\ UNCHANGED <<ident, used, saved, nextEph, eph, theirs, after, inbox, late>>
    BY <1>10 DEF PowerLoss
  <2>2. HandshakeTypes' /\ ScreenInv(Peer(d))'
    BY <1>o, <1>t, <2>1, OtherScreen DEF HandshakeTypes, Screens
  <2>3. pc'[d] = "peers" /\ gotHello'[d] = FALSE
    BY <1>t, <2>1 DEF HandshakeTypes
  <2>4. ScreenInv(d)'
    BY <1>t, <2>1, <2>3 DEF ScreenInv, Foreign
  <2>5. QED BY <2>2, <2>4, <1>b
<1>11. CASE Wipe(d)
  <2>1. /\ pc[d] = "peers" /\ pc' = pc /\ ident' = [ident EXCEPT ![d] = None]
        /\ saved' = [saved EXCEPT ![d] = None] /\ chains' = [chains EXCEPT ![d] = None]
        /\ gotHello' = [gotHello EXCEPT ![d] = FALSE]
        /\ UNCHANGED <<used, nextEph, eph, theirs, after, inbox, late>>
    BY <1>11 DEF Wipe
  <2>2. HandshakeTypes' /\ ScreenInv(Peer(d))'
    BY <1>o, <1>t, <2>1, OtherScreen DEF HandshakeTypes
  <2>3. ident'[d] = None /\ gotHello'[d] = FALSE
    BY <1>t, <2>1 DEF HandshakeTypes
  <2>4. \A h : Foreign(d, h) => Foreign(d, h)'
    BY <2>1, <2>3, HandshakeAssumption DEF Foreign, Hellos
  <2>5. ScreenInv(d)'
    BY <1>t, <2>1, <2>3, <2>4 DEF ScreenInv
  <2>6. QED BY <2>2, <2>5, <1>b
<1>12. QED
  BY <1>s, <1>2, <1>3, <1>4, <1>5, <1>6, <1>7, <1>8, <1>9, <1>10, <1>11 DEF Proceeds, Disturbed

\* Types; a device never takes a HELLO of its own identity, however stale, and
\* a chat runs on the chain keys of the record.
THEOREM HandshakeTypesHold == Spec => []HandshakeTypeOK
<1>1. PairInv /\ ScreensInv => HandshakeTypeOK
  BY DEF PairInv, WordsBindChains, DeviceInv, Done, ScreensInv, HandshakeTypes, Screens, ScreenInv, Foreign,
         HandshakeTypeOK
<1>2. QED BY <1>1, InitPairInv, NextPairInv, InitScreens, NextScreens, PTL DEF Spec
==============================================================================
