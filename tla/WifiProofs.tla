------------------------------ MODULE WifiProofs -------------------------------
(***************************************************************************)
(* Proofs about Wifi, for any networks and any bounds: what the flag says, *)
(* what is saved, and that a lost link is on its way back, however late    *)
(* the events of an attempt are handled.                                   *)
(***************************************************************************)
EXTENDS Wifi, SequenceTheorems, TLAPS

IsIp(e) == e.kind = "ip"

\* Each GOT_IP not handled yet is of a link that is up or whose loss follows it.
IpBacked ==
    \A i \in 1 .. Len(queue) :
        IsIp(queue[i]) => \/ link.state = "up"
                          \/ \E j \in 1 .. Len(queue) : j > i /\ queue[j] = Disconnected

\* IPs come from networks that work.
IpWorks ==
    /\ \A i \in 1 .. Len(queue) : IsIp(queue[i]) => queue[i].net \in Working
    /\ link.state = "idle" \/ link.net \in Networks

\* Nothing of an earlier attempt is left when the bits are cleared.
NothingLeft == "GOT_IP" \notin bits /\ \A i \in 1 .. Len(queue) : ~IsIp(queue[i])

\* All that is under way belongs to this attempt.
AllOwn ==
    /\ conf = cred
    /\ link.state # "idle" => link.net = cred
    /\ \A i \in 1 .. Len(queue) : IsIp(queue[i]) => queue[i].net = cred
    /\ "GOT_IP" \in bits => cred \in Working

Attempt ==
    /\ pc = "configured" => conf = cred
    /\ pc \in {"cleared", "configured"} /\ ~crossed => NothingLeft
    /\ pc \in {"disconnected", "wait"} /\ ~crossed => AllOwn
    /\ pc = "joined" /\ ~crossed => cred \in Working

Links == [state : {"idle", "joining", "up"}, net : Networks \cup {None}]
QueueType == queue \in Seq(Events) /\ link \in Links

WifiInv == QueueType /\ IpBacked /\ ConnectedIsTrue /\ IpWorks /\ Attempt /\ SavedCredentialsWork

\* Taking the first event, or adding one, moves the others in step.
LEMMA TailFacts ==
    ASSUME QueueType, queue # <<>>, queue' = Tail(queue)
    PROVE  /\ Len(queue) \in Nat \ {0} /\ Len(queue') = Len(queue) - 1
           /\ \A i \in 1 .. Len(queue') : queue'[i] = queue[i + 1]
           /\ Head(queue) = queue[1] /\ queue' \in Seq(Events)
  BY HeadTailProperties, EmptySeq DEF QueueType

LEMMA PostFacts ==
    ASSUME QueueType, NEW e \in Events, Post(e)
    PROVE  /\ Len(queue) \in Nat /\ Len(queue') = Len(queue) + 1
           /\ \A i \in 1 .. Len(queue) : queue'[i] = queue[i]
           /\ queue'[Len(queue) + 1] = e /\ queue' \in Seq(Events)
  BY DEF QueueType, Post

LEMMA DomainFact == ASSUME QueueType PROVE DOMAIN queue = 1 .. Len(queue) /\ Len(queue) \in Nat
  BY DEF QueueType

LEMMA EventTypes ==
    /\ Disconnected \in Events /\ ~IsIp(Disconnected)
    /\ \A n \in Networks : GotIp(n) \in Events /\ IsIp(GotIp(n)) /\ GotIp(n).net = n
  BY DEF Disconnected, GotIp, Events, IsIp

LEMMA InitWifiInv == Init => WifiInv
  <1> SUFFICES ASSUME Init PROVE WifiInv
    OBVIOUS
  <1>1. /\ queue \in Seq(Events) /\ Len(queue) = 1 /\ ~IsIp(queue[1])
        /\ link \in Links /\ link.state = "idle"
    BY DEF Init, Events, IsIp, Idle, Links
  <1> QED
    BY <1>1 DEF Init, WifiInv, QueueType, IpBacked, ConnectedIsTrue, IpWorks, Attempt,
                SavedCredentialsWork

\* A driver step that ends a join or a link posts the loss of it.
LEMMA LossPosted ==
    ASSUME WifiInv, link' = Idle, Post(Disconnected),
           UNCHANGED <<conf, shared, main>>, crossed' = crossed
    PROVE  WifiInv'
  <1> USE DEF WifiInv
  <1>1. PICK n \in Nat : /\ n = Len(queue) /\ Len(queue') = n + 1
                         /\ \A i \in 1 .. n : queue'[i] = queue[i]
                         /\ queue'[n + 1] = Disconnected /\ queue' \in Seq(Events)
    BY PostFacts, EventTypes
  <1>2. QueueType' /\ link'.state = "idle"
    BY <1>1 DEF QueueType, Links, Idle
  <1>3. IpBacked' /\ ConnectedIsTrue'
    <2>1. n + 1 \in DOMAIN queue'
      BY <1>1, <1>2, DomainFact
    <2>2. ConnectedIsTrue'
      BY <1>1, <2>1 DEF ConnectedIsTrue
    <2>3. IpBacked'
      BY <1>1, EventTypes DEF IpBacked
    <2> QED
      BY <2>2, <2>3
  <1>4. IpWorks'
    BY <1>1, <1>2, EventTypes DEF IpWorks
  <1>5. Attempt' /\ SavedCredentialsWork'
    BY <1>1, <1>2, EventTypes
       DEF Attempt, NothingLeft, AllOwn, SavedCredentialsWork, main, shared
  <1> QED
    BY <1>2, <1>3, <1>4, <1>5

LEMMA GetIpWifiInv == ASSUME WifiInv, GetIp PROVE WifiInv'
  <1> USE DEF WifiInv
  <1>0. /\ link.state = "joining" /\ link.net \in Working /\ link.net \in Networks
        /\ link'.state = "up" /\ link'.net = link.net
        /\ Post(GotIp(link.net))
        /\ UNCHANGED <<conf, retries, connected, bits, pc, cred, mode, tries, saved, trusted>>
        /\ crossed' = (crossed \/ pc \in {"cleared", "configured"})
    <2>1. link.state = "joining" /\ link' = [link EXCEPT !.state = "up"]
      BY DEF GetIp
    <2>2. link'.state = "up" /\ link'.net = link.net
      BY <2>1 DEF QueueType, Links
    <2> QED
      BY <2>1, <2>2, WifiAssumption DEF GetIp, shared, main
  <1>1. PICK n \in Nat : /\ n = Len(queue) /\ Len(queue') = n + 1
                         /\ \A i \in 1 .. n : queue'[i] = queue[i]
                         /\ queue'[n + 1] = GotIp(link.net) /\ queue' \in Seq(Events)
    BY <1>0, PostFacts, EventTypes
  <1>2. QueueType' /\ IpBacked' /\ ConnectedIsTrue'
    <2>1. link' \in Links
      BY DEF GetIp, QueueType, Links
    <2> QED
      BY <1>0, <1>1, <2>1 DEF QueueType, IpBacked, ConnectedIsTrue
  <1>3. IpWorks'
    BY <1>0, <1>1, EventTypes DEF IpWorks
  <1>4. SavedCredentialsWork'
    BY <1>0 DEF SavedCredentialsWork
  <1>5. Attempt'
    <2>1. ~crossed' => ~crossed /\ pc \notin {"cleared", "configured"}
      BY <1>0, Zenon
    <2>2. ASSUME AllOwn PROVE AllOwn'
      BY <1>0, <1>1, <2>2, EventTypes DEF AllOwn
    <2> QED
      BY <1>0, <2>1, <2>2 DEF Attempt
  <1> QED
    BY <1>2, <1>3, <1>4, <1>5

\* esp_wifi_connect leaves the station idle or joining what is configured.
LEMMA ConnectFacts ==
    ASSUME QueueType, conf \in Networks \cup {None}, link' = LinkAfterConnect
    PROVE  /\ link' \in Links
           /\ link' = link \/ (link.state = "idle" /\ link'.state = "joining" /\ link'.net = conf
                               /\ conf \in Networks)
  BY DEF LinkAfterConnect, QueueType, Links

LEMMA HandleWifiInv ==
    ASSUME WifiInv, conf \in Networks \cup {None}, Handle PROVE WifiInv'
  <1> USE DEF WifiInv
  <1>0. /\ queue # <<>> /\ queue' = Tail(queue)
        /\ UNCHANGED <<conf, pc, cred, mode, tries, saved, trusted, crossed>>
    BY DEF Handle, main
  <1>1. PICK n \in Nat : /\ Len(queue) = n + 1 /\ Len(queue') = n
                         /\ \A i \in 1 .. n : queue'[i] = queue[i + 1]
                         /\ Head(queue) = queue[1] /\ queue' \in Seq(Events)
    <2>1. /\ Len(queue) \in Nat \ {0} /\ Len(queue') = Len(queue) - 1
          /\ \A i \in 1 .. Len(queue') : queue'[i] = queue[i + 1]
          /\ Head(queue) = queue[1] /\ queue' \in Seq(Events)
      BY <1>0, TailFacts
    <2> QED
      BY <2>1
  <1>2. DOMAIN queue = 1 .. n + 1 /\ DOMAIN queue' = 1 .. n
    BY <1>1, LenProperties DEF QueueType
  <1>21. ASSUME link' = link \/ link.state = "idle" PROVE IpBacked'
    <2> SUFFICES ASSUME NEW i \in 1 .. n, IsIp(queue[i + 1]), link'.state # "up"
                 PROVE  \E j \in 1 .. n : j > i /\ queue'[j] = Disconnected
      BY <1>1 DEF IpBacked
    <2>1. link.state # "up"
      BY <1>21
    <2>2. i + 1 \in 1 .. Len(queue)
      BY <1>1
    <2>3. PICK j \in 1 .. n + 1 : j > i + 1 /\ queue[j] = Disconnected
      BY <1>1, <2>1, <2>2 DEF IpBacked
    <2>4. j - 1 \in 1 .. n /\ j - 1 > i /\ queue'[j - 1] = queue[(j - 1) + 1] /\ (j - 1) + 1 = j
      BY <1>1, <2>3
    <2> QED
      BY <2>3, <2>4
  <1>22. ASSUME NEW j \in 1 .. n + 1, j # 1, queue[j] = Disconnected
         PROVE  j - 1 \in DOMAIN queue' /\ queue'[j - 1] = Disconnected
    <2>1. j - 1 \in 1 .. n /\ queue'[j - 1] = queue[(j - 1) + 1] /\ (j - 1) + 1 = j
      BY <1>1, <1>22
    <2> QED
      BY <1>2, <1>22, <2>1
  <1>3. CASE OnStart \/ OnDisconnected
    <2>1. /\ ~IsIp(queue[1])
          /\ link' \in Links
          /\ link' = link \/ (link.state = "idle" /\ link'.state = "joining" /\ link'.net = conf
                              /\ conf \in Networks)
          /\ connected' = connected \/ connected' = FALSE
          /\ OnStart => connected' = connected /\ queue[1] # Disconnected
          /\ OnDisconnected => connected' = FALSE
          /\ "GOT_IP" \in bits' <=> "GOT_IP" \in bits
      <3>1. CASE OnStart
        BY <1>1, <3>1, ConnectFacts DEF OnStart, IsIp, shared, Disconnected, OnDisconnected
      <3>2. CASE OnDisconnected
        <4>1. link' = link \/ link' = LinkAfterConnect
          BY <3>2 DEF OnDisconnected
        <4>2. link' \in Links /\ (link' = link \/ (link.state = "idle" /\ link'.state = "joining"
                                                 /\ link'.net = conf /\ conf \in Networks))
          BY <4>1, ConnectFacts DEF QueueType
        <4> QED
          BY <1>1, <3>2, <4>2 DEF OnDisconnected, OnStart, IsIp, FlagAfterLoss
      <3> QED
        BY <1>3, <3>1, <3>2
    <2>2. QueueType' /\ IpWorks'
      BY <1>1, <2>1 DEF QueueType, IpWorks
    <2>3. IpBacked'
      BY <2>1, <1>21
    <2>4. ConnectedIsTrue'
      <3> SUFFICES ASSUME connected, OnStart PROVE ConnectedIsTrue'
        BY <1>3, <2>1 DEF ConnectedIsTrue
      <3>1. CASE link.state = "up"
        BY <2>1, <3>1 DEF ConnectedIsTrue
      <3>2. CASE \E j \in DOMAIN queue : queue[j] = Disconnected
        BY <1>2, <1>22, <2>1, <3>2 DEF ConnectedIsTrue
      <3> QED
        BY <3>1, <3>2 DEF ConnectedIsTrue
    <2>5. Attempt' /\ SavedCredentialsWork'
      BY <1>0, <1>1, <2>1 DEF Attempt, NothingLeft, AllOwn, SavedCredentialsWork
    <2> QED
      BY <2>2, <2>3, <2>4, <2>5
  <1>4. CASE OnGotIp
    <2>1. IsIp(queue[1]) /\ link' = link /\ "GOT_IP" \in bits' /\ connected' = TRUE
      BY <1>1, <1>4 DEF OnGotIp, IsIp
    <2>2. QueueType' /\ IpWorks' /\ IpBacked'
      BY <1>1, <1>21, <2>1 DEF QueueType, IpWorks
    <2>3. ConnectedIsTrue'
      <3>1. \/ link.state = "up"
            \/ \E j \in 1 .. n + 1 : j > 1 /\ queue[j] = Disconnected
        BY <1>1, <2>1 DEF IpBacked
      <3>2. CASE link.state = "up"
        BY <2>1, <3>2 DEF ConnectedIsTrue
      <3>3. CASE \E j \in 1 .. n + 1 : j > 1 /\ queue[j] = Disconnected
        <4>1. PICK j \in 1 .. n + 1 : j # 1 /\ queue[j] = Disconnected
          BY <3>3
        <4> QED
          BY <1>22, <4>1 DEF ConnectedIsTrue
      <3> QED
        BY <3>1, <3>2, <3>3
    <2>4. Attempt' /\ SavedCredentialsWork'
      BY <1>0, <1>1, <2>1 DEF Attempt, NothingLeft, AllOwn, IpWorks, SavedCredentialsWork
    <2> QED
      BY <2>2, <2>3, <2>4
  <1> QED
    BY <1>3, <1>4 DEF Handle

\* The steps of main that leave the driver, the queue and the flag alone.
LEMMA QuietMain ==
    ASSUME WifiInv, UNCHANGED <<link, queue>>, connected' = connected \/ connected' = FALSE
    PROVE  QueueType' /\ IpBacked' /\ ConnectedIsTrue' /\ IpWorks'
  BY DEF WifiInv, QueueType, IpBacked, ConnectedIsTrue, IpWorks

LEMMA MainWifiInv ==
    ASSUME WifiInv, conf \in Networks \cup {None}, MainStep PROVE WifiInv'
  <1> USE DEF WifiInv, GoTo, driver, shared, bounds
  <1>1. CASE Reset
    BY <1>1, QuietMain DEF Reset, Attempt, SavedCredentialsWork
  <1>2. CASE ClearBits
    <2>1. crossed' = \E i \in 1 .. Len(queue) : IsIp(queue[i])
      BY <1>2, DomainFact DEF ClearBits, IsIp
    <2> QED
      BY <1>2, <2>1, QuietMain
         DEF ClearBits, BitsCleared, Attempt, NothingLeft, SavedCredentialsWork
  <1>3. CASE SetConfig
    BY <1>3, QuietMain DEF SetConfig, Attempt, NothingLeft, SavedCredentialsWork
  <1>4. CASE SetConfigRefused
    BY <1>4, QuietMain DEF SetConfigRefused, Attempt, SavedCredentialsWork
  <1>5. CASE Disconnect
    <2>1. CASE link.state = "idle"
      BY <1>5, <2>1, QuietMain DEF Disconnect, Attempt, NothingLeft, AllOwn, SavedCredentialsWork
    <2>2. CASE link.state # "idle"
      <3>1. /\ link' = Idle /\ Post(Disconnected)
            /\ UNCHANGED <<conf, retries, connected, bits, cred, saved, crossed, trusted>>
            /\ pc = "configured" /\ pc' = "disconnected"
        BY <1>5, <2>2 DEF Disconnect
      <3>2. PICK n \in Nat : /\ n = Len(queue) /\ Len(queue') = n + 1
                             /\ \A i \in 1 .. n : queue'[i] = queue[i]
                             /\ queue'[n + 1] = Disconnected /\ queue' \in Seq(Events)
        BY <3>1, PostFacts, EventTypes
      <3>3. QueueType' /\ link'.state = "idle"
        BY <3>1, <3>2 DEF QueueType, Links, Idle
      <3>4. n + 1 \in DOMAIN queue'
        BY <3>2, <3>3, DomainFact
      <3>5. IpBacked' /\ IpWorks'
        BY <3>2, <3>3, EventTypes DEF IpBacked, IpWorks
      <3>6. ConnectedIsTrue'
        BY <3>2, <3>4 DEF ConnectedIsTrue
      <3>7. Attempt' /\ SavedCredentialsWork'
        BY <3>1, <3>2, <3>3, EventTypes DEF Attempt, NothingLeft, AllOwn, SavedCredentialsWork
      <3> QED
        BY <3>3, <3>5, <3>6, <3>7
    <2> QED
      BY <2>1, <2>2
  <1>6. CASE Connect
    <2>1. /\ link' \in Links
          /\ link' = link \/ (link.state = "idle" /\ link'.state = "joining" /\ link'.net = conf
                              /\ conf \in Networks)
      BY <1>6, ConnectFacts DEF Connect
    <2>2. /\ UNCHANGED <<conf, queue, retries, connected, bits, cred, saved, crossed, trusted>>
          /\ pc = "disconnected" /\ pc' \in {"wait", "failed"}
      BY <1>6 DEF Connect
    <2>3. QueueType' /\ IpBacked' /\ ConnectedIsTrue' /\ IpWorks'
      BY <2>1, <2>2 DEF QueueType, IpBacked, ConnectedIsTrue, IpWorks
    <2>4. Attempt' /\ SavedCredentialsWork'
      BY <2>1, <2>2 DEF Attempt, AllOwn, SavedCredentialsWork
    <2> QED
      BY <2>3, <2>4
  <1>7. CASE WaitEnds
    BY <1>7, QuietMain DEF WaitEnds, Attempt, AllOwn, SavedCredentialsWork
  <1>8. CASE Load
    BY <1>8, QuietMain DEF Load, Attempt, SavedCredentialsWork
  <1>9. CASE Pick
    BY <1>9, QuietMain DEF Pick, Attempt, SavedCredentialsWork
  <1>10. CASE Joined
    <2>1. trusted' => (trusted /\ saved' = saved) \/ (~crossed /\ saved' = cred)
      BY <1>10, Zenon DEF Joined
    <2>2. SavedCredentialsWork'
      BY <1>10, <2>1 DEF Joined, Attempt, SavedCredentialsWork
    <2> QED
      BY <1>10, <2>2, QuietMain DEF Joined, Attempt
  <1>11. CASE Failed
    BY <1>11, QuietMain DEF Failed, Attempt, SavedCredentialsWork
  <1> QED
    BY <1>1, <1>2, <1>3, <1>4, <1>5, <1>6, <1>7, <1>8, <1>9, <1>10, <1>11 DEF MainStep

LEMMA RebootWifiInv == ASSUME WifiInv, Reboot PROVE WifiInv'
  <1>1. /\ queue' \in Seq(Events) /\ Len(queue') = 1 /\ ~IsIp(queue'[1])
        /\ link' \in Links /\ link'.state = "idle"
    BY DEF Reboot, Events, IsIp, Idle, Links
  <1> QED
    BY <1>1 DEF Reboot, WifiInv, QueueType, IpBacked, ConnectedIsTrue, IpWorks, Attempt,
                SavedCredentialsWork

\* What is configured, tried and saved are networks.
CredentialTypes == {conf, cred, saved} \subseteq Networks \cup {None}
                   /\ (pc \notin {"load", "pick", "done"} => cred \in Networks)

LEMMA NextCredentials ==
    ASSUME CredentialTypes, [Next]_vars PROVE CredentialTypes'
  BY DEF CredentialTypes, Next, Driver, GetIp, JoinFails, LinkLost, Handle, MainStep, Reset,
         ClearBits, SetConfig, SetConfigRefused, Disconnect, Connect, WaitEnds, Load, Pick,
         Joined, Failed, Reboot, GoTo, vars, driver, shared, main, bounds

LEMMA NextWifiInv ==
    ASSUME WifiInv, CredentialTypes, [Next]_vars PROVE WifiInv'
  <1>1. conf \in Networks \cup {None}
    BY DEF CredentialTypes
  <1>2. CASE JoinFails \/ LinkLost
    BY <1>2, LossPosted DEF JoinFails, LinkLost
  <1>3. CASE UNCHANGED vars
    BY <1>3 DEF vars, driver, shared, main, bounds, WifiInv, QueueType, IpBacked, ConnectedIsTrue,
                IpWorks, Attempt, NothingLeft, AllOwn, SavedCredentialsWork
  <1> QED
    BY <1>1, <1>2, <1>3, GetIpWifiInv, HandleWifiInv, MainWifiInv, RebootWifiInv
       DEF Next, Driver

THEOREM WifiInvariant == Spec => [](WifiInv /\ CredentialTypes)
  <1>1. Init => WifiInv /\ CredentialTypes
    BY InitWifiInv, WifiAssumption DEF Init, CredentialTypes
  <1>2. WifiInv /\ CredentialTypes /\ [Next]_vars => (WifiInv /\ CredentialTypes)'
    BY NextWifiInv, NextCredentials
  <1> QED
    BY <1>1, <1>2, PTL DEF Spec

\* wifi_is_connected is true only of a link that is up or just lost.
THEOREM ConnectedFlagIsTrue == Spec => []ConnectedIsTrue
  BY WifiInvariant, PTL DEF WifiInv

\* Credentials written without an IP coming in across attempts do work.
THEOREM SavedAfterIp == Spec => []SavedCredentialsWork
  BY WifiInvariant, PTL DEF WifiInv

(***************************************************************************)
(* Types.  The counter of attempts needs to know where it is looked at.    *)
(***************************************************************************)
TypeInv == WifiTypeOK /\ (mode = "saved" /\ pc # "pick" => tries < Attempts)

LEMMA InitTypeInv == Init => TypeInv
<1> SUFFICES ASSUME Init PROVE TypeInv
  OBVIOUS
<1>1. queue \in Seq(Events) /\ Len(queue) = 1
  BY DEF Init, Events
<1>2. /\ conf \in Networks \cup {None} /\ saved \in Networks \cup {None} /\ cred = None
      /\ retries \in 0 .. Retries /\ tries \in 0 .. Attempts /\ tries < Attempts
      /\ link = Idle /\ bits = {} /\ pc = "load" /\ mode = "saved"
  BY WifiAssumption DEF Init
<1>3. connected \in BOOLEAN /\ crossed \in BOOLEAN /\ trusted \in BOOLEAN
  BY Zenon DEF Init
<1>4. QED
  BY <1>1, <1>2, <1>3, WifiAssumption DEF TypeInv, WifiTypeOK

\* The steps of the driver and of the handler change nothing of the main task.
LEMMA BelowTypeInv ==
    ASSUME TypeInv, Driver \/ LinkLost \/ Handle PROVE TypeInv'
<1> USE WifiAssumption
<1> DEFINE Stations == [state : {"joining", "up"}, net : Networks] \cup {Idle}
<1>0. /\ link \in Stations /\ queue \in Seq(Events) /\ Len(queue) \in 0 .. QueueSize
      /\ retries \in 0 .. Retries /\ connected \in BOOLEAN /\ bits \subseteq {"GOT_IP", "FAIL"}
      /\ conf \in Networks \cup {None} /\ crossed \in BOOLEAN
  BY DEF TypeInv, WifiTypeOK
<1>1. ASSUME link' \in Stations, queue' \in Seq(Events), Len(queue') <= QueueSize,
             retries' \in 0 .. Retries, connected' \in BOOLEAN, bits' \subseteq {"GOT_IP", "FAIL"},
             crossed' \in BOOLEAN, UNCHANGED <<conf, main>>
      PROVE  TypeInv'
  BY <1>1 DEF TypeInv, WifiTypeOK, main
<1>2. ASSUME NEW e \in Events, Post(e)
      PROVE  queue' \in Seq(Events) /\ Len(queue') <= QueueSize
  BY <1>0, <1>2 DEF Post
<1>3. LinkAfterConnect \in Stations
  BY <1>0 DEF LinkAfterConnect
<1>4. CASE GetIp
  <2>1. link.state = "joining" /\ link.net \in Networks
    BY <1>0, <1>4 DEF GetIp, Idle
  <2>2. link' \in Stations
    BY <1>0, <1>4, <2>1 DEF GetIp, Idle
  <2>3. GotIp(link.net) \in Events
    BY <2>1, EventTypes
  <2>4. crossed' \in BOOLEAN
    BY <1>4, <1>0 DEF GetIp
  <2>5. QED
    BY <1>0, <1>1, <1>2, <1>4, <2>2, <2>3, <2>4 DEF GetIp, shared
<1>5. CASE JoinFails \/ LinkLost
  BY <1>0, <1>1, <1>2, <1>5, EventTypes DEF JoinFails, LinkLost, shared
<1>6. CASE Handle
  <2>1. queue' \in Seq(Events) /\ Len(queue') <= QueueSize
    BY <1>0, <1>6, HeadTailProperties DEF Handle
  <2>2. CASE OnStart
    BY <1>0, <1>1, <1>3, <1>6, <2>1, <2>2 DEF Handle, OnStart, shared
  <2>3. CASE OnDisconnected
    <3>1. CASE MayRetry
      <4>1. retries' = retries + 1 /\ link' = LinkAfterConnect /\ bits' = bits
        BY <2>3, <3>1 DEF OnDisconnected
      <4>2. retries' \in 0 .. Retries
        BY <1>0, <3>1, <4>1 DEF MayRetry
      <4>3. QED
        BY <1>0, <1>1, <1>3, <1>6, <2>1, <2>3, <4>1, <4>2
           DEF Handle, OnDisconnected, FlagAfterLoss
    <3>2. CASE ~MayRetry
      <4>1. retries' = retries /\ link' = link /\ bits' = bits \cup {"FAIL"}
        BY <2>3, <3>2 DEF OnDisconnected
      <4>2. QED
        BY <1>0, <1>1, <1>6, <2>1, <2>3, <4>1 DEF Handle, OnDisconnected, FlagAfterLoss
    <3>3. QED
      BY <3>1, <3>2
  <2>4. CASE OnGotIp
    BY <1>0, <1>1, <1>6, <2>1, <2>4 DEF Handle, OnGotIp, RetriesAfterIp
  <2>5. QED
    BY <1>6, <2>2, <2>3, <2>4 DEF Handle
<1>7. QED
  BY <1>4, <1>5, <1>6 DEF Driver

LEMMA NextTypeInv == TypeInv /\ [Next]_vars => TypeInv'
<1> SUFFICES ASSUME TypeInv, [Next]_vars PROVE TypeInv'
  OBVIOUS
<1> USE WifiAssumption
<1>1. CASE Driver \/ LinkLost \/ Handle
  BY <1>1, BelowTypeInv
<1> USE DEF TypeInv, WifiTypeOK, driver, shared, bounds, GoTo
<1>2. CASE Reset \/ ClearBits
  <2>1. retries' \in 0 .. Retries /\ bits' \subseteq {"GOT_IP", "FAIL"}
        /\ pc' \in {"reset", "cleared"} /\ pc # "pick"
        /\ UNCHANGED <<conf, link, queue, cred, mode, tries, saved>>
    <3>1. CASE Reset
      BY <3>1 DEF Reset
    <3>2. CASE ClearBits
      BY <3>2 DEF ClearBits, BitsCleared
    <3>3. QED
      BY <1>2, <3>1, <3>2
  <2>2. connected' \in BOOLEAN /\ crossed' \in BOOLEAN /\ trusted' \in BOOLEAN
    BY <1>2, Zenon DEF Reset, ClearBits
  <2>3. QED
    BY <2>1, <2>2
<1>21. CASE SetConfig \/ SetConfigRefused
  <2>1. /\ conf' \in {conf, cred} /\ pc' \in {"configured", "failed"} /\ pc # "pick"
        /\ connected' \in BOOLEAN /\ crossed' \in BOOLEAN /\ trusted' \in BOOLEAN
        /\ UNCHANGED <<link, queue, retries, bits, cred, mode, tries, saved>>
    BY <1>21 DEF SetConfig, SetConfigRefused
  <2>2. QED
    BY <2>1
<1>3. CASE Disconnect
  <2>1. queue' \in Seq(Events) /\ Len(queue') <= QueueSize
    BY <1>3, EventTypes DEF Disconnect, Post
  <2>2. QED
    BY <1>3, <2>1 DEF Disconnect
<1>4. CASE Connect
  BY <1>4 DEF Connect, LinkAfterConnect
<1>5. CASE WaitEnds
  BY <1>5 DEF WaitEnds
<1>51. CASE Load
  BY <1>51 DEF Load
<1>52. CASE Pick
  BY <1>52 DEF Pick
<1>6. CASE Joined
  BY <1>6 DEF Joined
<1>7. CASE Failed
  BY <1>7 DEF Failed
<1>8. CASE Reboot
  <2>1. queue' \in Seq(Events) /\ Len(queue') <= QueueSize
    BY <1>8 DEF Reboot, Events
  <2>2. /\ retries' = 0 /\ tries' = 0 /\ link' = Idle /\ bits' = {} /\ connected' \in BOOLEAN
        /\ crossed' \in BOOLEAN /\ trusted' \in BOOLEAN /\ pc' = "load" /\ cred' = None /\ mode' = "saved"
        /\ saved' \in {saved, None} /\ conf' = conf
    BY <1>8 DEF Reboot
  <2>3. QED
    BY <2>1, <2>2
<1>9. CASE UNCHANGED vars
  BY <1>9 DEF vars, main
<1>10. QED
  BY <1>1, <1>2, <1>21, <1>3, <1>4, <1>5, <1>51, <1>52, <1>6, <1>7, <1>8, <1>9 DEF Next, MainStep

\* The handler makes no more reconnects than it may, the loop of screen_wifi no
\* more attempts with saved credentials than it may, and no credentials or
\* events come from elsewhere (wifi.c:31-49, main.c:71-138).
THEOREM WifiTypes == Spec => []WifiTypeOK
<1>1. TypeInv => WifiTypeOK
  BY DEF TypeInv
<1>2. QED
  BY InitTypeInv, NextTypeInv, <1>1, PTL DEF Spec

(***************************************************************************)
(* Why a device in use rejoins (Rejoins).  Once an IP of the attempt has   *)
(* come in, every loss of the link is posted behind it, and a loss that is *)
(* handled starts a reconnect as long as retries are left.  Each IP gives  *)
(* all retries back, so those used up and those the waiting losses will    *)
(* use are no more than the joins that failed since, and one.              *)
(***************************************************************************)
InUse == pc \in {"disconnected", "wait", "joined", "done"} /\ ~crossed /\ conf \in Working

HadIp == "GOT_IP" \in bits \/ \E i \in 1 .. Len(queue) : IsIp(queue[i])

\* The last IP waits at position k, or none waits (0): losses follow.
LastIp(k) ==
    /\ k # 0 => IsIp(queue[k])
    /\ \A j \in k + 1 .. Len(queue) : queue[j] = Disconnected

Used(k) == IF k = 0 THEN retries ELSE 0

Spare(k) ==
    /\ link.state = "up" => Len(queue) = k /\ Used(k) = 0
    /\ link.state # "up" => Used(k) + (Len(queue) - k) <= fails + 1
    /\ link.state = "idle" => k < Len(queue)

RetryInv ==
    /\ fails \in 0 .. MaxFails
    /\ pc \in {"joined", "done"} => "GOT_IP" \in bits
    /\ pc \in {"cleared", "configured"} /\ ~crossed => ~HadIp
    /\ InUse => link.state = "idle" \/ link.net = conf
    /\ InUse /\ HadIp => \E k \in 0 .. Len(queue) : LastIp(k) /\ Spare(k)

\* The link of a device in use is up or being joined, or its loss waits to be
\* handled with a retry left for it.
Rejoining ==
    pc = "done" /\ ~crossed /\ conf \in Working /\ link.state = "idle" =>
        \E i \in 1 .. Len(queue) :
            /\ queue[i] = Disconnected
            /\ retries < Retries \/ \E j \in 1 .. i : IsIp(queue[j])

LEMMA RetryTypes ==
    ASSUME TypeInv, WifiInv
    PROVE  /\ Len(queue) \in Nat /\ retries \in Nat /\ queue \in Seq(Events) /\ link \in Links
           /\ MaxFails \in Nat /\ Retries \in Nat
  BY WifiAssumption DEF TypeInv, WifiTypeOK, WifiInv, QueueType

\* An IP is posted: it is the last, and nothing follows it.
LEMMA GetIpRetry == ASSUME TypeInv, WifiInv, RetryInv, GetIp PROVE RetryInv'
  <1> DEFINE n == Len(queue)
  <1>1. /\ link.state = "joining" /\ Post(GotIp(link.net)) /\ link.net \in Networks
        /\ link' = [link EXCEPT !.state = "up"] /\ fails' = 0
        /\ crossed' = (crossed \/ pc \in {"cleared", "configured"})
        /\ UNCHANGED <<conf, retries, connected, bits, pc>>
    BY WifiAssumption DEF GetIp, shared, main
  <1>2. /\ n \in Nat /\ Len(queue') = n + 1 /\ queue'[n + 1] = GotIp(link.net)
        /\ link'.state = "up" /\ link'.net = link.net
    BY <1>1, RetryTypes, PostFacts, EventTypes DEF WifiInv, Links
  <1>3. PICK k \in Nat : k = n + 1
    BY <1>2
  <1>4. LastIp(k)' /\ Spare(k)'
    <2>1. \A j \in k + 1 .. Len(queue') : FALSE
      BY <1>2, <1>3
    <2>2. IsIp(queue'[k])
      BY <1>1, <1>2, <1>3, EventTypes
    <2> QED
      BY <1>2, <1>3, <2>1, <2>2 DEF LastIp, Spare, Used
  <1>5. k \in 0 .. Len(queue')
    BY <1>2, <1>3
  <1>6. InUse' => link'.net = conf'
    BY <1>1, <1>2 DEF RetryInv, InUse
  <1>7. pc' \in {"cleared", "configured"} => crossed'
    BY <1>1
  <1> QED
    BY <1>1, <1>4, <1>5, <1>6, <1>7, WifiAssumption DEF RetryInv
\* A loss is posted, behind all the others.
LEMMA LossRetry == ASSUME TypeInv, WifiInv, RetryInv, JoinFails \/ LinkLost PROVE RetryInv'
  <1> DEFINE n == Len(queue)
  <1>1. /\ link.state # "idle" /\ link' = Idle /\ Post(Disconnected)
        /\ \/ link.state = "joining" /\ fails < MaxFails /\ fails' = fails + 1
           \/ link.state = "joining" /\ link.net \notin Working /\ fails' = fails
           \/ link.state = "up" /\ fails' = fails
        /\ UNCHANGED <<conf, retries, bits, pc, crossed>>
    BY DEF JoinFails, LinkLost, shared, main
  <1>2. /\ n \in Nat /\ Len(queue') = n + 1 /\ queue'[n + 1] = Disconnected
        /\ \A i \in 1 .. n : queue'[i] = queue[i]
    BY <1>1, PostFacts, EventTypes DEF WifiInv
  <1>3. fails \in Nat /\ fails <= MaxFails /\ fails' \in 0 .. MaxFails /\ fails' \in Nat
    BY <1>1, RetryTypes DEF RetryInv
  <1>4. HadIp' => HadIp
    <2> SUFFICES ASSUME NEW i \in 1 .. n + 1, IsIp(queue'[i]) PROVE HadIp
      BY <1>1, <1>2 DEF HadIp
    <2>1. i # n + 1
      BY <1>2, EventTypes
    <2>2. i \in 1 .. n /\ IsIp(queue[i])
      BY <1>2, <2>1
    <2> QED
      BY <2>2 DEF HadIp
  <1>5. ASSUME InUse', HadIp' PROVE \E k \in 0 .. Len(queue') : LastIp(k)' /\ Spare(k)'
    <2>1. InUse /\ HadIp
      BY <1>1, <1>4, <1>5 DEF InUse
    <2>2. PICK k \in 0 .. n : LastIp(k) /\ Spare(k)
      BY <2>1 DEF RetryInv
    <2>3. LastIp(k)'
      <3>1. k # 0 => IsIp(queue'[k])
        BY <1>2, <2>2 DEF LastIp
      <3>2. ASSUME NEW j \in k + 1 .. n + 1 PROVE queue'[j] = Disconnected
        <4>1. j = n + 1 \/ (j \in k + 1 .. n /\ j \in 1 .. n)
          BY <1>2
        <4> QED
          BY <1>2, <2>2, <4>1 DEF LastIp
      <3> QED
        BY <1>2, <3>1, <3>2 DEF LastIp
    <2>4. Used(k)' = Used(k) /\ Used(k) \in Nat
      BY <1>1, RetryTypes DEF Used
    <2>5. Used(k) + ((n + 1) - k) <= fails' + 1
      <3>1. CASE link.state = "up"
        BY <1>1, <1>2, <1>3, <2>2, <3>1 DEF Spare
      <3>2. CASE link.state # "up"
        <4>1. link.net = conf
          BY <1>1, <2>1 DEF RetryInv
        <4>2. fails' = fails + 1
          BY <1>1, <2>1, <3>2, <4>1 DEF InUse
        <4>3. Used(k) + (n - k) <= fails + 1
          BY <2>2, <3>2 DEF Spare
        <4> QED
          BY <1>2, <1>3, <2>4, <4>2, <4>3
      <3> QED
        BY <3>1, <3>2
    <2>6. Spare(k)'
      BY <1>1, <1>2, <2>4, <2>5 DEF Spare, Idle
    <2> QED
      BY <1>2, <2>3, <2>6
  <1>6. InUse' => link'.state = "idle" \/ link'.net = conf'
    BY <1>1 DEF Idle
  <1> QED
    BY <1>1, <1>3, <1>4, <1>5, <1>6 DEF RetryInv

\* The handler takes the first event: a loss behind the last IP finds a retry.
LEMMA HandleRetry ==
    ASSUME MaxFails < Retries, TypeInv, WifiInv, RetryInv, Handle PROVE RetryInv'
  <1> DEFINE n == Len(queue)
  <1>1. /\ queue # <<>> /\ queue' = Tail(queue)
        /\ OnStart \/ OnDisconnected \/ OnGotIp
        /\ UNCHANGED <<conf, pc, crossed, fails>>
    BY DEF Handle, main, bounds
  <1>2. /\ n \in Nat \ {0} /\ Len(queue') = n - 1 /\ Head(queue) = queue[1]
        /\ \A i \in 1 .. n - 1 : queue'[i] = queue[i + 1]
    BY <1>1, TailFacts DEF WifiInv
  <1>3. /\ bits \subseteq bits'
        /\ IsIp(queue[1]) <=> OnGotIp
        /\ IsIp(queue[1]) => retries' = 0 /\ link' = link /\ "GOT_IP" \in bits'
        /\ "GOT_IP" \in bits' => "GOT_IP" \in bits \/ IsIp(queue[1])
        /\ OnStart => retries' = retries /\ link' = LinkAfterConnect
        /\ OnDisconnected => \/ /\ retries < Retries /\ retries' = retries + 1
                                /\ link' = LinkAfterConnect
                             \/ retries >= Retries /\ retries' = retries /\ link' = link
    BY <1>1, <1>2, RetryTypes
       DEF OnStart, OnDisconnected, OnGotIp, IsIp, RetriesAfterIp, MayRetry, shared
  <1>4. HadIp' => HadIp
    <2> SUFFICES ASSUME NEW i \in 1 .. n - 1, IsIp(queue'[i]) PROVE HadIp
      BY <1>2, <1>3 DEF HadIp
    <2>1. i + 1 \in 1 .. n /\ IsIp(queue[i + 1])
      BY <1>2
    <2> QED
      BY <2>1 DEF HadIp
  <1>5. InUse' => InUse /\ conf # None
    BY <1>1, WifiAssumption DEF InUse
  <1>6. ASSUME InUse PROVE link' = link \/ (link.state = "idle" /\ link'.state = "joining" /\ link'.net = conf)
    BY <1>1, <1>3, <1>5, <1>6, WifiAssumption DEF LinkAfterConnect, InUse
  <1>7. ASSUME InUse', HadIp' PROVE \E k \in 0 .. Len(queue') : LastIp(k)' /\ Spare(k)'
    <2>1. InUse /\ HadIp /\ conf # None
      BY <1>4, <1>5, <1>7
    <2>2. PICK k \in 0 .. n : LastIp(k) /\ Spare(k)
      BY <2>1 DEF RetryInv
    <2>3. fails \in Nat /\ fails <= MaxFails /\ retries \in Nat /\ retries' \in Nat
          /\ MaxFails \in Nat /\ Retries \in Nat
      BY <1>1, <1>3, RetryTypes DEF RetryInv
    <2>4. ASSUME NEW h \in 0 .. n - 1, LastIp(h + 1) PROVE h # 0 => LastIp(h)'
      <3>1. h # 0 => IsIp(queue'[h])
        BY <1>2, <2>4 DEF LastIp
      <3>2. ASSUME NEW j \in h + 1 .. n - 1 PROVE queue'[j] = Disconnected
        <4>1. j \in 1 .. n - 1 /\ j + 1 \in (h + 1) + 1 .. n
          BY <1>2
        <4> QED
          BY <1>2, <2>4, <4>1 DEF LastIp
      <3> QED
        BY <1>2, <3>1, <3>2 DEF LastIp
    \* No IP waits: the first event is a loss, and a retry is left for it.
    <2>5. CASE k = 0
      <3>1. queue[1] = Disconnected /\ ~IsIp(queue[1])
        BY <1>2, <2>2, <2>5, EventTypes DEF LastIp
      <3>2. OnDisconnected
        BY <1>1, <1>2, <1>3, <3>1 DEF OnStart, Disconnected
      <3>3. link.state # "up" /\ retries + n <= fails + 1
        BY <1>2, <2>2, <2>5 DEF Spare, Used
      <3>4. retries < Retries
        BY <1>2, <2>3, <3>3
      <3>5. retries' = retries + 1 /\ link'.state # "up" /\ link'.state # "idle"
        BY <1>3, <2>1, <2>3, <3>2, <3>3, <3>4, RetryTypes DEF LinkAfterConnect, Links
      <3>6. LastIp(0)'
        BY <1>2, <2>2, <2>5 DEF LastIp
      <3>7. retries' + (n - 1) <= fails' + 1
        BY <1>1, <1>2, <2>3, <3>3, <3>5
      <3>8. Spare(0)'
        BY <1>2, <3>5, <3>7 DEF Spare, Used
      <3> QED
        BY <1>2, <3>6, <3>8
    \* The last IP moves up, or is handled and gives all retries back.
    <2>6. CASE k # 0
      <3> DEFINE h == k - 1
      <3>1. h \in 0 .. n - 1 /\ k = h + 1 /\ h \in Nat
        BY <1>2, <2>6
      <3>2. Used(k) = 0 /\ (h = 0 => IsIp(queue[1]) /\ retries' = 0)
        BY <1>3, <2>2, <2>6 DEF Used, LastIp
      <3>3. Used(h)' = 0
        BY <3>2 DEF Used
      <3>4. LastIp(h)'
        <4>1. CASE h # 0
          BY <2>2, <2>4, <3>1, <4>1
        <4>2. CASE h = 0
          <5>1. k = 1
            BY <3>1, <4>2
          <5>2. ASSUME NEW j \in 1 .. n - 1 PROVE queue'[j] = Disconnected
            <6>1. j + 1 \in 1 + 1 .. n
              BY <1>2
            <6> QED
              BY <1>2, <2>2, <5>1, <6>1 DEF LastIp
          <5> QED
            BY <1>2, <4>2, <5>2 DEF LastIp
        <4> QED
          BY <4>1, <4>2
      <3>5. Spare(h)'
        <4>1. Len(queue') = n - 1 /\ (n - 1) - h = n - k /\ n - k \in Int
          BY <1>2, <3>1
        <4>2. link' = link \/ (link.state = "idle" /\ link'.state = "joining")
          BY <1>6, <2>1
        <4>3. /\ link.state = "up" => n = k
              /\ link.state # "up" => n - k <= fails + 1
              /\ link.state = "idle" => k < n
          BY <1>2, <2>2, <2>3, <3>2, <4>1 DEF Spare
        <4>4. /\ link'.state = "up" <=> link.state = "up"
              /\ link'.state = "idle" => link.state = "idle"
          BY <4>2
        <4>5. fails' = fails /\ Used(h)' + (Len(queue') - h) = n - k
          BY <1>1, <1>2, <3>1, <3>3, <4>1
        <4>6. link.state = "up" => Len(queue') = h
          BY <1>2, <3>1, <4>1, <4>3
        <4>7. link.state = "idle" => h < Len(queue')
          BY <1>2, <3>1, <4>1, <4>3
        <4> QED
          BY <3>3, <4>3, <4>4, <4>5, <4>6, <4>7 DEF Spare
      <3> QED
        BY <1>2, <3>1, <3>4, <3>5
    <2> QED
      BY <2>5, <2>6
  <1>8. ASSUME InUse' PROVE link'.state = "idle" \/ link'.net = conf'
    BY <1>1, <1>5, <1>6, <1>8 DEF RetryInv
  <1>9. pc' \in {"joined", "done"} => "GOT_IP" \in bits'
    BY <1>1, <1>3 DEF RetryInv
  <1> QED
    BY <1>1, <1>4, <1>7, <1>8, <1>9 DEF RetryInv

\* The main task enters an attempt with nothing under way but its own join.
LEMMA MainRetry == ASSUME TypeInv, WifiInv, CredentialTypes, RetryInv, MainStep PROVE RetryInv'
  <1>1. UNCHANGED fails /\ fails \in 0 .. MaxFails
    BY DEF RetryInv, MainStep, Reset, ClearBits, SetConfig, SetConfigRefused, Disconnect, Connect,
           WaitEnds, Load, Pick, Joined, Failed, bounds
  <1>2. CASE Reset \/ SetConfigRefused \/ Load \/ Pick \/ Failed
    BY <1>1, <1>2 DEF Reset, SetConfigRefused, Load, Pick, Failed, GoTo, RetryInv, InUse
  <1>3. CASE ClearBits
    <2>1. ~crossed' => ~HadIp'
      <3>1. bits' = {} /\ queue' = queue /\ crossed' = (\E i \in DOMAIN queue : queue[i].kind = "ip")
        BY <1>3 DEF ClearBits, BitsCleared
      <3>2. DOMAIN queue = 1 .. Len(queue)
        BY DomainFact DEF WifiInv
      <3> QED
        BY <3>1, <3>2 DEF HadIp, IsIp
    <2> QED
      BY <1>1, <1>3, <2>1 DEF ClearBits, GoTo, RetryInv, InUse
  <1>4. CASE SetConfig
    BY <1>1, <1>4 DEF SetConfig, GoTo, RetryInv, InUse, HadIp, shared
  <1>5. CASE Disconnect
    <2>1. /\ pc = "configured" /\ pc' = "disconnected" /\ link'.state = "idle"
          /\ \/ queue' = queue
             \/ Post(Disconnected)
          /\ UNCHANGED <<bits, crossed>>
      BY <1>5 DEF Disconnect, GoTo, shared, Idle
    <2>2. ~crossed => ~HadIp'
      <3>1. CASE queue' = queue
        BY <2>1, <3>1 DEF RetryInv, HadIp
      <3>2. CASE Post(Disconnected)
        <4>1. /\ Len(queue) \in Nat /\ Len(queue') = Len(queue) + 1
              /\ queue'[Len(queue) + 1] = Disconnected
              /\ \A i \in 1 .. Len(queue) : queue'[i] = queue[i]
          BY <3>2, PostFacts, EventTypes DEF WifiInv
        <4>2. ASSUME ~crossed, NEW i \in 1 .. Len(queue) + 1 PROVE ~IsIp(queue'[i])
          <5>1. i = Len(queue) + 1 \/ i \in 1 .. Len(queue)
            BY <4>1
          <5> QED
            BY <2>1, <4>1, <4>2, <5>1, EventTypes DEF RetryInv, HadIp
        <4> QED
          BY <2>1, <4>1, <4>2 DEF RetryInv, HadIp
      <3> QED
        BY <2>1, <3>1, <3>2
    <2> QED
      BY <1>1, <2>1, <2>2 DEF RetryInv, InUse
  <1>6. CASE Connect
    <2>1. /\ pc = "disconnected" /\ pc' \in {"wait", "failed"} /\ link' = LinkAfterConnect
          /\ UNCHANGED <<conf, queue, retries, bits, crossed>>
      BY <1>6 DEF Connect, GoTo, shared
    <2>2. ASSUME InUse' PROVE InUse
      BY <2>1, <2>2 DEF InUse
    <2>3. ASSUME InUse PROVE link' = link \/ (link.state = "idle" /\ link'.state = "joining" /\ link'.net = conf)
      BY <2>1, <2>3, WifiAssumption DEF LinkAfterConnect, InUse
    <2>4. HadIp' => HadIp
      BY <2>1 DEF HadIp
    <2>5. ASSUME InUse, HadIp PROVE \E k \in 0 .. Len(queue') : LastIp(k)' /\ Spare(k)'
      <3>1. PICK k \in 0 .. Len(queue) : LastIp(k) /\ Spare(k)
        BY <2>5 DEF RetryInv
      <3>2. LastIp(k)' /\ Spare(k)'
        BY <1>1, <2>1, <2>3, <2>5, <3>1 DEF LastIp, Spare, Used
      <3> QED
        BY <2>1, <3>1, <3>2
    <2> QED
      BY <1>1, <2>1, <2>2, <2>3, <2>4, <2>5 DEF RetryInv
  <1>7. CASE WaitEnds \/ Joined
    <2>1. /\ \/ pc = "wait" /\ pc' = IF "GOT_IP" \in bits THEN "joined" ELSE "failed"
             \/ pc = "joined" /\ pc' = "done"
          /\ UNCHANGED <<conf, link, queue, retries, bits, crossed>>
      BY <1>7 DEF WaitEnds, Joined, GoTo, shared, driver
    <2>2. InUse' => InUse
      BY <2>1 DEF InUse
    <2>3. (HadIp' <=> HadIp) /\ \A k : (LastIp(k)' <=> LastIp(k)) /\ (Spare(k)' <=> Spare(k))
      BY <1>1, <2>1 DEF HadIp, LastIp, Spare, Used
    <2> QED
      BY <1>1, <2>1, <2>2, <2>3 DEF RetryInv
  <1> QED
    BY <1>2, <1>3, <1>4, <1>5, <1>6, <1>7 DEF MainStep

\* A device that joined and stays in use never gives its link up: while it is
\* not up and not being joined, its loss is on the way to a handler that has a
\* retry left.  This is what Rejoins rests on; fairness does the rest.
THEOREM RejoinUnderWay ==
    ASSUME MaxFails < Retries PROVE Spec => []Rejoining
  <1>1. Init => RetryInv
    BY WifiAssumption DEF Init, RetryInv, InUse
  <1>2. TypeInv /\ WifiInv /\ CredentialTypes /\ RetryInv /\ [Next]_vars => RetryInv'
    <2> SUFFICES ASSUME TypeInv, WifiInv, CredentialTypes, RetryInv, [Next]_vars PROVE RetryInv'
      OBVIOUS
    <2>1. CASE Reboot
      BY <2>1 DEF Reboot, RetryInv, InUse
    <2>2. CASE UNCHANGED vars
      BY <2>2 DEF vars, driver, shared, main, bounds, RetryInv, InUse, HadIp, LastIp, Spare, Used
    <2> QED
      BY <2>1, <2>2, GetIpRetry, LossRetry, HandleRetry, MainRetry DEF Next, Driver
  <1>3. ASSUME TypeInv, WifiInv, RetryInv PROVE Rejoining
    <2> SUFFICES ASSUME pc = "done", ~crossed, conf \in Working, link.state = "idle"
                 PROVE  \E i \in 1 .. Len(queue) :
                            /\ queue[i] = Disconnected
                            /\ retries < Retries \/ \E j \in 1 .. i : IsIp(queue[j])
      BY DEF Rejoining
    <2> DEFINE n == Len(queue)
    <2>1. InUse /\ HadIp
      BY <1>3 DEF InUse, HadIp, RetryInv
    <2>2. PICK k \in 0 .. n : LastIp(k) /\ Spare(k)
      BY <1>3, <2>1 DEF RetryInv
    <2>3. /\ n \in Nat /\ retries \in Nat /\ MaxFails \in Nat /\ Retries \in Nat
          /\ fails \in Nat /\ fails <= MaxFails
      BY <1>3, RetryTypes DEF RetryInv
    <2>4. k < n /\ k + 1 \in 1 .. n /\ Used(k) + (n - k) <= fails + 1
      BY <2>2, <2>3 DEF Spare
    <2>5. queue[k + 1] = Disconnected
      BY <2>2, <2>3, <2>4 DEF LastIp
    <2>6. CASE k = 0
      BY <2>3, <2>4, <2>5, <2>6 DEF Used
    <2>7. CASE k # 0
      <3>1. k \in 1 .. k + 1 /\ IsIp(queue[k])
        BY <2>2, <2>7 DEF LastIp
      <3> QED
        BY <2>4, <2>5, <3>1
    <2> QED
      BY <2>6, <2>7
  <1> QED
    BY WifiInvariant, InitTypeInv, NextTypeInv, <1>1, <1>2, <1>3, PTL DEF Spec
================================================================================
