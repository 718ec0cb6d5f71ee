--------------------------------- MODULE Wifi ----------------------------------
(***************************************************************************)
(* Joining a network: screen_wifi (main.c) and wifi.c in the main task,    *)
(* evt_handler in the event task, and the Wi-Fi driver below them.         *)
(*                                                                         *)
(* What the driver does becomes known to the handler through a queue of    *)
(* events, later; main meanwhile times out and starts another attempt, so  *)
(* events of one attempt are handled during the next.  A network and its   *)
(* password are one value; Working are those that give an IP.              *)
(***************************************************************************)
EXTENDS Integers, Sequences

CONSTANTS
    Networks,     \* credentials that are tried: a network with a password
    Working,      \* those with which the driver can get an IP
    None,
    Attempts,     \* attempts with saved credentials (30)
    Retries,      \* reconnects of the handler (4)
    QueueSize,    \* bound: events waiting for the handler
    MaxFails,     \* bound: joins that fail in a row
    MaxDrops,     \* bound: links lost in a run
    MaxReboots    \* bound: reboots in a run

ASSUME WifiAssumption ==
    /\ Working \subseteq Networks /\ None \notin Networks
    /\ Attempts \in Nat \ {0} /\ Retries \in Nat /\ QueueSize \in Nat \ {0}
    /\ MaxFails \in Nat /\ MaxDrops \in Nat /\ MaxReboots \in Nat

VARIABLES
    conf,       \* the driver's configuration, which it keeps over reboots
    link,       \* the driver's station: its state and its network
    queue,      \* events posted to the event loop and not yet handled
    retries, connected, bits,   \* s_retries, s_connected, s_evt
    pc,         \* where the main task is
    cred, mode, \* credentials of the attempt, and where they come from
    tries,      \* attempts made with saved credentials
    saved,      \* credentials in flash
    crossed,    \* during this attempt an IP of an earlier one may come in
    trusted,    \* saved credentials were written after an attempt without that
    fails, drops, reboots

driver == <<conf, link>>
shared == <<retries, connected, bits>>
main == <<pc, cred, mode, tries, saved, trusted>>
bounds == <<fails, drops, reboots>>
vars == <<driver, queue, shared, main, crossed, bounds>>

Events == [kind : {"start", "disconnected"}] \cup [kind : {"ip"}, net : Networks]
Disconnected == [kind |-> "disconnected"]
GotIp(n) == [kind |-> "ip", net |-> n]
Idle == [state |-> "idle", net |-> None]

\* Power on: no credentials saved, or some; a driver that remembers some.
\* wifi_stack_init has started the station, which posts STA_START.
Init ==
    /\ conf \in Networks \cup {None} /\ link = Idle
    /\ queue = <<[kind |-> "start"]>>
    /\ retries = 0 /\ connected = FALSE /\ bits = {}
    /\ pc = "load" /\ cred = None /\ mode = "saved" /\ tries = 0
    /\ saved \in Working \cup {None}
    /\ crossed = FALSE /\ trusted = TRUE
    /\ fails = 0 /\ drops = 0 /\ reboots = 0

(***************************************************************************)
(* The driver                                                              *)
(***************************************************************************)

Post(e) == Len(queue) < QueueSize /\ queue' = Append(queue, e)

\* esp_wifi_connect: does something only when idle and configured.
LinkAfterConnect == IF link.state = "idle" /\ conf # None
                    THEN [state |-> "joining", net |-> conf] ELSE link

GetIp ==
    /\ link.state = "joining" /\ link.net \in Working
    /\ link' = [link EXCEPT !.state = "up"]
    /\ Post(GotIp(link.net))
    /\ fails' = 0
    /\ crossed' = (crossed \/ pc \in {"cleared", "configured"})
    /\ UNCHANGED <<conf, shared, main, drops, reboots>>

JoinFails ==
    /\ link.state = "joining"
    /\ \/ fails < MaxFails /\ fails' = fails + 1
       \/ link.net \notin Working /\ UNCHANGED fails
    /\ link' = Idle
    /\ Post(Disconnected)
    /\ UNCHANGED <<conf, shared, main, crossed, drops, reboots>>

LinkLost ==
    /\ link.state = "up" /\ drops < MaxDrops
    /\ drops' = drops + 1
    /\ link' = Idle
    /\ Post(Disconnected)
    /\ UNCHANGED <<conf, shared, main, crossed, fails, reboots>>

(***************************************************************************)
(* evt_handler                                                             *)
(***************************************************************************)

OnStart ==
    /\ Head(queue).kind = "start"
    /\ link' = LinkAfterConnect
    /\ UNCHANGED shared

\* Mutant: the flag stays set.
FlagKept == connected

MayRetry == retries < Retries
FlagAfterLoss == FALSE

OnDisconnected ==
    /\ Head(queue).kind = "disconnected"
    /\ connected' = FlagAfterLoss
    /\ IF MayRetry
       THEN retries' = retries + 1 /\ link' = LinkAfterConnect /\ UNCHANGED bits
       ELSE bits' = bits \cup {"FAIL"} /\ UNCHANGED <<retries, link>>

\* Mutant: an outage has the retries that earlier ones left.
RetriesKept == retries

RetriesAfterIp == 0

OnGotIp ==
    /\ Head(queue).kind = "ip"
    /\ retries' = RetriesAfterIp
    /\ connected' = TRUE
    /\ bits' = bits \cup {"GOT_IP"}
    /\ UNCHANGED link

Handle ==
    /\ queue # <<>>
    /\ OnStart \/ OnDisconnected \/ OnGotIp
    /\ queue' = Tail(queue)
    /\ UNCHANGED <<conf, main, crossed, bounds>>

(***************************************************************************)
(* wifi_connect                                                            *)
(***************************************************************************)

GoTo(from, to) == pc = from /\ pc' = to

Reset ==
    /\ GoTo("connect", "reset")
    /\ retries' = 0 /\ connected' = FALSE
    /\ UNCHANGED <<driver, queue, bits, cred, mode, tries, saved, crossed, trusted, bounds>>

\* Mutant: the bits of the attempt before stay.
BitsKept == bits

BitsCleared == {}

\* From here on a GOT_IP counts for this attempt: also one that is waiting to be
\* handled, or of an earlier join that ends before Disconnect.
ClearBits ==
    /\ GoTo("reset", "cleared")
    /\ bits' = BitsCleared
    /\ crossed' = (\E i \in DOMAIN queue : queue[i].kind = "ip")
    /\ UNCHANGED <<driver, queue, retries, connected, cred, mode, tries, saved, trusted, bounds>>

\* esp_wifi_set_config; while the station is joining it may refuse (-2).
SetConfig ==
    /\ GoTo("cleared", "configured")
    /\ conf' = cred
    /\ UNCHANGED <<link, queue, shared, cred, mode, tries, saved, crossed, trusted, bounds>>

SetConfigRefused ==
    /\ GoTo("cleared", "failed")
    /\ link.state = "joining"
    /\ UNCHANGED <<driver, queue, shared, cred, mode, tries, saved, crossed, trusted, bounds>>

Disconnect ==
    /\ GoTo("configured", "disconnected")
    /\ IF link.state = "idle" THEN UNCHANGED <<link, queue>>
       ELSE link' = Idle /\ Post(Disconnected)
    /\ UNCHANGED <<conf, shared, cred, mode, tries, saved, crossed, trusted, bounds>>

\* 100 ms later; esp_wifi_connect may refuse (-3) when the handler was first.
Connect ==
    /\ \/ GoTo("disconnected", "wait")
       \/ GoTo("disconnected", "failed") /\ link.state # "idle"
    /\ link' = LinkAfterConnect
    /\ UNCHANGED <<conf, queue, shared, cred, mode, tries, saved, crossed, trusted, bounds>>

\* The bits, or the timeout with neither.
WaitEnds ==
    /\ GoTo("wait", IF "GOT_IP" \in bits THEN "joined" ELSE "failed")
    /\ UNCHANGED <<driver, queue, shared, cred, mode, tries, saved, crossed, trusted, bounds>>

(***************************************************************************)
(* screen_wifi                                                             *)
(***************************************************************************)

\* wifi_load_saved.
Load ==
    /\ GoTo("load", IF saved = None THEN "pick" ELSE "connect")
    /\ cred' = saved /\ mode' = "saved" /\ tries' = 0
    /\ UNCHANGED <<driver, queue, shared, saved, crossed, trusted, bounds>>

\* The user picks a network of the scan and types a password, until it works;
\* the network of the build, tried once when none is saved, is such a pick.
Pick ==
    /\ GoTo("pick", "connect")
    /\ cred' \in Networks /\ mode' = "picked"
    /\ UNCHANGED <<driver, queue, shared, tries, saved, crossed, trusted, bounds>>

\* wifi_save, whose result is not looked at.
Joined ==
    /\ GoTo("joined", "done")
    /\ \/ mode = "picked" /\ saved' = cred /\ trusted' = ~crossed
       \/ UNCHANGED <<saved, trusted>>
    /\ UNCHANGED <<driver, queue, shared, cred, mode, tries, crossed, bounds>>

Failed ==
    /\ GoTo("failed", IF mode = "saved" /\ tries + 1 < Attempts THEN "connect" ELSE "pick")
    /\ tries' = IF mode = "saved" THEN tries + 1 ELSE tries
    /\ UNCHANGED <<driver, queue, shared, cred, mode, saved, crossed, trusted, bounds>>

\* A reboot, at any time, or by "Forget Wi-Fi" and "Wipe everything", which
\* clear the saved credentials first.
Reboot ==
    /\ reboots < MaxReboots /\ reboots' = reboots + 1
    /\ \/ UNCHANGED saved
       \/ pc = "done" /\ saved' = None
    /\ link' = Idle /\ queue' = <<[kind |-> "start"]>>
    /\ retries' = 0 /\ connected' = FALSE /\ bits' = {}
    /\ pc' = "load" /\ cred' = None /\ mode' = "saved" /\ tries' = 0 /\ crossed' = FALSE
    /\ UNCHANGED <<conf, trusted, fails, drops>>

Driver == GetIp \/ JoinFails
MainStep == Reset \/ ClearBits \/ SetConfig \/ SetConfigRefused \/ Disconnect \/ Connect
            \/ WaitEnds \/ Load \/ Pick \/ Joined \/ Failed

Next == Driver \/ LinkLost \/ Handle \/ MainStep \/ Reboot

\* A join ends one way or the other and the event task runs.
Spec == Init /\ [][Next]_vars /\ WF_vars(Driver) /\ WF_vars(Handle) /\ WF_vars(MainStep)

(***************************************************************************)
(* Properties                                                              *)
(***************************************************************************)

\* Types; no counter of attempts or reconnects passes its bound.
WifiTypeOK ==
    /\ conf \in Networks \cup {None}
    /\ link \in [state : {"joining", "up"}, net : Networks] \cup {Idle}
    /\ queue \in Seq(Events) /\ Len(queue) <= QueueSize
    /\ retries \in 0 .. Retries /\ connected \in BOOLEAN /\ bits \subseteq {"GOT_IP", "FAIL"}
    /\ pc \in {"load", "pick", "connect", "reset", "cleared", "configured", "disconnected",
               "wait", "joined", "failed", "done"}
    /\ cred \in Networks \cup {None} /\ saved \in Networks \cup {None}
    /\ mode \in {"saved", "picked"} /\ tries \in 0 .. Attempts
    /\ crossed \in BOOLEAN /\ trusted \in BOOLEAN

\* wifi_is_connected says so only while there is a link, or until the handler
\* hears of its loss: events of an earlier attempt do not leave the flag set.
ConnectedIsTrue ==
    connected => \/ link.state = "up"
                 \/ \E i \in DOMAIN queue : queue[i] = Disconnected

\* Credentials are saved only if the network gave an IP with them, unless an IP
\* of the attempt before came in across ClearBits.
SavedCredentialsWork == saved # None /\ trusted => saved \in Working

\* A device in use whose link is lost is online again, if no more than MaxFails
\* joins in a row fail: each outage has all the retries.
Rejoins == pc = "done" /\ conf \in Working /\ ~crossed ~> (link.state = "up" \/ pc # "done")
================================================================================
