--------------------------------- MODULE Setup ---------------------------------
(***************************************************************************)
(* app_main from power on to the peer list, the relay setup screen and the *)
(* settings (main.c, storage.c), with menus and typed confirmation key by  *)
(* key, and power cuts between any two writes to flash.                    *)
(*                                                                         *)
(* A relay's id and its host are named by the relay, and the user types    *)
(* those of one relay.  A token is the relay that issued it; an identity   *)
(* is a number; the records of peers are the identities they were made     *)
(* with.  Wi-Fi and the binding protocol are modules of their own; here a  *)
(* binding succeeds or not, and waits for both are left out.               *)
(***************************************************************************)
EXTENDS Screens

CONSTANTS
    Relays,        \* relays the user may set up
    Default,       \* relay of the build (NOISE_RELAY_ID and _HOST), or None
    None,
    Word, Chars,   \* the word that confirms a wipe ("WIPE"); what can be typed
    Cap,           \* size of the buffer for it (8)
    MaxPeers,      \* peers the relay may list (TX_MAX_PEERS, 8)
    MaxIds,        \* bound: identities in a run
    MaxCuts,       \* bound: power cuts in a run
    SaveMayFail    \* TRUE: a write or an erase may fail

ASSUME SetupAssumption ==
    /\ None \notin Relays /\ Default \in Relays \cup {None}
    /\ {";", ".", "SPACE"} \subseteq Chars
    /\ Chars \cap (Cancels \cup {"ENTER", "BACKSPACE"}) = {}
    /\ Word \in Seq(Chars) /\ Cap \in Nat /\ Len(Word) < Cap
    /\ MaxPeers \in Nat /\ MaxIds \in Nat /\ MaxCuts \in Nat /\ SaveMayFail \in BOOLEAN

VARIABLES
    flash,    \* relay id, relay host, user id, token, identity, peer records
    rid, host, tok,   \* s_relay_id, s_relay_host and the token in RAM
    at,       \* the screen, or the write that comes next
    menu, text,
    ids,      \* identities made
    torn,     \* what a fault has left half done: the settings, the records
    cuts

vars == <<flash, rid, host, tok, at, menu, text, ids, torn, cuts>>
ui == <<menu, text>>
ram == <<rid, host, tok>>
ghosts == <<ids, torn, cuts>>

MenuScreens == {"failed", "list", "settings"}
Writes == {"saveId", "saveHost", "saveUid", "saveTok", "clearId", "clearHost", "clearUid",
           "clearTok", "wipeMain", "wipePeers"}
Places == MenuScreens \cup Writes \cup
          {"splash", "boot", "askId", "askHost", "start", "bind", "fetch", "help", "confirm",
           "mismatch", "message"}

Blank == [rid |-> None, host |-> None, uid |-> FALSE, tok |-> None, ident |-> 0, records |-> {}]

NoMenu == OpenMenu(1)

Init ==
    /\ flash = Blank
    /\ rid = None /\ host = None /\ tok = None
    /\ at = "splash" /\ menu = NoMenu /\ text = NoText
    /\ ids = 0 /\ torn = {} /\ cuts = 0

GoTo(from, to) == at = from /\ at' = to

\* esp_restart, or the power comes back.
Restart ==
    /\ at' = "splash"
    /\ rid' = None /\ host' = None /\ tok' = None /\ menu' = NoMenu /\ text' = NoText

(***************************************************************************)
(* Flash.  No caller looks at what a write returns.  The ghost torn        *)
(* remembers what a fault has left half done, until a boot finds nothing   *)
(* of it in flash.                                                         *)
(***************************************************************************)

Left(part) == IF part = "records" THEN flash.records # {}
              ELSE <<flash.rid, flash.host, flash.tok>> # <<None, None, None>>

Marks(parts) == torn' = torn \cup parts

\* The write takes place, or it is lost and what it was to do is half done.
Store(value, parts) ==
    \/ flash' = value /\ Marks({})
    \/ SaveMayFail /\ flash' = flash /\ Marks(parts)

(***************************************************************************)
(* Boot                                                                    *)
(***************************************************************************)

\* Mutant: the setup screen is shown only when both are missing.
NotConfiguredBoth(id, h) == id = None /\ h = None

NotConfigured(id, h) == id = None \/ h = None

OrDefault(stored) == IF stored = None THEN Default ELSE stored

Boot ==
    /\ rid' = OrDefault(flash.rid) /\ host' = OrDefault(flash.host)
    /\ GoTo("boot", IF NotConfigured(rid', host') THEN "askId" ELSE "start")
    /\ torn' = {p \in torn : Left(p)}
    /\ UNCHANGED <<flash, tok, ui, ids, cuts>>

\* screen_relay_setup: two inputs; a bad or cancelled host starts over.
AskId == GoTo("askId", "askHost") /\ rid' \in Relays /\ UNCHANGED <<flash, host, tok, ui, ghosts>>
AskHost ==
    /\ \/ GoTo("askHost", "saveId") /\ host' = rid
       \/ GoTo("askHost", "askId") /\ UNCHANGED host
    /\ UNCHANGED <<flash, rid, tok, ui, ghosts>>

SaveId == GoTo("saveId", "saveHost") /\ Store([flash EXCEPT !.rid = rid], {"settings"})
SaveHost == GoTo("saveHost", "start") /\ Store([flash EXCEPT !.host = host], {"settings"})

\* The token is loaded; without a binding screen_bind comes first.
Start ==
    /\ GoTo("start", IF ~flash.uid \/ flash.tok = None THEN "bind" ELSE "fetch")
    /\ tok' = flash.tok
    /\ UNCHANGED <<flash, rid, host, ui, ghosts>>

\* The relay binds a device that sends its id; ESC reboots.
Bind == GoTo("bind", "saveUid") /\ rid = host /\ UNCHANGED <<flash, ram, ui, ghosts>>
BindCancelled == at = "bind" /\ Restart /\ UNCHANGED <<flash, ghosts>>
SaveUid == GoTo("saveUid", "saveTok") /\ Store([flash EXCEPT !.uid = TRUE], {})
SaveTok == GoTo("saveTok", "fetch") /\ Store([flash EXCEPT !.tok = host], {})

Saves ==
    /\ \/ (SaveId \/ SaveHost \/ SaveUid) /\ UNCHANGED tok
       \/ SaveTok /\ tok' = host
    /\ UNCHANGED <<rid, host, ui, ids, cuts>>

(***************************************************************************)
(* Menus                                                                   *)
(***************************************************************************)

\* screen_peer_list: a relay that does not know the token gives no list.
Fetch ==
    /\ \/ GoTo("fetch", "failed") /\ menu' = OpenMenu(3)
       \/ /\ GoTo("fetch", "list") /\ tok = host
          /\ \E n \in 0 .. MaxPeers : menu' = OpenMenu(n + 2)
    /\ UNCHANGED <<flash, ram, text, ghosts>>

Move(k) ==
    /\ at \in MenuScreens /\ MenuAnswer(menu, k) = NoAnswer
    /\ menu' = MenuKey(menu, k)
    /\ UNCHANGED <<flash, ram, at, text, ghosts>>

\* Where an answer of each menu leads.
NextOf(answer) ==
    CASE at = "failed" /\ answer = 1 -> "settings"
      [] at = "failed" /\ answer = 2 -> "restart"
      [] at = "list" /\ answer = 0 -> "help"
      [] at = "list" /\ answer = 1 -> "settings"
      [] at = "settings" /\ answer = 0 -> "clearId"    \* Re-setup relay
      [] at = "settings" /\ answer = 1 -> "message"    \* Forget Wi-Fi
      [] at = "settings" /\ answer = 2 -> "clearUid"   \* Unbind device
      [] at = "settings" /\ answer = 3 -> "confirm"    \* Wipe everything
      [] OTHER -> "fetch"

\* A peer is picked: a session is resumed and neither is written, or a
\* handshake makes an identity if there is none, and ends with a record or not.
Paired ==
    \/ UNCHANGED <<flash, ids>>
    \/ /\ flash.ident # 0 \/ ids < MaxIds
       /\ ids' = IF flash.ident = 0 THEN ids + 1 ELSE ids
       /\ LET id == IF flash.ident = 0 THEN ids + 1 ELSE flash.ident
          IN  \E made \in {{}, {id}} :
                  flash' = [flash EXCEPT !.ident = id, !.records = @ \cup made]

Choose(k) ==
    LET answer == MenuAnswer(menu, k)
    IN  /\ at \in MenuScreens /\ answer # NoAnswer
        /\ \/ NextOf(answer) = "restart" /\ Restart
           \/ /\ NextOf(answer) # "restart" /\ at' = NextOf(answer)
              /\ menu' = IF at' = "settings" THEN OpenMenu(5) ELSE NoMenu
              /\ UNCHANGED <<ram, text>>
        /\ IF at = "list" /\ answer >= 2 THEN Paired ELSE UNCHANGED <<flash, ids>>
        /\ UNCHANGED <<torn, cuts>>

(***************************************************************************)
(* Settings                                                                *)
(***************************************************************************)

\* The input that confirms a wipe.
TypeConfirm(k) ==
    /\ at = "confirm" /\ k \notin Cancels \cup {"ENTER"}
    /\ text' = TextKey(text, k, Cap, Chars)
    /\ UNCHANGED <<flash, ram, at, menu, ghosts>>

Confirmed == text = Word

EndConfirm(k) ==
    /\ at = "confirm" /\ k \in Cancels \cup {"ENTER"}
    /\ at' = IF k \in Cancels THEN "settings" ELSE IF Confirmed THEN "wipeMain" ELSE "mismatch"
    /\ menu' = (IF at' = "settings" THEN OpenMenu(5) ELSE NoMenu) /\ text' = NoText
    /\ UNCHANGED <<flash, ram, ghosts>>

\* "Re-setup relay" forgets the id, the host and the binding, which has two
\* values; "Unbind device" the binding alone, and the token is of the relay
\* that stays.
HalfForgotten == IF flash.rid = None \/ flash.host = None THEN {"settings"} ELSE {}

ClearId ==
    GoTo("clearId", "clearHost") /\ Store([flash EXCEPT !.rid = None], {"settings"})
ClearHost ==
    GoTo("clearHost", "clearUid") /\ Store([flash EXCEPT !.host = None], {"settings"})
ClearUid == GoTo("clearUid", "clearTok") /\ Store([flash EXCEPT !.uid = FALSE], HalfForgotten)

\* Mutant: the token is left.
TokenLeft == flash.tok

ClearedToken == None

ClearTok ==
    /\ GoTo("clearTok", "message")
    /\ Store([flash EXCEPT !.tok = ClearedToken], HalfForgotten)

\* Mutant: the records of peers are left.
RecordsLeft == flash.records

WipedRecords == {}

\* storage_forget_all: the namespace of the device, value by value, then the
\* records of peers.
MainKeys == {"rid", "host", "uid", "tok", "ident"}
AllParts == {"settings", "records"}

WipeMain ==
    \/ /\ at = "wipeMain" /\ UNCHANGED at
       /\ \E key \in MainKeys :
              /\ flash[key] # Blank[key]
              /\ flash' = [flash EXCEPT ![key] = Blank[key]]
       /\ Marks({})
    \/ /\ GoTo("wipeMain", "wipePeers")
       /\ UNCHANGED flash
       /\ IF \A key \in MainKeys : flash[key] = Blank[key] THEN Marks({})
          ELSE SaveMayFail /\ Marks(AllParts)
WipePeers ==
    GoTo("wipePeers", "message") /\ Store([flash EXCEPT !.records = WipedRecords], {"records"})

Forgets ==
    /\ ClearId \/ ClearHost \/ ClearUid \/ ClearTok \/ WipeMain \/ WipePeers
    /\ UNCHANGED <<ram, ui, ids, cuts>>

\* ui_splash, ui_show_message and screen_help wait for a key; what is said
\* after a wipe or a re-setup ends in esp_restart.
Dismiss(k) ==
    /\ \/ k \in SplashKeys /\ GoTo("splash", "boot") /\ UNCHANGED <<ram, ui>>
       \/ k \in Dismisses /\ at = "message" /\ Restart
       \/ /\ k \in Dismisses /\ GoTo("mismatch", "settings") /\ menu' = OpenMenu(5)
          /\ UNCHANGED <<ram, text>>
       \/ k \in HelpKeys /\ GoTo("help", "fetch") /\ UNCHANGED <<ram, ui>>
    /\ UNCHANGED <<flash, ghosts>>

\* What is half done when power fails here.
CutMarks == CASE at = "clearHost" -> {"settings"}
              [] at \in {"clearUid", "clearTok"} -> HalfForgotten
              [] at \in {"wipeMain", "wipePeers"} -> AllParts
              [] OTHER -> {}

PowerCut ==
    /\ cuts < MaxCuts /\ cuts' = cuts + 1
    /\ at # "splash" /\ Restart
    /\ UNCHANGED <<flash, ids>>
    /\ Marks(CutMarks)

Keys == UpKeys \cup DownKeys \cup Cancels \cup {"ENTER", "SPACE", "BACKSPACE"} \cup Chars

Key(k) == Move(k) \/ Choose(k) \/ TypeConfirm(k) \/ EndConfirm(k) \/ Dismiss(k)

Next == Boot \/ AskId \/ AskHost \/ Saves \/ Start \/ Bind \/ BindCancelled \/ Fetch
        \/ Forgets \/ PowerCut \/ \E k \in Keys : Key(k)

Spec == Init /\ [][Next]_vars

(***************************************************************************)
(* Properties                                                              *)
(***************************************************************************)

Running == {"bind", "saveUid", "saveTok", "fetch", "help", "list"}

\* Types; a text in ui_text_input leaves room for its terminating zero.
SetupTypeOK ==
    /\ flash \in [rid : Relays \cup {None}, host : Relays \cup {None}, uid : BOOLEAN,
                  tok : Relays \cup {None}, ident : 0 .. MaxIds, records : SUBSET (1 .. MaxIds)]
    /\ rid \in Relays \cup {None} /\ host \in Relays \cup {None} /\ tok \in Relays \cup {None}
    /\ at \in Places
    /\ menu \in Menus /\ text \in Seq(Chars) /\ Len(text) < Cap
    /\ ids \in 0 .. MaxIds /\ torn \subseteq AllParts /\ cuts \in 0 .. MaxCuts

\* The menus of the device scroll so that the highlighted item is on the
\* display and is an item, for any number of peers.
HighlightShown == at \in MenuScreens => CursorShown(menu)

\* A device runs with the id and the host of one relay, wherever power failed
\* during the setup, except after a write of it or of a re-setup was lost or
\* power failed inside a re-setup or a wipe.
IdAndHostMatch == at \in Running /\ "settings" \notin torn => rid = host /\ rid # None

\* The token a device presents is of the relay it talks to, over re-setups,
\* unbindings that were cut or lost and bindings half written, with the same
\* exception.
TokenOfRelay == at \in {"fetch", "help", "list"} /\ "settings" \notin torn => tok = host

\* Outside a wipe, records of peers were made with the identity in flash, over
\* pairings, re-setups and everything else, except after a wipe that was cut
\* or lost.
RecordsOfIdentity ==
    at \notin {"wipeMain", "wipePeers"} /\ "records" \notin torn
        => flash.records \subseteq {flash.ident}
================================================================================
