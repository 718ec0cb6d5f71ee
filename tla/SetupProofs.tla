------------------------------ MODULE SetupProofs ------------------------------
(***************************************************************************)
(* Proofs about Setup, for any relays, number of peers and rows, and any   *)
(* number of power cuts and lost writes: what the menus show, which relay  *)
(* and token a device uses, and whose records it keeps.                    *)
(***************************************************************************)
EXTENDS Setup, SequenceTheorems, TLAPS

MaybeRelay == Relays \cup {None}

FlashType == flash \in [rid : MaybeRelay, host : MaybeRelay, uid : BOOLEAN, tok : MaybeRelay,
                        ident : Nat, records : SUBSET (Nat \ {0})]

RamType == /\ rid \in MaybeRelay /\ host \in MaybeRelay /\ tok \in MaybeRelay
           /\ ids \in Nat /\ torn \subseteq AllParts /\ at \in Places

MenuInv == menu \in Menus /\ CursorShown(menu)

Whole == "settings" \notin torn

\* The host in flash is of the relay in flash, and so is the token.
Consistent ==
    /\ flash.host \in {None, flash.rid}
    /\ flash.tok \in {None, OrDefault(flash.host)}

Off == {"splash", "boot", "message"}
Asking == {"askId", "askHost", "saveId", "saveHost"}
Chosen == {"fetch", "failed", "list", "settings", "help", "confirm", "mismatch", "clearId"}
Up == Chosen \cup {"start", "bind", "saveUid", "saveTok"}

\* A build with a relay of its own never asks for one.
BuiltIn ==
    /\ Default # None => flash.rid = None /\ flash.host = None
    /\ at \in Asking => Default = None

\* What each place knows when nothing was left half done.
AtOff == at \in Off => Consistent
AtAsking == at \in Asking => flash.host = None /\ flash.tok = None
AtHalf == /\ at \in {"askHost", "saveId", "saveHost"} => rid # None
          /\ at \in {"saveId", "saveHost"} => host = rid
          /\ at = "saveHost" => flash.rid = rid
AtUp == at \in Up => /\ Consistent /\ rid = host /\ rid # None
                     /\ OrDefault(flash.host) = host
AtChosen == at \in Chosen => tok = host
AtClear == /\ at = "clearHost" => flash.rid = None
           /\ at \in {"clearUid", "clearTok"} =>
                  Consistent \/ (flash.rid = None /\ flash.host = None)
AtWiped == at = "wipePeers" => flash.rid = None /\ flash.host = None /\ flash.tok = None

Known == AtOff /\ AtAsking /\ AtHalf /\ AtUp /\ AtChosen /\ AtClear /\ AtWiped

ConfigInv == FlashType /\ RamType /\ BuiltIn /\ (Whole => Known)

RecordsInv ==
    /\ RecordsOfIdentity
    /\ at = "wipePeers" /\ "records" \notin torn => flash.ident = 0

\* A menu that is opened shows its first item, and any key keeps the cursor
\* on an item that is shown.
LEMMA Opened == ASSUME NEW n \in Nat \ {0} PROVE OpenMenu(n) \in Menus /\ CursorShown(OpenMenu(n))
  BY RowsAssumption DEF OpenMenu, Menus, CursorShown

LEMMA KeyShown ==
    ASSUME NEW m \in Menus, CursorShown(m), NEW k
    PROVE  MenuKey(m, k) \in Menus /\ CursorShown(MenuKey(m, k))
<1> DEFINE sel == IF k \in UpKeys /\ m.sel > 0 THEN m.sel - 1
                  ELSE IF k \in DownKeys /\ m.sel < m.n - 1 THEN m.sel + 1 ELSE m.sel
<1>1. sel \in Nat /\ sel < m.n /\ m.top \in Nat
  BY DEF Menus, CursorShown
<1>2. /\ Window(sel, m.top) \in Nat /\ Window(sel, m.top) <= sel
      /\ sel < Window(sel, m.top) + Rows
  <2> HIDE DEF sel
  <2> QED BY <1>1, RowsAssumption DEF Window
<1>3. MenuKey(m, k) = [m EXCEPT !.sel = sel, !.top = Window(sel, m.top)]
  BY DEF MenuKey
<1> HIDE DEF sel
<1> QED BY <1>1, <1>2, <1>3 DEF Menus, CursorShown

THEOREM MenusShow == Spec => [](MenuInv)
<1>1. Init => MenuInv
  BY Opened DEF Init, NoMenu, MenuInv
<1>2. MenuInv /\ [Next]_vars => MenuInv'
  <2> SUFFICES ASSUME MenuInv, [Next]_vars PROVE MenuInv'
    OBVIOUS
  <2>0. /\ OpenMenu(1) \in Menus /\ CursorShown(OpenMenu(1))
        /\ OpenMenu(3) \in Menus /\ CursorShown(OpenMenu(3))
        /\ OpenMenu(5) \in Menus /\ CursorShown(OpenMenu(5))
    BY Opened
  <2>1. ASSUME menu' = menu PROVE MenuInv'
    BY <2>1 DEF MenuInv, CursorShown
  <2>2. ASSUME menu' \in {OpenMenu(1), OpenMenu(3), OpenMenu(5)} PROVE MenuInv'
    BY <2>0, <2>2 DEF MenuInv, CursorShown
  <2>3. CASE Fetch
    <3>1. CASE menu' = OpenMenu(3)
      BY <3>1, <2>2
    <3>2. CASE \E n \in 0 .. MaxPeers : menu' = OpenMenu(n + 2)
      <4>1. PICK n \in 0 .. MaxPeers : menu' = OpenMenu(n + 2)
        BY <3>2
      <4>2. n + 2 \in Nat \ {0}
        <5>1. MaxPeers \in Nat
          BY SetupAssumption
        <5> QED BY <5>1
      <4> QED BY <4>1, <4>2, Opened DEF MenuInv, CursorShown
    <3> QED BY <2>3, <3>1, <3>2 DEF Fetch
  <2>4. ASSUME NEW k \in Keys, Key(k) PROVE MenuInv'
    <3>1. CASE Move(k)
      BY <3>1, KeyShown DEF Move, MenuInv, CursorShown
    <3>2. CASE Choose(k)
      BY <3>2, <2>2 DEF Choose, Restart, NoMenu
    <3>3. CASE TypeConfirm(k)
      BY <3>3, <2>1 DEF TypeConfirm
    <3>4. CASE EndConfirm(k)
      BY <3>4, <2>2 DEF EndConfirm, NoMenu
    <3>5. CASE Dismiss(k)
      BY <3>5, <2>1, <2>2 DEF Dismiss, Restart, NoMenu, ui
    <3> QED BY <2>4, <3>1, <3>2, <3>3, <3>4, <3>5 DEF Key
  <2>5. CASE Boot \/ AskId \/ AskHost \/ Saves \/ Start \/ Bind \/ Forgets \/ UNCHANGED vars
    BY <2>5, <2>1 DEF Boot, AskId, AskHost, Saves, Start, Bind, Forgets, ui, vars
  <2>6. CASE BindCancelled \/ PowerCut
    BY <2>6, <2>2 DEF BindCancelled, PowerCut, Restart, NoMenu
  <2> QED BY <2>3, <2>4, <2>5, <2>6 DEF Next
<1> QED BY <1>1, <1>2, PTL DEF Spec

\* In every menu the highlighted item is on the display and is an item, for
\* any number of peers and any height of the display (ui_menu).
THEOREM Highlight == Spec => []HighlightShown
<1>1. MenuInv => HighlightShown
  BY DEF MenuInv, HighlightShown
<1> QED BY <1>1, MenusShow, PTL

LEMMA Constants == None \notin Relays /\ Default \in MaybeRelay
  BY SetupAssumption DEF MaybeRelay

\* The places of a menu's answers.
LEMMA Answers ==
    ASSUME NEW k, Choose(k)
    PROVE  /\ at \in MenuScreens
           /\ \/ Restart
              \/ /\ at' \in {"settings", "fetch", "help", "clearId", "message", "clearUid", "confirm"}
                 /\ UNCHANGED ram
           /\ torn' = torn
           /\ Paired \/ UNCHANGED <<flash, ids>>
<1> DEFINE answer == MenuAnswer(menu, k)
<1>1. /\ at \in MenuScreens
      /\ \/ Restart
         \/ NextOf(answer) # "restart" /\ at' = NextOf(answer) /\ UNCHANGED ram
      /\ torn' = torn
      /\ Paired \/ UNCHANGED <<flash, ids>>
  BY DEF Choose
<1>2. NextOf(answer) \in {"restart", "settings", "fetch", "help", "clearId", "message",
                          "clearUid", "confirm"}
  <2> HIDE DEF answer
  <2> QED BY <1>1 DEF NextOf, MenuScreens
<1> HIDE DEF answer
<1> QED BY <1>1, <1>2

\* A pairing writes an identity and records, and nothing of the settings.
LEMMA PairedKeeps ==
    ASSUME FlashType, ids \in Nat, Paired \/ UNCHANGED <<flash, ids>>
    PROVE  /\ FlashType' /\ ids' \in Nat
           /\ flash'.rid = flash.rid /\ flash'.host = flash.host /\ flash'.tok = flash.tok
           /\ flash.records \subseteq {flash.ident} => flash'.records \subseteq {flash'.ident}
<1>1. CASE UNCHANGED <<flash, ids>>
  BY <1>1 DEF FlashType
<1>2. CASE ~UNCHANGED <<flash, ids>>
  <2> DEFINE id == IF flash.ident = 0 THEN ids + 1 ELSE flash.ident
  <2>1. PICK made \in {{}, {id}} :
            flash' = [flash EXCEPT !.ident = id, !.records = @ \cup made]
    BY <1>2 DEF Paired
  <2>2. ids' = IF flash.ident = 0 THEN ids + 1 ELSE ids
    BY <1>2 DEF Paired
  <2>3. id \in Nat \ {0} /\ (flash.ident # 0 => id = flash.ident)
    BY DEF FlashType
  <2> HIDE DEF id
  <2>4. flash.records \subseteq {flash.ident} /\ flash.ident = 0 => flash.records = {}
    BY DEF FlashType
  <2>5. flash' = [flash EXCEPT !.ident = id, !.records = flash.records \cup made]
    BY <2>1 DEF FlashType
  <2>6. /\ flash'.ident = id /\ flash'.records = flash.records \cup made
        /\ flash'.rid = flash.rid /\ flash'.host = flash.host /\ flash'.tok = flash.tok
    BY <2>5 DEF FlashType
  <2>7. FlashType'
    BY <2>5, <2>3, <2>1 DEF FlashType
  <2> QED BY <2>1, <2>2, <2>3, <2>4, <2>6, <2>7
<1> QED BY <1>1, <1>2

LEMMA ConfigInit == Init => ConfigInv
  BY Constants DEF Init, ConfigInv, FlashType, RamType, MaybeRelay, Blank, BuiltIn, Places,
     MenuScreens, Writes, Asking, Whole, Known, AtOff, AtAsking, AtHalf, AtUp, AtChosen, AtClear,
     AtWiped, Off, Up, Chosen, Consistent, OrDefault, AllParts

\* Boot takes both values from flash or from the build, or asks for both.
LEMMA ConfigBoot == ConfigInv /\ Boot => ConfigInv'
<1> SUFFICES ASSUME ConfigInv, Boot PROVE ConfigInv'
  OBVIOUS
<1>1. FlashType' /\ RamType'
  BY Constants DEF Boot, GoTo, ConfigInv, FlashType, RamType, MaybeRelay, Places, MenuScreens,
     Writes, OrDefault
<1>2. at' \in {"askId", "start"} /\ (at' = "askId" => Default = None)
  BY Constants DEF Boot, GoTo, ConfigInv, BuiltIn, OrDefault, NotConfigured
<1>3. Consistent \/ ~Whole
  BY DEF Boot, GoTo, ConfigInv, Known, AtOff, Off
<1>4. Whole' => Whole \/ (flash.rid = None /\ flash.host = None /\ flash.tok = None)
  BY DEF Boot, Whole, Left
<1>5. Whole' => Consistent
  BY <1>3, <1>4 DEF Consistent
<1>6. BuiltIn'
  BY <1>2 DEF ConfigInv, BuiltIn, Boot, Asking
<1>7. at' = "start" /\ Whole' => rid' = host' /\ rid' # None
  BY <1>5, <1>2, Constants DEF Boot, GoTo, NotConfigured, OrDefault, Consistent, ConfigInv,
     BuiltIn
<1>8. at' = "askId" /\ Whole' => flash.host = None /\ flash.tok = None
  BY <1>5, <1>2, Constants DEF Boot, GoTo, NotConfigured, OrDefault, Consistent
<1> QED
  BY <1>1, <1>2, <1>5, <1>6, <1>7, <1>8 DEF ConfigInv, Known, AtOff, AtAsking, AtHalf, AtUp,
     AtChosen, AtClear, AtWiped, Off, Asking, Up, Chosen, Consistent, Boot

\* The setup writes the two values of one relay, or says that it did not.
LEMMA ConfigAsk == ConfigInv /\ (AskId \/ AskHost) => ConfigInv'
  BY Constants DEF ConfigInv, FlashType, RamType, MaybeRelay, BuiltIn, Whole, Known, AtOff,
     AtAsking, AtHalf, AtUp, AtChosen, AtClear, AtWiped, Off, Asking, Up, Chosen, Consistent,
     AskId, AskHost, GoTo, ghosts, Places, MenuScreens, Writes

LEMMA ConfigSaves == ConfigInv /\ Saves => ConfigInv'
<1> SUFFICES ASSUME ConfigInv, Saves PROVE ConfigInv'
  OBVIOUS
<1> USE DEF ConfigInv, FlashType, RamType, MaybeRelay, BuiltIn, Whole, Known, AtOff, AtAsking,
            AtHalf, AtUp, AtChosen, AtClear, AtWiped, Off, Asking, Up, Chosen, Consistent, GoTo,
            Store, Marks, Places, MenuScreens, Writes, AllParts, OrDefault
<1>1. CASE SaveId
  BY <1>1, Constants DEF Saves, SaveId, SaveHost, SaveUid, SaveTok
<1>2. CASE SaveHost
  BY <1>2, Constants DEF Saves, SaveId, SaveHost, SaveUid, SaveTok
<1>3. CASE SaveUid
  BY <1>3, Constants DEF Saves, SaveId, SaveHost, SaveUid, SaveTok
<1>4. CASE SaveTok
  BY <1>4, Constants DEF Saves, SaveId, SaveHost, SaveUid, SaveTok
<1> QED BY <1>1, <1>2, <1>3, <1>4 DEF Saves

LEMMA ConfigForgets == ConfigInv /\ Forgets => ConfigInv'
<1> SUFFICES ASSUME ConfigInv, Forgets PROVE ConfigInv'
  OBVIOUS
<1> USE DEF ConfigInv, FlashType, RamType, MaybeRelay, BuiltIn, Whole, Known, AtOff, AtAsking,
            AtHalf, AtUp, AtChosen, AtClear, AtWiped, Off, Asking, Up, Chosen, Consistent, GoTo,
            Store, Marks, Places, MenuScreens, Writes, AllParts, OrDefault, Forgets, ram
<1>1. CASE ClearId
  BY <1>1, Constants DEF ClearId
<1>2. CASE ClearHost
  BY <1>2, Constants DEF ClearHost
<1>3. CASE ClearUid
  BY <1>3, Constants DEF ClearUid, HalfForgotten
<1>4. CASE ClearTok
  BY <1>4, Constants DEF ClearTok, HalfForgotten, ClearedToken
<1>5. CASE WipeMain
  <2>1. CASE at' = "wipeMain"
    <3>1. PICK key \in MainKeys : flash' = [flash EXCEPT ![key] = Blank[key]]
      BY <1>5, <2>1 DEF WipeMain
    <3>2. CASE key = "rid"
      BY <1>5, <2>1, <3>1, <3>2, Constants DEF WipeMain, Blank
    <3>3. CASE key = "host"
      BY <1>5, <2>1, <3>1, <3>3, Constants DEF WipeMain, Blank
    <3>4. CASE key = "uid"
      BY <1>5, <2>1, <3>1, <3>4, Constants DEF WipeMain, Blank
    <3>5. CASE key = "tok"
      BY <1>5, <2>1, <3>1, <3>5, Constants DEF WipeMain, Blank
    <3>6. CASE key = "ident"
      BY <1>5, <2>1, <3>1, <3>6, Constants DEF WipeMain, Blank
    <3> QED BY <3>1, <3>2, <3>3, <3>4, <3>5, <3>6 DEF MainKeys
  <2>2. CASE at' = "wipePeers"
    BY <1>5, <2>2, Constants DEF WipeMain, Blank, MainKeys
  <2> QED BY <1>5, <2>1, <2>2 DEF WipeMain
<1>6. CASE WipePeers
  BY <1>6, Constants DEF WipePeers, WipedRecords
<1> QED BY <1>1, <1>2, <1>3, <1>4, <1>5, <1>6

LEMMA ConfigPowerOff ==
    ASSUME ConfigInv, Restart, UNCHANGED <<flash, ids>>, torn \subseteq torn',
           torn' \subseteq AllParts, Whole' => Consistent
    PROVE  ConfigInv'
  BY Constants DEF ConfigInv, FlashType, RamType, MaybeRelay, BuiltIn, Whole, Known, AtOff,
     AtAsking, AtHalf, AtUp, AtChosen, AtClear, AtWiped, Off, Asking, Up, Chosen, Consistent,
     Restart, Places, MenuScreens, Writes

\* What a cut marks covers every place where flash is inconsistent.
LEMMA ConfigCut == ConfigInv /\ PowerCut => ConfigInv'
<1> SUFFICES ASSUME ConfigInv, PowerCut PROVE ConfigInv'
  OBVIOUS
<1>1. torn \subseteq torn' /\ torn' \subseteq AllParts
  BY DEF PowerCut, Marks, CutMarks, HalfForgotten, AllParts, ConfigInv, RamType
<1>2. ASSUME Whole' PROVE Consistent
  <2>1. Whole /\ "settings" \notin CutMarks
    BY <1>2 DEF PowerCut, Marks, Whole
  <2>2. at \notin {"clearHost", "wipeMain", "wipePeers"}
    BY <2>1 DEF CutMarks, AllParts
  <2>3. at \in {"clearUid", "clearTok"} => flash.rid # None /\ flash.host # None
    BY <2>1 DEF CutMarks, HalfForgotten
  <2> QED
    BY <2>1, <2>2, <2>3, Constants DEF ConfigInv, RamType, Known, AtOff, AtAsking, AtHalf, AtUp,
       AtClear, BuiltIn, Off, Asking, Up, Chosen, Consistent, Places, MenuScreens, Writes
<1> QED BY <1>1, <1>2, ConfigPowerOff DEF PowerCut

\* Keys change no setting: they move between places that know the same.
LEMMA ConfigKey == ASSUME ConfigInv, NEW k \in Keys, Key(k) PROVE ConfigInv'
<1> USE DEF ConfigInv, FlashType, RamType, BuiltIn, Whole, Known, AtOff, AtAsking, AtHalf, AtUp,
            AtChosen, AtClear, AtWiped, Off, Asking, Up, Chosen, Consistent, Places, MenuScreens,
            Writes, ram, ghosts
<1>1. CASE Move(k)
  BY <1>1 DEF Move
<1>2. CASE Choose(k)
  <2>1. /\ at \in MenuScreens /\ torn' = torn
        /\ FlashType' /\ ids' \in Nat
        /\ flash'.rid = flash.rid /\ flash'.host = flash.host /\ flash'.tok = flash.tok
    BY <1>2, Answers, PairedKeeps
  <2>2. CASE Restart
    BY <2>1, <2>2 DEF Restart, MaybeRelay
  <2>3. CASE /\ at' \in {"settings", "fetch", "help", "clearId", "message", "clearUid", "confirm"}
             /\ UNCHANGED ram
    BY <2>1, <2>3
  <2> QED BY <1>2, Answers, <2>2, <2>3
<1>3. CASE TypeConfirm(k)
  BY <1>3 DEF TypeConfirm
<1>4. CASE EndConfirm(k)
  BY <1>4 DEF EndConfirm
<1>5. CASE Dismiss(k)
  BY <1>5 DEF Dismiss, Restart, GoTo, MaybeRelay
<1> QED BY <1>1, <1>2, <1>3, <1>4, <1>5 DEF Key

LEMMA ConfigOther == ConfigInv /\ (Start \/ Bind \/ BindCancelled \/ Fetch) => ConfigInv'
<1> SUFFICES ASSUME ConfigInv, Start \/ Bind \/ BindCancelled \/ Fetch PROVE ConfigInv'
  OBVIOUS
<1> USE DEF ConfigInv, FlashType, RamType, BuiltIn, Whole, Known, AtOff, AtAsking, AtHalf, AtUp,
            AtChosen, AtClear, AtWiped, Off, Asking, Up, Chosen, Consistent, Places, MenuScreens,
            Writes, ram, ghosts, GoTo
<1>1. CASE Start
  BY <1>1 DEF Start
<1>2. CASE Bind
  BY <1>2 DEF Bind
<1>3. CASE BindCancelled
  BY <1>3 DEF BindCancelled, Restart, MaybeRelay
<1>4. CASE Fetch
  BY <1>4 DEF Fetch
<1> QED BY <1>1, <1>2, <1>3, <1>4

THEOREM SettingsKnown == Spec => []ConfigInv
<1>1. ConfigInv /\ UNCHANGED vars => ConfigInv'
  BY DEF vars, ConfigInv, FlashType, RamType, BuiltIn, Whole, Known, AtOff, AtAsking, AtHalf, AtUp,
     AtChosen, AtClear, AtWiped, Consistent
<1>2. ConfigInv /\ [Next]_vars => ConfigInv'
  BY <1>1, ConfigBoot, ConfigAsk, ConfigSaves, ConfigForgets, ConfigCut, ConfigKey, ConfigOther
     DEF Next
<1> QED BY <1>2, ConfigInit, PTL DEF Spec

\* A device runs with the id and the host of one relay, wherever power fails
\* during the setup and whatever writes of a binding are lost (main.c).
THEOREM OneRelay == Spec => []IdAndHostMatch
<1>1. ConfigInv => IdAndHostMatch
  BY DEF ConfigInv, Whole, Known, AtUp, Up, Chosen, IdAndHostMatch, Running
<1> QED BY <1>1, SettingsKnown, PTL

\* A device presents a token to the relay that issued it, over re-setups,
\* unbindings and bindings that were cut or lost (main.c, storage.c).
THEOREM OwnToken == Spec => []TokenOfRelay
<1>1. ConfigInv => TokenOfRelay
  BY DEF ConfigInv, Whole, Known, AtChosen, Chosen, TokenOfRelay
<1> QED BY <1>1, SettingsKnown, PTL

\* Records and the identity: only a pairing and a wipe touch them.
LEMMA RecordsKept ==
    ASSUME ConfigInv, RecordsInv, UNCHANGED <<flash, torn>>, at \notin {"wipeMain", "wipePeers"},
           at' # "wipePeers"
    PROVE  RecordsInv'
  BY DEF RecordsInv, RecordsOfIdentity

LEMMA RecordsForgets == ConfigInv /\ RecordsInv /\ Forgets => RecordsInv'
<1> SUFFICES ASSUME ConfigInv, RecordsInv, Forgets PROVE RecordsInv'
  OBVIOUS
<1> USE DEF ConfigInv, FlashType, RecordsInv, RecordsOfIdentity, GoTo, Store, Marks
<1>1. CASE ClearId
  BY <1>1 DEF ClearId
<1>2. CASE ClearHost
  BY <1>2 DEF ClearHost
<1>3. CASE ClearUid
  BY <1>3 DEF ClearUid
<1>4. CASE ClearTok
  BY <1>4 DEF ClearTok
<1>5. CASE WipeMain
  BY <1>5 DEF WipeMain, Blank, MainKeys, AllParts
<1>6. CASE WipePeers
  BY <1>6 DEF WipePeers, WipedRecords
<1> QED BY <1>1, <1>2, <1>3, <1>4, <1>5, <1>6 DEF Forgets

LEMMA RecordsKey ==
    ASSUME ConfigInv, RecordsInv, NEW k \in Keys, Key(k)
    PROVE  RecordsInv'
<1>1. CASE Choose(k)
  <2>1. /\ at \in MenuScreens /\ torn' = torn /\ at' \notin {"wipeMain", "wipePeers"}
        /\ flash.records \subseteq {flash.ident} => flash'.records \subseteq {flash'.ident}
    BY <1>1, Answers, PairedKeeps DEF ConfigInv, RamType, Restart
  <2> QED BY <2>1 DEF RecordsInv, RecordsOfIdentity, MenuScreens
<1>2. CASE EndConfirm(k)
  BY <1>2 DEF EndConfirm, ghosts, RecordsInv, RecordsOfIdentity
<1>3. CASE Move(k) \/ TypeConfirm(k) \/ Dismiss(k)
  BY <1>3, RecordsKept DEF Move, TypeConfirm, Dismiss, Restart, GoTo, ghosts, MenuScreens
<1> QED BY <1>1, <1>2, <1>3 DEF Key

\* Records of peers were made with the identity of the device, over pairings,
\* wipes, re-setups and power cuts outside a wipe (storage_forget_all).
THEOREM OwnRecords == Spec => []RecordsOfIdentity
<1>1. Init => RecordsInv
  BY DEF Init, Blank, RecordsInv, RecordsOfIdentity
<1>2. ConfigInv /\ RecordsInv /\ [Next]_vars => RecordsInv'
  <2> SUFFICES ASSUME ConfigInv, RecordsInv, [Next]_vars PROVE RecordsInv'
    OBVIOUS
  <2>1. CASE Boot
    <3>1. "records" \notin torn' => "records" \notin torn \/ flash.records = {}
      BY <2>1 DEF Boot, Left
    <3> QED BY <2>1, <3>1 DEF Boot, GoTo, RecordsInv, RecordsOfIdentity
  <2>2. CASE Saves
    BY <2>2 DEF Saves, SaveId, SaveHost, SaveUid, SaveTok, GoTo, Store, Marks, ConfigInv, FlashType,
       RecordsInv, RecordsOfIdentity
  <2>3. CASE PowerCut
    BY <2>3 DEF PowerCut, Restart, Marks, CutMarks, AllParts, RecordsInv, RecordsOfIdentity
  <2>4. CASE AskId \/ AskHost \/ Start \/ Bind \/ BindCancelled \/ Fetch
    BY <2>4, RecordsKept DEF AskId, AskHost, Start, Bind, BindCancelled, Restart, Fetch, GoTo, ghosts
  <2>5. CASE UNCHANGED vars
    BY <2>5 DEF vars, RecordsInv, RecordsOfIdentity
  <2> QED BY <2>1, <2>2, <2>3, <2>4, <2>5, RecordsForgets, RecordsKey DEF Next
<1>3. RecordsInv => RecordsOfIdentity
  BY DEF RecordsInv
<1> QED BY <1>1, <1>2, <1>3, SettingsKnown, PTL DEF Spec

(***************************************************************************)
(* Types                                                                   *)
(***************************************************************************)

\* What is typed stays within the buffer, with a byte for the terminator.
LEMMA TextStays ==
    ASSUME NEW t \in Seq(Chars), Len(t) < Cap, NEW k
    PROVE  TextKey(t, k, Cap, Chars) \in Seq(Chars) /\ Len(TextKey(t, k, Cap, Chars)) < Cap
<1>1. Cap \in Nat /\ "BACKSPACE" \notin Chars
  BY SetupAssumption
<1>2. CASE k = "BACKSPACE" /\ t # NoText
  <2>1. TextKey(t, k, Cap, Chars) = SubSeq(t, 1, Len(t) - 1)
    BY <1>1, <1>2 DEF TextKey
  <2>2. PICK n : n = Len(t) - 1 /\ n \in 0 .. Len(t)
    BY <1>2 DEF NoText
  <2>3. SubSeq(t, 1, n) \in Seq(Chars) /\ Len(SubSeq(t, 1, n)) = n
    BY <2>2, SubSeqProperties
  <2>4. QED BY <1>1, <2>1, <2>2, <2>3
<1>3. CASE k \in Chars
  <2>1. TextKey(t, k, Cap, Chars) = Typed(t, k, Cap - 1)
    BY <1>1, <1>3 DEF TextKey
  <2>2. QED BY <1>1, <1>3, <2>1 DEF Typed
<1>4. CASE ~(k = "BACKSPACE" /\ t # NoText) /\ k \notin Chars
  BY <1>4 DEF TextKey
<1>5. QED BY <1>2, <1>3, <1>4

\* No more identities than were made, and records of those alone.
IdsInv ==
    /\ ids \in 0 .. MaxIds /\ cuts \in 0 .. MaxCuts
    /\ flash.ident \in 0 .. ids /\ flash.records \subseteq 1 .. ids
    /\ text \in Seq(Chars) /\ Len(text) < Cap

LEMMA EmptyText == NoText \in Seq(Chars) /\ Len(NoText) < Cap
<1>1. Word \in Seq(Chars) /\ Cap \in Nat /\ Len(Word) < Cap
  BY SetupAssumption
<1>2. Len(Word) \in Nat
  BY <1>1
<1>3. QED BY <1>1, <1>2 DEF NoText

LEMMA InitIds == Init => IdsInv
<1>1. MaxIds \in Nat /\ MaxCuts \in Nat
  BY SetupAssumption
<1>2. QED BY <1>1, EmptyText DEF Init, Blank, IdsInv

LEMMA NextIds == ConfigInv /\ IdsInv /\ [Next]_vars => IdsInv'
<1> SUFFICES ASSUME ConfigInv, IdsInv, [Next]_vars PROVE IdsInv'
  OBVIOUS
<1>0. MaxIds \in Nat /\ MaxCuts \in Nat
  BY SetupAssumption
<1>f. flash \in [rid : MaybeRelay, host : MaybeRelay, uid : BOOLEAN, tok : MaybeRelay,
                 ident : Nat, records : SUBSET (Nat \ {0})]
  BY DEF ConfigInv, FlashType
\* Steps that write other values, or none, or erase.
<1>k. ASSUME ids' = ids, cuts' \in 0 .. MaxCuts, flash'.ident \in {0, flash.ident},
             flash'.records \subseteq flash.records,
             text' \in {text, NoText}
      PROVE  IdsInv'
  BY <1>0, <1>k, EmptyText DEF IdsInv
<1>1. ASSUME NEW k \in Keys, Choose(k)
      PROVE  IdsInv'
  <2>1. cuts' = cuts /\ text' \in {text, NoText}
    <3>1. Restart => text' = NoText
      BY DEF Restart
    <3>2. QED BY <1>1, <3>1 DEF Choose, MenuScreens, ghosts
  <2>2. CASE UNCHANGED <<flash, ids>>
    BY <1>k, <2>1, <2>2 DEF IdsInv
  <2>3. CASE Paired /\ ~UNCHANGED <<flash, ids>>
    <3>0. PICK id : id = IF flash.ident = 0 THEN ids + 1 ELSE flash.ident
      OBVIOUS
    <3>1. /\ flash.ident # 0 \/ ids < MaxIds
          /\ ids' = IF flash.ident = 0 THEN ids + 1 ELSE ids
          /\ \E made \in {{}, {id}} :
                 flash' = [flash EXCEPT !.ident = id, !.records = @ \cup made]
      BY <2>3, <3>0 DEF Paired
    <3>2. ids \in Nat /\ flash.ident \in 0 .. ids /\ flash.records \subseteq 1 .. ids
      BY DEF IdsInv
    <3>3. ids' \in 0 .. MaxIds /\ id \in 1 .. ids' /\ ids <= ids' /\ ids' \in Nat
      BY <1>0, <3>0, <3>1, <3>2 DEF IdsInv
    <3>4. flash'.ident = id /\ flash'.records \subseteq flash.records \cup {id}
      BY <1>f, <3>1
    <3>5. flash.records \subseteq 1 .. ids'
      BY <3>2, <3>3
    <3>6. flash'.records \subseteq 1 .. ids' /\ flash'.ident \in 0 .. ids'
      BY <3>3, <3>4, <3>5
    <3>7. QED BY <2>1, <3>3, <3>6, EmptyText DEF IdsInv
  <2>4. QED BY <1>1, <2>2, <2>3 DEF Choose
<1>2. ASSUME NEW k \in Keys, Move(k) \/ EndConfirm(k) \/ Dismiss(k)
      PROVE  IdsInv'
  BY <1>2, <1>k DEF Move, EndConfirm, Dismiss, Restart, ghosts, ui, IdsInv
<1>3. ASSUME NEW k \in Keys, TypeConfirm(k)
      PROVE  IdsInv'
  <2>1. UNCHANGED <<flash, ids, cuts>> /\ text' = TextKey(text, k, Cap, Chars)
    BY <1>3 DEF TypeConfirm, ghosts
  <2>2. text' \in Seq(Chars) /\ Len(text') < Cap
    BY <2>1, TextStays DEF IdsInv
  <2>3. QED BY <2>1, <2>2 DEF IdsInv
<1>4. CASE PowerCut
  <2>1. cuts' \in 0 .. MaxCuts
    BY <1>0, <1>4 DEF PowerCut, IdsInv
  <2>2. QED BY <1>4, <1>k, <2>1 DEF PowerCut, Restart, IdsInv
<1>5. CASE Saves
  BY <1>5, <1>k, <1>f DEF Saves, SaveId, SaveHost, SaveUid, SaveTok, Store, ui, IdsInv
<1>6. CASE Forgets
  <2>1. ids' = ids /\ cuts' = cuts /\ text' = text
    BY <1>6 DEF Forgets, ui
  <2>2. CASE ClearId \/ ClearHost \/ ClearUid \/ ClearTok
    BY <1>k, <1>f, <2>1, <2>2 DEF ClearId, ClearHost, ClearUid, ClearTok, Store, IdsInv
  <2>3. CASE WipeMain
    <3>1. flash' = flash \/ \E key \in MainKeys : flash' = [flash EXCEPT ![key] = Blank[key]]
      BY <2>3 DEF WipeMain
    <3>2. flash'.ident \in {0, flash.ident} /\ flash'.records = flash.records
      BY <1>f, <3>1 DEF MainKeys, Blank
    <3>3. QED BY <1>k, <2>1, <3>2 DEF IdsInv
  <2>4. CASE WipePeers
    BY <1>k, <1>f, <2>1, <2>4 DEF WipePeers, WipedRecords, Store, IdsInv
  <2>5. QED BY <1>6, <2>2, <2>3, <2>4 DEF Forgets
<1>7. CASE Boot \/ AskId \/ AskHost \/ Start \/ Bind \/ BindCancelled \/ Fetch \/ UNCHANGED vars
  <2>1. flash' = flash /\ ids' = ids /\ cuts' = cuts /\ text' \in {text, NoText}
    BY <1>7 DEF Boot, AskId, AskHost, Start, Bind, BindCancelled, Restart, Fetch, ui, ghosts, vars
  <2>2. QED BY <1>k, <2>1 DEF IdsInv
<1>8. QED
  BY <1>1, <1>2, <1>3, <1>4, <1>5, <1>6, <1>7 DEF Next, Key

\* Types: what is typed fits the buffer of ui_text_input, and records are of
\* identities that were made.
THEOREM SetupTypes == Spec => []SetupTypeOK
<1>1. ConfigInv /\ IdsInv /\ MenuInv => SetupTypeOK
  <2> SUFFICES ASSUME ConfigInv, IdsInv, MenuInv PROVE SetupTypeOK
    OBVIOUS
  <2>1. flash.ident \in 0 .. MaxIds /\ flash.records \in SUBSET (1 .. MaxIds)
    <3>1. MaxIds \in Nat /\ ids \in 0 .. MaxIds
      BY SetupAssumption DEF IdsInv
    <3>2. QED BY <3>1 DEF IdsInv
  <2>2. flash \in [rid : Relays \cup {None}, host : Relays \cup {None}, uid : BOOLEAN,
                   tok : Relays \cup {None}, ident : 0 .. MaxIds, records : SUBSET (1 .. MaxIds)]
    BY <2>1 DEF ConfigInv, FlashType, MaybeRelay
  <2>3. QED BY <2>2 DEF ConfigInv, RamType, MaybeRelay, IdsInv, MenuInv, SetupTypeOK
<1>2. QED BY <1>1, InitIds, NextIds, ConfigInit, SettingsKnown, MenusShow, PTL DEF Spec
================================================================================
