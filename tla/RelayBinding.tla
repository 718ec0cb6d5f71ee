---------------------------- MODULE RelayBinding -----------------------------
(***************************************************************************)
(* How a device gets a bearer token: the six-digit code it shows           *)
(* (screen_bind in main.c), /pair and /unbind on the relay, /bind_poll     *)
(* (bot.py), the state file and the two values the device keeps in flash.  *)
(* Two devices may show one code and two users may type one; a save may    *)
(* fail, a response may be lost, the relay restarts and the power fails    *)
(* between any two steps.                                                  *)
(*                                                                         *)
(* The relay is one event loop, and no handler here awaits between reading *)
(* its tables and saving them, so a handler is one step.  The clock is the *)
(* set of entries whose ten minutes are over.  An entry is known by the    *)
(* token made for it; "claimed" is set and the entry popped in one step,   *)
(* so no entry in the table is ever claimed.                               *)
(***************************************************************************)
EXTENDS Integers, FiniteSets

CONSTANTS
    Users,        \* Telegram users
    Devices,      \* Cardputers
    Codes,        \* six-digit codes
    MaxTokens,    \* bound: tokens made in a run, one per /pair
    SaveMayFail,  \* TRUE: writing the state file may raise
    None

ASSUME BindingAssumption ==
    /\ MaxTokens \in Nat
    /\ SaveMayFail \in BOOLEAN
    /\ None \notin Users /\ None \notin Codes /\ None \notin 1 .. MaxTokens

Tokens == 1 .. MaxTokens
Entries == [user : Users, token : Tokens]

VARIABLES
    mem,      \* the relay's tables: pending, userCode and owner
    disk,     \* the state file
    made,     \* tokens made so far
    expired,  \* tokens whose entry is out of time
    actor,    \* the user on whose behalf the relay last acted
    at,       \* what each device is doing
    code,     \* the code a device shows
    reply,    \* uid and token a device was told
    nvsUid,   \* user id in the device's flash
    nvsTok,   \* token in the device's flash
    tokenLeft \* history: devices where an erase was cut and left the token

relayVars  == <<mem, disk, made, expired, actor>>
deviceVars == <<at, code, reply, nvsUid, nvsTok, tokenLeft>>
vars == <<mem, disk, made, expired, actor, at, code, reply, nvsUid, nvsTok, tokenLeft>>

\* pending_device_bind, user_to_device_code, device_to_user.
Tables == [pending  : [Codes -> Entries \cup {None}],
           userCode : [Users -> Codes \cup {None}],
           owner    : [Tokens -> Users \cup {None}]]

\* _save_state: the file is replaced whole, or stays as it was.
Saved == disk' = mem'
SaveRaises == SaveMayFail /\ disk' = disk

(***************************************************************************)
(* Relay                                                                   *)
(***************************************************************************)

\* The codes a /pair of user u frees: an earlier one of theirs that is still
\* theirs.
EarlierCodes(u) ==
    {c \in Codes : /\ c = mem.userCode[u]
                   /\ mem.pending[c] # None
                   /\ mem.pending[c].user = u}

\* /pair NNNNNN.
CmdPair(u, c) ==
    /\ made < MaxTokens
    /\ made' = made + 1
    /\ mem' = [mem EXCEPT
          !.pending = [k \in Codes |-> IF k = c THEN [user |-> u, token |-> made + 1]
                                       ELSE IF k \in EarlierCodes(u) THEN None ELSE @[k]],
          !.userCode[u] = c]
    /\ Saved \/ SaveRaises
    /\ actor' = u
    /\ UNCHANGED <<expired, deviceVars>>

TokensOf(u) == {t \in Tokens : mem.owner[t] = u}

\* What /unbind picks: all, one, or none when the argument names no device or
\* several are bound and none is named.
Targets(u) == {{}, TokensOf(u)} \cup {{t} : t \in TokensOf(u)}

\* /unbind: the code the user typed last is cleared, whoever typed it since.
CmdUnbind(u) ==
    /\ \E gone \in Targets(u) :
           mem' = [mem EXCEPT
              !.pending = [k \in Codes |-> IF k = mem.userCode[u] THEN None ELSE @[k]],
              !.userCode[u] = None,
              !.owner = [t \in Tokens |-> IF t \in gone THEN None ELSE @[t]]]
    /\ Saved \/ SaveRaises
    /\ actor' = u
    /\ UNCHANGED <<made, expired, deviceVars>>

\* Ten minutes pass for an entry that the relay has, or has in its file.
Expire(t) ==
    /\ t \in 1 .. made \ expired
    /\ \E c \in Codes, tables \in {mem, disk} :
           tables.pending[c] # None /\ tables.pending[c].token = t
    /\ expired' = expired \cup {t}
    /\ UNCHANGED <<mem, disk, made, actor, deviceVars>>

IsExpired(c) == mem.pending[c] # None /\ mem.pending[c].token \in expired

\* prune_pending, once a minute.
PrunePending ==
    /\ \E c \in Codes : IsExpired(c)
    /\ mem' = [mem EXCEPT !.pending =
                  [k \in Codes |-> IF IsExpired(k) THEN None ELSE @[k]]]
    /\ Saved \/ SaveRaises
    /\ UNCHANGED <<made, expired, actor, deviceVars>>

\* Any other save (the update loop saves after each batch) writes it all.
OtherSave ==
    /\ disk # mem
    /\ disk' = mem
    /\ UNCHANGED <<mem, made, expired, actor, deviceVars>>

\* The process stops and starts again from the file.
Restart ==
    /\ mem' = disk
    /\ actor' = None
    /\ UNCHANGED <<disk, made, expired, deviceVars>>

(***************************************************************************)
(* Device                                                                  *)
(***************************************************************************)

\* gen_bind_code: codes are random, two devices may show one.
ShowNewCode(d) == \E c \in Codes : code' = [code EXCEPT ![d] = c]

\* Mutant: the token is not looked at.
HasUid(d) == nvsUid[d] # None

HasBinding(d) == nvsUid[d] # None /\ nvsTok[d] # None

\* app_main, Wi-Fi and relay set up: bound when both values are there,
\* otherwise a fresh code.
Boot(d) ==
    /\ at[d] = "off"
    /\ IF HasBinding(d)
       THEN at' = [at EXCEPT ![d] = "bound"] /\ UNCHANGED code
       ELSE at' = [at EXCEPT ![d] = "binding"] /\ ShowNewCode(d)
    /\ UNCHANGED <<relayVars, reply, nvsUid, nvsTok, tokenLeft>>

\* Mutant: the entry stays where it is.
ClaimedKeepingEntry(c) ==
    LET e == mem.pending[c]
    IN  [mem EXCEPT
            !.userCode[e.user] = None,
            !.owner = [t \in Tokens |-> IF t = e.token THEN e.user
                                        ELSE IF @[t] = e.user THEN None ELSE @[t]]]

\* Mutant: earlier tokens of the user stay valid.
ClaimedKeepingStale(c) ==
    LET e == mem.pending[c]
    IN  [mem EXCEPT
            !.pending[c] = None,
            !.userCode[e.user] = None,
            !.owner[e.token] = e.user]

\* What the relay changes for the first /bind_poll of a code that is paired.
Claimed(c) ==
    LET e == mem.pending[c]
    IN  [mem EXCEPT
            !.pending[c] = None,
            !.userCode[e.user] = None,
            !.owner = [t \in Tokens |-> IF t = e.token THEN e.user
                                        ELSE IF @[t] = e.user THEN None ELSE @[t]]]

\* tx_bind_poll got the answer: the user id and the token are in hand.
Told(d, e) ==
    /\ reply' = [reply EXCEPT ![d] = e]
    /\ at' = [at EXCEPT ![d] = "told"]

CanClaim(d) ==
    /\ at[d] = "binding"
    /\ mem.pending[code[d]] # None
    /\ ~IsExpired(code[d])

\* Mutant: the response goes out before the state is saved.
PollBoundUnsaved(d) ==
    /\ CanClaim(d)
    /\ LET e == mem.pending[code[d]]
       IN  /\ mem' = Claimed(code[d])
           /\ actor' = e.user
           /\ Told(d, e)
    /\ disk' = disk
    /\ UNCHANGED <<made, expired, code, nvsUid, nvsTok, tokenLeft>>

\* /bind_poll on a paired code: saved first, then answered; the answer may be
\* lost.  A save that raises is answered 500.
PollBound(d) ==
    /\ CanClaim(d)
    /\ mem' = Claimed(code[d])
    /\ actor' = mem.pending[code[d]].user
    /\ \/ Saved /\ Told(d, mem.pending[code[d]])
       \/ (Saved \/ SaveRaises) /\ UNCHANGED <<reply, at>>
    /\ UNCHANGED <<made, expired, code, nvsUid, nvsTok, tokenLeft>>

\* /bind_poll on an expired code: the entry is dropped, the answer is 410 and
\* the device shows another code, unless the answer is lost.
PollExpired(d) ==
    /\ at[d] = "binding"
    /\ IsExpired(code[d])
    /\ mem' = [mem EXCEPT !.pending[code[d]] = None]
    /\ \/ Saved /\ ShowNewCode(d)
       \/ (Saved \/ SaveRaises) /\ UNCHANGED code
    /\ UNCHANGED <<made, expired, actor, at, reply, nvsUid, nvsTok, tokenLeft>>

\* save_user_chat_id.
SaveUid(d) ==
    /\ at[d] = "told"
    /\ nvsUid' = [nvsUid EXCEPT ![d] = reply[d].user]
    /\ at' = [at EXCEPT ![d] = "uidSaved"]
    /\ UNCHANGED <<relayVars, code, reply, nvsTok, tokenLeft>>

\* storage_save_device_token: the new token takes the place of any other.
SaveToken(d) ==
    /\ at[d] = "uidSaved"
    /\ tokenLeft' = tokenLeft \ {d}
    /\ nvsTok' = [nvsTok EXCEPT ![d] = reply[d].token]
    /\ at' = [at EXCEPT ![d] = "bound"]
    /\ UNCHANGED <<relayVars, code, reply, nvsUid>>

\* Mutant: the token stays in flash.
EraseUidOnly(d) ==
    /\ nvsUid' = [nvsUid EXCEPT ![d] = None]
    /\ tokenLeft' = tokenLeft \ {d}
    /\ UNCHANGED nvsTok

BothErased(d) ==
    /\ nvsUid' = [nvsUid EXCEPT ![d] = None]
    /\ nvsTok' = [nvsTok EXCEPT ![d] = None]
    /\ tokenLeft' = tokenLeft \ {d}

\* Power fails in between: storage_forget_binding erases the user id first,
\* nvs_erase_all of storage_forget_all sets no order.
CutBetweenErases(d) ==
    \/ /\ nvsUid' = [nvsUid EXCEPT ![d] = None]
       /\ tokenLeft' = tokenLeft \cup {d}
       /\ UNCHANGED nvsTok
    \/ /\ nvsTok' = [nvsTok EXCEPT ![d] = None]
       /\ UNCHANGED <<nvsUid, tokenLeft>>

\* storage_forget_binding, or storage_forget_all.
EraseBinding(d) == BothErased(d) \/ CutBetweenErases(d)

\* Settings: "Unbind device", "Re-setup relay" or "Wipe everything", each of
\* which ends in a reboot.
ForgetBinding(d) ==
    /\ at[d] = "bound"
    /\ EraseBinding(d)
    /\ at' = [at EXCEPT ![d] = "off"]
    /\ UNCHANGED <<relayVars, code, reply>>

\* The power fails, or Esc leaves screen_bind, which restarts the device.
PowerLoss(d) ==
    /\ at[d] # "off"
    /\ at' = [at EXCEPT ![d] = "off"]
    /\ reply' = [reply EXCEPT ![d] = None]
    /\ code' = [code EXCEPT ![d] = None]
    /\ UNCHANGED <<relayVars, nvsUid, nvsTok, tokenLeft>>

(***************************************************************************)
(* The specification                                                       *)
(***************************************************************************)

Init ==
    /\ mem = [pending  |-> [c \in Codes |-> None],
              userCode |-> [u \in Users |-> None],
              owner    |-> [t \in Tokens |-> None]]
    /\ disk = mem
    /\ made = 0
    /\ expired = {}
    /\ actor = None
    /\ at = [d \in Devices |-> "off"]
    /\ code = [d \in Devices |-> None]
    /\ reply = [d \in Devices |-> None]
    /\ nvsUid = [d \in Devices |-> None]
    /\ nvsTok = [d \in Devices |-> None]
    /\ tokenLeft = {}

RelayNext ==
    \/ \E u \in Users, c \in Codes : CmdPair(u, c)
    \/ \E u \in Users : CmdUnbind(u)
    \/ \E t \in Tokens : Expire(t)
    \/ PrunePending
    \/ OtherSave
    \/ Restart

DeviceNext(d) ==
    \/ Boot(d) \/ PollBound(d) \/ PollExpired(d)
    \/ SaveUid(d) \/ SaveToken(d)
    \/ ForgetBinding(d) \/ PowerLoss(d)

Next == RelayNext \/ \E d \in Devices : DeviceNext(d)

Spec == Init /\ [][Next]_vars

(***************************************************************************)
(* Properties                                                              *)
(***************************************************************************)

\* Types; a device talks to the relay only with both values in its flash, and
\* writes only what it was told.
BindTypeOK ==
    /\ mem \in Tables /\ disk \in Tables
    /\ made \in 0 .. MaxTokens
    /\ expired \subseteq 1 .. made
    /\ actor \in Users \cup {None}
    /\ at \in [Devices -> {"off", "binding", "told", "uidSaved", "bound"}]
    /\ code \in [Devices -> Codes \cup {None}]
    /\ reply \in [Devices -> Entries \cup {None}]
    /\ nvsUid \in [Devices -> Users \cup {None}]
    /\ nvsTok \in [Devices -> Tokens \cup {None}]
    /\ tokenLeft \subseteq Devices
    /\ \A d \in Devices :
           /\ at[d] \in {"told", "uidSaved"} => reply[d] # None
           /\ at[d] = "bound" => nvsUid[d] # None /\ nvsTok[d] # None

\* A device that talks to the relay has the token and the id of one user,
\* whatever it was bound to before and wherever the power failed, but for one
\* history: a cut between the two erases (storage.c:196-197) left the token,
\* and a second cut between the two writes of the next binding
\* (main.c:169-170) put another user's id beside it.
TokenNamesItsUser ==
    \A d \in Devices \ tokenLeft : at[d] = "bound" =>
        mem.owner[nvsTok[d]] \in {nvsUid[d], None}

\* bot.py:1023, "One claim per code": two devices never hold one token,
\* even if they showed the same code and the relay restarted in between.
TokenOnOneDevice ==
    \A d, e \in Devices :
        d # e /\ nvsTok[d] # None => nvsTok[d] # nvsTok[e]

\* bot.py:1030-1031, "this is my current Cardputer; forget the previous
\* one(s)": a user has one valid token at most.
OneTokenPerUser ==
    \A u \in Users : Cardinality(TokensOf(u)) <= 1

\* A device that has its token is only logged out by a command of the user it
\* belongs to: not by another user, not by a restart, not by a clean-up.
Held(t) == \E d \in Devices : nvsTok[d] = t

OnlyOwnerDetaches ==
    [][\A t \in Tokens, u \in Users :
           Held(t) /\ mem.owner[t] = u /\ mem'.owner[t] # u => actor' = u]_vars
==============================================================================
