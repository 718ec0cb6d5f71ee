-------------------------- MODULE RelayBindingProofs --------------------------
(***************************************************************************)
(* Tokens, users and devices, for any number of them, with failing saves,  *)
(* lost responses, restarts and power cuts.                                *)
(*                                                                         *)
(* The argument is about where a token is.  It is made for one user and    *)
(* one code; while it waits under a code no device has it, and the poll    *)
(* that hands it out takes it from the process and from the file before    *)
(* the answer goes.  From then on process and file agree on its owner, so  *)
(* that a restart cannot undo a binding a device relies on.                *)
(***************************************************************************)
EXTENDS RelayBinding, FiniteSetTheorems, TLAPS

(***************************************************************************)
(* What tables say                                                         *)
(***************************************************************************)
Pending(m, t) == \E c \in Codes : m.pending[c] # None /\ m.pending[c].token = t

\* Token t is for user u.
Named(m, t, u) ==
    \/ \E c \in Codes : m.pending[c] # None /\ m.pending[c].token = t /\ m.pending[c].user = u
    \/ m.owner[t] = u

OneCode(m) ==
    \A b, c \in Codes :
        m.pending[b] # None /\ m.pending[c] # None /\ m.pending[b].token = m.pending[c].token => b = c

OneToken(m) == \A s, t \in Tokens : m.owner[s] # None /\ m.owner[s] = m.owner[t] => s = t

\* Only tokens that were made are anywhere.
Used(m, n) == \A t \in Tokens : Pending(m, t) \/ m.owner[t] # None => t <= n

Sane(m, n) == OneCode(m) /\ OneToken(m) /\ Used(m, n)

\* The tables t know nothing that m does not.
Fewer(m, t) ==
    /\ \A c \in Codes : t.pending[c] \in {None, m.pending[c]}
    /\ \A x \in Tokens : t.owner[x] \in {None, m.owner[x]}

LEMMA FewerSane ==
    ASSUME NEW m, NEW t, NEW n, Fewer(m, t), Sane(m, n)
    PROVE  /\ Sane(t, n)
           /\ \A x \in Tokens : Pending(t, x) => Pending(m, x)
           /\ \A x \in Tokens, u \in Users : Named(t, x, u) => Named(m, x, u)
<1>1. OneCode(t)
  BY DEF Fewer, Sane, OneCode
<1>2. OneToken(t)
  BY DEF Fewer, Sane, OneToken
<1>3. \A x \in Tokens : Pending(t, x) => Pending(m, x)
  BY DEF Fewer, Pending
<1>4. Used(t, n)
  BY <1>3 DEF Fewer, Sane, Used
<1>5. \A x \in Tokens, u \in Users : Named(t, x, u) => Named(m, x, u)
  BY BindingAssumption DEF Fewer, Named
<1>6. QED
  BY <1>1, <1>2, <1>3, <1>4, <1>5 DEF Sane

(***************************************************************************)
(* The relay's steps, as changes of its tables                             *)
(***************************************************************************)
LEMMA PairStep ==
    ASSUME mem \in Tables, made \in 0 .. MaxTokens,
           NEW u \in Users, NEW c \in Codes, CmdPair(u, c)
    PROVE  /\ mem' \in Tables /\ mem'.owner = mem.owner
           /\ made' = made + 1 /\ made' \in Tokens
           /\ mem'.pending[c] = [user |-> u, token |-> made']
           /\ \A k \in Codes : k # c => mem'.pending[k] \in {None, mem.pending[k]}
<1> DEFINE e == [user |-> u, token |-> made + 1]
           p == [k \in Codes |-> IF k = c THEN e ELSE IF k \in EarlierCodes(u) THEN None ELSE mem.pending[k]]
           uc == [mem.userCode EXCEPT ![u] = c]
<1>1. made' = made + 1 /\ made + 1 \in Tokens /\ e \in Entries
  BY BindingAssumption DEF CmdPair, Tokens, Entries
<1>2. mem' = [mem EXCEPT !.pending = p, !.userCode[u] = c]
  BY DEF CmdPair
<1>3. mem.pending \in [Codes -> Entries \cup {None}] /\ mem.owner \in [Tokens -> Users \cup {None}]
  BY DEF Tables
<1> HIDE DEF e
<1>4. p \in [Codes -> Entries \cup {None}]
  BY <1>1, <1>3
<1>5. uc \in [Users -> Codes \cup {None}]
  BY DEF Tables
<1>6. p[c] = e /\ \A k \in Codes : k # c => p[k] \in {None, mem.pending[k]}
  OBVIOUS
<1> HIDE DEF p
<1>7. mem' = [mem EXCEPT !.pending = p, !.userCode = uc, !.owner = mem.owner]
  BY <1>2 DEF Tables
<1> HIDE DEF uc
<1>8. mem' \in Tables /\ mem'.pending = p /\ mem'.owner = mem.owner
  BY <1>3, <1>4, <1>5, <1>7 DEF Tables
<1>9. QED
  BY <1>1, <1>6, <1>8 DEF e

LEMMA UnbindStep ==
    ASSUME mem \in Tables, NEW u \in Users, CmdUnbind(u)
    PROVE  /\ mem' \in Tables /\ Fewer(mem, mem')
           /\ \A t \in Tokens : mem'.owner[t] # mem.owner[t] => mem.owner[t] = u
<1> DEFINE p == [k \in Codes |-> IF k = mem.userCode[u] THEN None ELSE mem.pending[k]]
           uc == [mem.userCode EXCEPT ![u] = None]
<1>1. PICK gone \in Targets(u) :
          mem' = [mem EXCEPT !.pending = p, !.userCode[u] = None,
                             !.owner = [t \in Tokens |-> IF t \in gone THEN None ELSE mem.owner[t]]]
  BY DEF CmdUnbind
<1> DEFINE o == [t \in Tokens |-> IF t \in gone THEN None ELSE mem.owner[t]]
<1>2. gone \subseteq TokensOf(u)
  BY DEF Targets
<1>3. mem.pending \in [Codes -> Entries \cup {None}] /\ mem.owner \in [Tokens -> Users \cup {None}]
  BY DEF Tables
<1>4. p \in [Codes -> Entries \cup {None}] /\ o \in [Tokens -> Users \cup {None}]
  BY <1>3
<1>5. uc \in [Users -> Codes \cup {None}]
  BY DEF Tables
<1>6. /\ \A k \in Codes : p[k] \in {None, mem.pending[k]}
      /\ \A t \in Tokens : o[t] \in {None, mem.owner[t]} /\ (o[t] # mem.owner[t] => mem.owner[t] = u)
  BY <1>2 DEF TokensOf
<1> HIDE DEF p, o
<1>7. mem' = [mem EXCEPT !.pending = p, !.userCode = uc, !.owner = o]
  BY <1>1 DEF Tables, o
<1> HIDE DEF uc
<1>8. mem' \in Tables /\ mem'.pending = p /\ mem'.owner = o
  BY <1>4, <1>5, <1>7 DEF Tables
<1>9. QED
  BY <1>6, <1>8 DEF Fewer

\* Entries that go, and nothing else.
LEMMA EntriesGo ==
    ASSUME NEW m \in Tables, NEW p \in [Codes -> Entries \cup {None}],
           \A k \in Codes : p[k] \in {None, m.pending[k]}
    PROVE  /\ [m EXCEPT !.pending = p] \in Tables /\ Fewer(m, [m EXCEPT !.pending = p])
           /\ [m EXCEPT !.pending = p].owner = m.owner
BY DEF Tables, Fewer

LEMMA PruneStep ==
    ASSUME mem \in Tables, PrunePending
    PROVE  mem' \in Tables /\ Fewer(mem, mem') /\ mem'.owner = mem.owner
<1> DEFINE p == [k \in Codes |-> IF IsExpired(k) THEN None ELSE mem.pending[k]]
<1>1. mem' = [mem EXCEPT !.pending = p]
  BY DEF PrunePending
<1>2. p \in [Codes -> Entries \cup {None}] /\ \A k \in Codes : p[k] \in {None, mem.pending[k]}
  BY DEF Tables
<1> HIDE DEF p
<1>3. QED
  BY <1>1, <1>2, EntriesGo

LEMMA ExpiredStep ==
    ASSUME mem \in Tables, NEW d, PollExpired(d)
    PROVE  mem' \in Tables /\ Fewer(mem, mem') /\ mem'.owner = mem.owner
<1> DEFINE p == [mem.pending EXCEPT ![code[d]] = None]
<1>1. mem' = [mem EXCEPT !.pending = p]
  BY DEF PollExpired
<1>2. p \in [Codes -> Entries \cup {None}] /\ \A k \in Codes : p[k] \in {None, mem.pending[k]}
  BY DEF Tables
<1> HIDE DEF p
<1>3. QED
  BY <1>1, <1>2, EntriesGo

\* A claim: the entry goes, its token is its user's only one.
LEMMA ClaimStep ==
    ASSUME mem \in Tables, NEW c \in Codes, mem.pending[c] # None
    PROVE  LET e == mem.pending[c]
           IN  /\ e \in Entries
               /\ Claimed(c) \in Tables
               /\ Claimed(c).pending[c] = None
               /\ \A k \in Codes : k # c => Claimed(c).pending[k] = mem.pending[k]
               /\ Claimed(c).owner[e.token] = e.user
               /\ \A t \in Tokens : t # e.token =>
                     Claimed(c).owner[t] = IF mem.owner[t] = e.user THEN None ELSE mem.owner[t]
<1> DEFINE e == mem.pending[c]
           p == [mem.pending EXCEPT ![c] = None]
           uc == [mem.userCode EXCEPT ![e.user] = None]
           o == [t \in Tokens |-> IF t = e.token THEN e.user
                                  ELSE IF mem.owner[t] = e.user THEN None ELSE mem.owner[t]]
<1>1. /\ mem.pending \in [Codes -> Entries \cup {None}]
      /\ mem.userCode \in [Users -> Codes \cup {None}]
      /\ mem.owner \in [Tokens -> Users \cup {None}]
      /\ e \in Entries
  BY DEF Tables
<1>2. e.user \in Users /\ e.token \in Tokens
  BY <1>1 DEF Entries
<1>3. Claimed(c) = [mem EXCEPT !.pending = p, !.userCode = uc, !.owner = o]
  BY DEF Claimed, Tables
<1>4. p \in [Codes -> Entries \cup {None}] /\ p[c] = None /\ \A k \in Codes : k # c => p[k] = mem.pending[k]
  BY <1>1
<1> HIDE DEF e, p
<1>5. uc \in [Users -> Codes \cup {None}]
  BY <1>1
<1>6. /\ o \in [Tokens -> Users \cup {None}] /\ o[e.token] = e.user
      /\ \A t \in Tokens : t # e.token => o[t] = IF mem.owner[t] = e.user THEN None ELSE mem.owner[t]
  BY <1>1, <1>2
<1> HIDE DEF uc, o
<1> DEFINE t == Claimed(c)
<1>7. t \in Tables /\ t.pending = p /\ t.owner = o
  BY <1>3, <1>4, <1>5, <1>6 DEF Tables
<1> HIDE DEF t
<1>8. QED
  BY <1>1, <1>4, <1>6, <1>7 DEF e, t

(***************************************************************************)
(* Types                                                                   *)
(***************************************************************************)
RelayTypes ==
    /\ mem \in Tables /\ disk \in Tables
    /\ made \in 0 .. MaxTokens /\ expired \subseteq 1 .. made
    /\ actor \in Users \cup {None}

DeviceTypes ==
    /\ at \in [Devices -> {"off", "binding", "told", "uidSaved", "bound"}]
    /\ code \in [Devices -> Codes \cup {None}]
    /\ reply \in [Devices -> Entries \cup {None}]
    /\ nvsUid \in [Devices -> Users \cup {None}]
    /\ nvsTok \in [Devices -> Tokens \cup {None}]
    /\ tokenLeft \subseteq Devices
    /\ \A d \in Devices :
           /\ at[d] = "binding" => code[d] # None
           /\ at[d] \in {"told", "uidSaved"} => reply[d] # None
           /\ at[d] = "uidSaved" => nvsUid[d] # None
           /\ at[d] = "bound" => nvsUid[d] # None /\ nvsTok[d] # None

BindTypes == RelayTypes /\ DeviceTypes

LEMMA InitBindTypes == Init => BindTypes
BY BindingAssumption DEF Init, BindTypes, RelayTypes, DeviceTypes, Tables

LEMMA EntryParts == \A e \in Entries : e.user \in Users /\ e.token \in Tokens /\ e.user # None /\ e.token # None
BY BindingAssumption DEF Entries, Tokens

LEMMA NextBindTypes == BindTypes /\ [Next]_vars => BindTypes'
<1> SUFFICES ASSUME RelayTypes, DeviceTypes, [Next]_vars
             PROVE  RelayTypes' /\ DeviceTypes'
  BY DEF BindTypes
<1>0. MaxTokens \in Nat /\ None \notin Users /\ None \notin Codes /\ None \notin Tokens
  BY BindingAssumption DEF Tokens
<1>1. ASSUME UNCHANGED deviceVars
      PROVE  DeviceTypes'
  BY <1>1 DEF deviceVars, DeviceTypes
<1>2. ASSUME mem' \in Tables, disk' = disk \/ disk' = mem', actor' \in Users \cup {None},
             UNCHANGED <<made, expired>>
      PROVE  RelayTypes'
  BY <1>2 DEF RelayTypes
<1>3. ASSUME UNCHANGED relayVars
      PROVE  RelayTypes'
  BY <1>3 DEF relayVars, RelayTypes
<1>4. ASSUME NEW u \in Users, NEW c \in Codes, CmdPair(u, c)
      PROVE  RelayTypes' /\ DeviceTypes'
  <2>1. mem' \in Tables /\ made' = made + 1 /\ made' \in Tokens
    BY <1>4, PairStep DEF RelayTypes
  <2>2. disk' \in Tables /\ actor' = u /\ expired' = expired /\ UNCHANGED deviceVars
    BY <1>4, <2>1 DEF CmdPair, Saved, SaveRaises, RelayTypes
  <2>3. QED
    BY <2>1, <2>2, <1>0, <1>1 DEF RelayTypes, Tokens
<1>5. ASSUME NEW u \in Users, CmdUnbind(u)
      PROVE  RelayTypes' /\ DeviceTypes'
  BY <1>5, <1>1, <1>2, UnbindStep DEF CmdUnbind, Saved, SaveRaises, RelayTypes
<1>6. ASSUME NEW t \in Tokens, Expire(t)
      PROVE  RelayTypes' /\ DeviceTypes'
  <2>1. expired' \subseteq 1 .. made /\ UNCHANGED <<mem, disk, made, actor>> /\ UNCHANGED deviceVars
    BY <1>6 DEF Expire, RelayTypes
  <2>2. QED
    BY <2>1, <1>1 DEF RelayTypes
<1>7. CASE PrunePending
  BY <1>7, <1>1, <1>2, PruneStep DEF PrunePending, Saved, SaveRaises, RelayTypes
<1>8. CASE OtherSave \/ Restart
  BY <1>8, <1>1, <1>2 DEF OtherSave, Restart, RelayTypes
<1>9. ASSUME NEW d \in Devices, Boot(d)
      PROVE  RelayTypes' /\ DeviceTypes'
  BY <1>9, <1>0, <1>3 DEF Boot, ShowNewCode, HasBinding, DeviceTypes
<1>10. ASSUME NEW d \in Devices, PollBound(d)
       PROVE  RelayTypes' /\ DeviceTypes'
  <2> DEFINE e == mem.pending[code[d]]
  <2>1. code[d] \in Codes /\ e # None
    BY <1>10 DEF PollBound, CanClaim, DeviceTypes
  <2>2. e \in Entries /\ mem' \in Tables
    BY <1>10, <2>1, ClaimStep DEF PollBound, RelayTypes
  <2>3. RelayTypes'
    <3>1. actor' \in Users \cup {None}
      BY <1>10, <2>2, EntryParts DEF PollBound
    <3>2. QED
      BY <1>10, <1>2, <2>2, <3>1 DEF PollBound, Saved, SaveRaises
  <2>4. CASE Told(d, e)
    BY <1>10, <2>1, <2>2, <2>3, <2>4 DEF PollBound, Told, DeviceTypes
  <2>5. CASE UNCHANGED <<reply, at>>
    BY <1>10, <2>3, <2>5 DEF PollBound, DeviceTypes
  <2>6. QED
    BY <1>10, <2>3, <2>4, <2>5 DEF PollBound
<1>11. ASSUME NEW d \in Devices, PollExpired(d)
       PROVE  RelayTypes' /\ DeviceTypes'
  <2>1. RelayTypes'
    BY <1>11, <1>2, ExpiredStep DEF PollExpired, Saved, SaveRaises, RelayTypes
  <2>2. DeviceTypes'
    BY <1>11, <1>0 DEF PollExpired, ShowNewCode, DeviceTypes
  <2>3. QED
    BY <2>1, <2>2
<1>12. ASSUME NEW d \in Devices, SaveUid(d)
       PROVE  RelayTypes' /\ DeviceTypes'
  <2>1. reply[d] \in Entries /\ reply[d].user \in Users /\ reply[d].user # None
    BY <1>12, EntryParts DEF SaveUid, DeviceTypes
  <2>2. QED
    BY <1>12, <1>3, <2>1 DEF SaveUid, DeviceTypes
<1>13. ASSUME NEW d \in Devices, SaveToken(d)
       PROVE  RelayTypes' /\ DeviceTypes'
  <2>1. reply[d] \in Entries /\ reply[d].token \in Tokens /\ reply[d].token # None
    BY <1>13, EntryParts DEF SaveToken, DeviceTypes
  <2>2. QED
    BY <1>13, <1>3, <2>1 DEF SaveToken, DeviceTypes
<1>14. ASSUME NEW d \in Devices, ForgetBinding(d)
       PROVE  RelayTypes' /\ DeviceTypes'
  BY <1>14, <1>3 DEF ForgetBinding, EraseBinding, BothErased, CutBetweenErases, DeviceTypes
<1>15. ASSUME NEW d \in Devices, PowerLoss(d)
       PROVE  RelayTypes' /\ DeviceTypes'
  BY <1>15, <1>3 DEF PowerLoss, DeviceTypes
<1>16. CASE UNCHANGED vars
  <2>1. UNCHANGED relayVars /\ UNCHANGED deviceVars
    BY <1>16 DEF vars, relayVars, deviceVars
  <2>2. QED
    BY <2>1, <1>1, <1>3
<1>17. QED
  BY <1>4, <1>5, <1>6, <1>7, <1>8, <1>9, <1>10, <1>11, <1>12, <1>13, <1>14, <1>15, <1>16
  DEF Next, RelayNext, DeviceNext

\* A device talks to the relay only with both values in flash, and writes only
\* what it was told.
THEOREM BindTypeCorrect == Spec => []BindTypeOK
<1>1. BindTypes => BindTypeOK
  BY DEF BindTypes, RelayTypes, DeviceTypes, BindTypeOK
<1>2. QED
  BY InitBindTypes, NextBindTypes, <1>1, PTL DEF Spec

(***************************************************************************)
(* Where tokens are                                                        *)
(***************************************************************************)
InHand(d) == at[d] \in {"told", "uidSaved"}

Has(d, t) == nvsTok[d] = t \/ (InHand(d) /\ reply[d].token = t)

\* What device d takes token t for; a token an erase left behind stands for
\* nobody.
Takes(d, t, u) ==
    \/ d \notin tokenLeft /\ nvsTok[d] = t /\ nvsUid[d] = u
    \/ InHand(d) /\ reply[d].token = t /\ reply[d].user = u

OneHolder == \A d, e \in Devices, t \in Tokens : Has(d, t) /\ Has(e, t) => d = e

\* A token a device has waits nowhere, and a restart keeps its owner.
Handed(t) ==
    /\ t <= made
    /\ ~Pending(mem, t) /\ ~Pending(disk, t)
    /\ mem.owner[t] # None => disk.owner[t] = mem.owner[t]

HeldHanded == \A d \in Devices, t \in Tokens : Has(d, t) => Handed(t)

PlaceInv == Sane(mem, made) /\ Sane(disk, made) /\ OneHolder /\ HeldHanded

\* The tables after a step of the relay know no more than before, but devices
\* are as they were.
LEMMA RelayPlaces ==
    ASSUME PlaceInv, UNCHANGED <<made, deviceVars>>,
           Fewer(mem, mem') \/ mem' = disk,
           disk' = disk \/ disk' = mem'
    PROVE  PlaceInv'
<1>1. Sane(mem', made) /\ Sane(disk', made)
  BY FewerSane DEF PlaceInv
<1>2. \A d \in Devices, t \in Tokens : Has(d, t)' <=> Has(d, t)
  BY DEF Has, InHand, deviceVars
<1>3. ASSUME NEW d \in Devices, NEW t \in Tokens, Has(d, t)
      PROVE  Handed(t)'
  <2>1. /\ t <= made /\ ~Pending(mem, t) /\ ~Pending(disk, t)
        /\ mem.owner[t] # None => disk.owner[t] = mem.owner[t]
    BY <1>3 DEF PlaceInv, HeldHanded, Handed
  <2>2. ~Pending(mem', t)
    BY <2>1, FewerSane DEF PlaceInv
  <2>3. mem'.owner[t] # None => disk'.owner[t] = mem'.owner[t]
    BY <2>1 DEF Fewer
  <2>4. ~Pending(disk', t)
    BY <2>1, <2>2
  <2>5. t <= made'
    BY <2>1
  <2>6. QED
    BY <2>2, <2>3, <2>4, <2>5 DEF Handed, Pending
<1>4. OneHolder' /\ HeldHanded'
  BY <1>2, <1>3 DEF PlaceInv, OneHolder, HeldHanded
<1>5. QED
  BY <1>1, <1>4 DEF PlaceInv, Sane, OneCode, OneToken, Used, Pending

\* A device does something with what it has, or forgets it.
LEMMA DevicePlaces ==
    ASSUME PlaceInv, UNCHANGED relayVars,
           \A d \in Devices, t \in Tokens : Has(d, t)' => Has(d, t)
    PROVE  PlaceInv'
<1>1. UNCHANGED <<mem, disk, made>>
  BY DEF relayVars
<1>2. \A t \in Tokens : Handed(t) => Handed(t)'
  BY <1>1 DEF Handed, Pending
<1>3. OneHolder' /\ HeldHanded'
  BY <1>2 DEF PlaceInv, OneHolder, HeldHanded
<1>4. QED
  BY <1>1, <1>3 DEF PlaceInv, Sane, OneCode, OneToken, Used, Pending

\* A new token is nowhere yet.
LEMMA PairPlaces ==
    ASSUME BindTypes, PlaceInv, NEW u \in Users, NEW c \in Codes, CmdPair(u, c)
    PROVE  PlaceInv'
<1> DEFINE n == made'
           m == mem'
<1>1. /\ m.owner = mem.owner /\ n = made + 1 /\ n \in Tokens /\ made \in Nat
      /\ m.pending[c] = [user |-> u, token |-> n]
      /\ \A k \in Codes : k # c => m.pending[k] \in {None, mem.pending[k]}
  BY PairStep, BindingAssumption DEF BindTypes, RelayTypes
<1>2. /\ disk' = disk \/ disk' = m
      /\ UNCHANGED deviceVars
  BY DEF CmdPair, Saved, SaveRaises
<1>3. /\ m.pending[c].token = n
      /\ \A t \in Tokens : t <= made => t <= n /\ t # n
  <2>1. \A t \in Tokens : t \in Nat
    BY BindingAssumption DEF Tokens
  <2> HIDE DEF n, m
  <2>2. m.pending[c].token = n
    <3>1. m.pending[c] = [user |-> u, token |-> n]
      BY <1>1
    <3>2. QED
      BY <3>1
  <2>3. \A t \in Tokens : t <= made => t <= n /\ t # n
    <3>1. n = made + 1 /\ made \in Nat
      BY <1>1
    <3>2. QED
      BY <2>1, <3>1
  <2>4. QED
    BY <2>2, <2>3
<1> HIDE DEF n, m
<1>4. \A k \in Codes : mem.pending[k] # None => mem.pending[k].token # n
  <2>1. mem.pending \in [Codes -> Entries \cup {None}]
    BY DEF BindTypes, RelayTypes, Tables
  <2>2. Used(mem, made)
    BY DEF PlaceInv, Sane
  <2>3. QED
    BY <1>1, <2>1, <2>2, EntryParts DEF Used, Pending
<1>5. \A t \in Tokens : Pending(m, t) => t = n \/ Pending(mem, t)
  BY <1>1, <1>3 DEF Pending
<1>6. Sane(m, n)
  <2>1. OneCode(m)
    BY <1>1, <1>3, <1>4 DEF PlaceInv, Sane, OneCode
  <2>2. OneToken(m)
    <3>1. OneToken(mem) /\ m.owner = mem.owner
      BY <1>1 DEF PlaceInv, Sane
    <3>2. QED
      BY <3>1 DEF OneToken
  <2>3. Used(m, n)
    BY <1>1, <1>3, <1>5 DEF PlaceInv, Sane, Used
  <2>4. QED
    BY <2>1, <2>2, <2>3 DEF Sane
<1>7. Sane(disk, n)
  BY <1>1, <1>3 DEF PlaceInv, Sane, Used
<1>8. \A d \in Devices, t \in Tokens : Has(d, t)' <=> Has(d, t)
  BY <1>2 DEF Has, InHand, deviceVars
<1>9. ASSUME NEW d \in Devices, NEW t \in Tokens, Has(d, t)
      PROVE  Handed(t)'
  <2>1. /\ t <= made /\ ~Pending(mem, t) /\ ~Pending(disk, t)
        /\ mem.owner[t] # None => disk.owner[t] = mem.owner[t]
    BY <1>9 DEF PlaceInv, HeldHanded, Handed
  <2>2. t # n /\ t <= n
    BY <1>1, <1>3, <2>1
  <2>3. ~Pending(m, t) /\ ~Pending(disk', t)
    BY <1>2, <1>5, <2>1, <2>2
  <2>4. m.owner[t] # None => disk'.owner[t] = m.owner[t]
    BY <1>1, <1>2, <2>1
  <2>5. QED
    BY <2>2, <2>3, <2>4 DEF Handed, Pending, m, n
<1>10. OneHolder' /\ HeldHanded'
  BY <1>8, <1>9 DEF PlaceInv, OneHolder, HeldHanded
<1>11. Sane(disk', n)
  BY <1>2, <1>6, <1>7
<1>12. QED
  BY <1>6, <1>10, <1>11 DEF PlaceInv, Sane, OneCode, OneToken, Used, Pending, m, n

\* The token leaves the tables' waiting entries before any device has it.
LEMMA PollPlaces ==
    ASSUME BindTypes, PlaceInv, NEW d \in Devices, PollBound(d)
    PROVE  PlaceInv'
<1>0. PICK c, e : c = code[d] /\ e = mem.pending[c]
  OBVIOUS
<1> DEFINE m == mem'
<1>1. c \in Codes /\ e # None /\ m = Claimed(c)
  BY <1>0 DEF PollBound, CanClaim, BindTypes, DeviceTypes
<1>2. /\ e \in Entries /\ m.pending[c] = None
      /\ \A k \in Codes : k # c => m.pending[k] = mem.pending[k]
      /\ m.owner[e.token] = e.user
      /\ \A t \in Tokens : t # e.token =>
             m.owner[t] = IF mem.owner[t] = e.user THEN None ELSE mem.owner[t]
  BY <1>0, <1>1, ClaimStep DEF BindTypes, RelayTypes
<1>3. /\ e.user \in Users /\ e.user # None /\ e.token \in Tokens
      /\ Pending(mem, e.token)
  BY <1>0, <1>1, <1>2, EntryParts DEF Pending
<1>4. /\ UNCHANGED <<made, nvsUid, nvsTok>>
      /\ \/ disk' = m /\ Told(d, e)
         \/ (disk' = m \/ disk' = disk) /\ UNCHANGED <<reply, at>>
  BY <1>0 DEF PollBound, Saved, SaveRaises
<1> HIDE DEF m
<1>5. /\ \A t \in Tokens : Pending(m, t) => Pending(mem, t) /\ t # e.token
      /\ OneCode(m)
  BY <1>0, <1>1, <1>2 DEF PlaceInv, Sane, OneCode, Pending
<1>6. OneToken(m)
  BY <1>2, <1>3 DEF PlaceInv, Sane, OneToken
<1>7. Used(m, made)
  BY <1>2, <1>3, <1>5 DEF PlaceInv, Sane, Used
<1>8. Sane(m, made) /\ Sane(disk', made)
  BY <1>4, <1>5, <1>6, <1>7 DEF PlaceInv, Sane
<1>9. ASSUME NEW t \in Tokens, Handed(t)
      PROVE  Handed(t)'
  <2>1. /\ t <= made /\ ~Pending(mem, t) /\ ~Pending(disk, t)
        /\ mem.owner[t] # None => disk.owner[t] = mem.owner[t]
    BY <1>9 DEF Handed
  <2>2. ~Pending(m, t) /\ ~Pending(disk', t)
    BY <1>4, <1>5, <2>1
  <2>3. m.owner[t] # None => disk'.owner[t] = m.owner[t]
    BY <1>2, <1>3, <1>4, <2>1
  <2>4. t <= made'
    BY <1>4, <2>1
  <2>5. QED
    BY <2>2, <2>3, <2>4 DEF Handed, Pending, m
<1>10. CASE disk' = m /\ Told(d, e)
  <2>1. at' = [at EXCEPT ![d] = "told"] /\ reply' = [reply EXCEPT ![d] = e]
    BY <1>10 DEF Told
  <2>2. at \in [Devices -> {"off", "binding", "told", "uidSaved", "bound"}] /\ reply \in [Devices -> Entries \cup {None}]
    BY DEF BindTypes, DeviceTypes
  <2>3. \A x \in Devices, t \in Tokens : Has(x, t)' => Has(x, t) \/ (x = d /\ t = e.token)
    BY <1>4, <2>1, <2>2 DEF Has, InHand
  <2>4. \A x \in Devices : ~Has(x, e.token)
    BY <1>3 DEF PlaceInv, HeldHanded, Handed
  <2>5. OneHolder'
    BY <1>3, <2>3, <2>4 DEF PlaceInv, OneHolder
  <2>6. Handed(e.token)'
    <3>1. e.token <= made
      BY <1>3 DEF PlaceInv, Sane, Used
    <3>2. ~Pending(m, e.token)
      BY <1>3, <1>5
    <3>3. e.token <= made' /\ ~Pending(m, e.token) /\ ~Pending(disk', e.token)
      BY <1>4, <1>10, <3>1, <3>2
    <3>4. disk'.owner[e.token] = m.owner[e.token]
      BY <1>10
    <3>5. QED
      BY <3>3, <3>4 DEF Handed, Pending, m
  <2>7. HeldHanded'
    BY <1>9, <2>3, <2>6 DEF PlaceInv, HeldHanded
  <2>8. QED
    BY <1>4, <1>8, <2>5, <2>7 DEF PlaceInv, Sane, OneCode, OneToken, Used, Pending, m
<1>11. CASE UNCHANGED <<reply, at>>
  <2>1. \A x \in Devices, t \in Tokens : Has(x, t)' <=> Has(x, t)
    BY <1>4, <1>11 DEF Has, InHand
  <2>2. OneHolder' /\ HeldHanded'
    BY <1>9, <2>1 DEF PlaceInv, OneHolder, HeldHanded
  <2>3. QED
    BY <1>4, <1>8, <2>2 DEF PlaceInv, Sane, OneCode, OneToken, Used, Pending, m
<1>12. QED
  BY <1>4, <1>10, <1>11

LEMMA InitPlaces == Init => PlaceInv
<1> SUFFICES ASSUME Init PROVE PlaceInv
  OBVIOUS
<1>1. Sane(mem, made) /\ Sane(disk, made)
  BY DEF Init, Sane, OneCode, OneToken, Used, Pending
<1>2. \A d \in Devices, t \in Tokens : ~Has(d, t)
  BY BindingAssumption DEF Init, Has, InHand, Tokens
<1>3. QED
  BY <1>1, <1>2 DEF PlaceInv, OneHolder, HeldHanded

LEMMA HasStays ==
    ASSUME BindTypes, NEW d \in Devices,
           Boot(d) \/ SaveUid(d) \/ SaveToken(d) \/ ForgetBinding(d) \/ PowerLoss(d)
    PROVE  \A x \in Devices, t \in Tokens : Has(x, t)' => Has(x, t)
<1> USE DEF Has, InHand
<1>0. /\ at \in [Devices -> {"off", "binding", "told", "uidSaved", "bound"}]
      /\ nvsTok \in [Devices -> Tokens \cup {None}] /\ None \notin Tokens
      /\ reply \in [Devices -> Entries \cup {None}]
  BY BindingAssumption DEF BindTypes, DeviceTypes, Tokens
<1>1. CASE Boot(d)
  BY <1>0, <1>1 DEF Boot
<1>2. CASE SaveUid(d)
  BY <1>0, <1>2 DEF SaveUid
<1>3. CASE SaveToken(d)
  BY <1>0, <1>3 DEF SaveToken
<1>4. CASE ForgetBinding(d)
  BY <1>0, <1>4 DEF ForgetBinding, EraseBinding, BothErased, CutBetweenErases
<1>5. CASE PowerLoss(d)
  BY <1>0, <1>5 DEF PowerLoss
<1>6. QED
  BY <1>1, <1>2, <1>3, <1>4, <1>5

LEMMA NextPlaces == BindTypes /\ PlaceInv /\ [Next]_vars => PlaceInv'
<1> SUFFICES ASSUME BindTypes, PlaceInv, [Next]_vars
             PROVE  PlaceInv'
  OBVIOUS
<1>0. mem \in Tables
  BY DEF BindTypes, RelayTypes
<1>1. ASSUME NEW u \in Users, NEW c \in Codes, CmdPair(u, c)
      PROVE  PlaceInv'
  BY <1>1, PairPlaces
<1>2. ASSUME NEW u \in Users, CmdUnbind(u)
      PROVE  PlaceInv'
  <2>1. Fewer(mem, mem')
    BY <1>0, <1>2, UnbindStep
  <2>2. UNCHANGED <<made, deviceVars>> /\ (disk' = disk \/ disk' = mem')
    BY <1>2 DEF CmdUnbind, Saved, SaveRaises
  <2>3. QED
    BY <2>1, <2>2, RelayPlaces
<1>3. CASE PrunePending
  <2>1. Fewer(mem, mem')
    BY <1>0, <1>3, PruneStep
  <2>2. UNCHANGED <<made, deviceVars>> /\ (disk' = disk \/ disk' = mem')
    BY <1>3 DEF PrunePending, Saved, SaveRaises
  <2>3. QED
    BY <2>1, <2>2, RelayPlaces
<1>4. ASSUME NEW t \in Tokens, Expire(t)
      PROVE  PlaceInv'
  <2>1. Fewer(mem, mem')
    BY <1>4 DEF Expire, Fewer
  <2>2. UNCHANGED <<made, deviceVars>> /\ disk' = disk
    BY <1>4 DEF Expire
  <2>3. QED
    BY <2>1, <2>2, RelayPlaces
<1>5. CASE OtherSave
  <2>1. Fewer(mem, mem')
    BY <1>5 DEF OtherSave, Fewer
  <2>2. UNCHANGED <<made, deviceVars>> /\ disk' = mem'
    BY <1>5 DEF OtherSave
  <2>3. QED
    BY <2>1, <2>2, RelayPlaces
<1>6. CASE Restart
  BY <1>6, RelayPlaces DEF Restart
<1>7. ASSUME NEW d \in Devices, PollBound(d)
      PROVE  PlaceInv'
  BY <1>7, PollPlaces
<1>8. ASSUME NEW d \in Devices, PollExpired(d)
      PROVE  PlaceInv'
  <2>1. Fewer(mem, mem')
    BY <1>0, <1>8, ExpiredStep
  <2>2. Sane(mem', made) /\ Sane(disk', made)
    BY <1>8, <2>1, FewerSane DEF PlaceInv, PollExpired, Saved, SaveRaises
  <2>3. /\ UNCHANGED <<made, at, reply, nvsTok>>
        /\ disk' = disk \/ disk' = mem'
    BY <1>8 DEF PollExpired, Saved, SaveRaises
  <2>4. \A x \in Devices, t \in Tokens : Has(x, t)' <=> Has(x, t)
    BY <2>3 DEF Has, InHand
  <2>5. ASSUME NEW t \in Tokens, Handed(t)
        PROVE  Handed(t)'
    <3>1. /\ t <= made /\ ~Pending(mem, t) /\ ~Pending(disk, t)
          /\ mem.owner[t] # None => disk.owner[t] = mem.owner[t]
      BY <2>5 DEF Handed
    <3>2. ~Pending(mem', t) /\ ~Pending(disk', t)
      BY <2>1, <2>3, <3>1, FewerSane DEF PlaceInv
    <3>3. mem'.owner[t] # None => disk'.owner[t] = mem'.owner[t]
      BY <2>1, <2>3, <3>1 DEF Fewer
    <3>4. t <= made'
      BY <2>3, <3>1
    <3>5. QED
      BY <3>2, <3>3, <3>4 DEF Handed, Pending
  <2>6. OneHolder' /\ HeldHanded'
    BY <2>4, <2>5 DEF PlaceInv, OneHolder, HeldHanded
  <2>7. QED
    BY <2>2, <2>3, <2>6 DEF PlaceInv, Sane, OneCode, OneToken, Used, Pending
<1>9. ASSUME NEW d \in Devices,
             Boot(d) \/ SaveUid(d) \/ SaveToken(d) \/ ForgetBinding(d) \/ PowerLoss(d)
      PROVE  PlaceInv'
  <2>1. UNCHANGED relayVars
    BY <1>9 DEF Boot, SaveUid, SaveToken, ForgetBinding, PowerLoss
  <2>2. QED
    BY <1>9, <2>1, HasStays, DevicePlaces
<1>10. CASE UNCHANGED vars
  <2>1. UNCHANGED relayVars /\ \A d \in Devices, t \in Tokens : Has(d, t)' => Has(d, t)
    BY <1>10 DEF vars, relayVars, Has, InHand
  <2>2. QED
    BY <2>1, DevicePlaces
<1>11. QED
  BY <1>1, <1>2, <1>3, <1>4, <1>5, <1>6, <1>7, <1>8, <1>9, <1>10 DEF Next, RelayNext, DeviceNext

\* Two devices that showed one code never share the token it led to.
THEOREM TokenHeldOnce == Spec => []TokenOnOneDevice
<1>1. BindTypes /\ PlaceInv => TokenOnOneDevice
  BY DEF BindTypes, DeviceTypes, PlaceInv, OneHolder, Has, TokenOnOneDevice
<1>2. QED
  BY InitBindTypes, NextBindTypes, InitPlaces, NextPlaces, <1>1, PTL DEF Spec

\* A re-binding forgets the tokens before, restarts included.
THEOREM SingleToken == Spec => []OneTokenPerUser
<1>1. ASSUME BindTypes, PlaceInv, NEW u \in Users
      PROVE  Cardinality(TokensOf(u)) <= 1
  <2>1. \A s, t \in TokensOf(u) : s = t
    BY <1>1, BindingAssumption DEF TokensOf, PlaceInv, Sane, OneToken
  <2>2. CASE TokensOf(u) = {}
    BY <2>2, FS_EmptySet
  <2>3. ASSUME NEW t \in TokensOf(u)
        PROVE  Cardinality(TokensOf(u)) <= 1
    <3>1. TokensOf(u) = {t}
      BY <2>1
    <3>2. QED
      BY <3>1, FS_Singleton
  <2>4. QED
    BY <2>2, <2>3
<1>2. BindTypes /\ PlaceInv => OneTokenPerUser
  BY <1>1 DEF OneTokenPerUser
<1>3. QED
  BY InitBindTypes, NextBindTypes, InitPlaces, NextPlaces, <1>2, PTL DEF Spec

(***************************************************************************)
(* Who logs a device out                                                   *)
(***************************************************************************)

\* A device that has its token is logged out by its own user only: the tables
\* a restart brings back name the same owner, and the poll of another user's
\* code touches other tokens.
THEOREM LoggedOutByOwner == Spec => OnlyOwnerDetaches
<1> DEFINE Own(t, u) == Held(t) /\ mem.owner[t] = u /\ mem'.owner[t] # u => actor' = u
           Stay == \A t \in Tokens, u \in Users : Own(t, u)
<1>1. ASSUME BindTypes, PlaceInv, [Next]_vars
      PROVE  Stay
  <2>0. mem \in Tables /\ \A u \in Users : u # None
    BY <1>1, BindingAssumption DEF BindTypes, RelayTypes
  <2>1. ASSUME mem'.owner = mem.owner
        PROVE  Stay
    BY <2>1
  <2>2. ASSUME NEW v \in Users, CmdUnbind(v)
        PROVE  Stay
    <3>1. actor' = v /\ \A t \in Tokens : mem'.owner[t] # mem.owner[t] => mem.owner[t] = v
      BY <2>0, <2>2, UnbindStep DEF CmdUnbind
    <3>2. QED
      BY <3>1
  <2>3. CASE Restart
    <3>1. mem' = disk
      BY <2>3 DEF Restart
    <3>2. ASSUME NEW t \in Tokens, NEW u \in Users, Held(t), mem.owner[t] = u
          PROVE  mem'.owner[t] = u
      BY <1>1, <2>0, <3>1, <3>2 DEF Held, PlaceInv, HeldHanded, Handed, Has
    <3>3. QED
      BY <3>2
  <2>4. ASSUME NEW d \in Devices, PollBound(d)
        PROVE  Stay
    <3>1. PICK c, e : c = code[d] /\ e = mem.pending[c]
      OBVIOUS
    <3>2. c \in Codes /\ e # None /\ mem' = Claimed(c) /\ actor' = e.user
      BY <1>1, <2>4, <3>1 DEF PollBound, CanClaim, BindTypes, DeviceTypes
    <3>3. \A t \in Tokens : t # e.token =>
              mem'.owner[t] = IF mem.owner[t] = e.user THEN None ELSE mem.owner[t]
      BY <2>0, <3>1, <3>2, ClaimStep
    <3>4. ASSUME NEW t \in Tokens, Held(t)
          PROVE  t # e.token
      <4>1. ~Pending(mem, t)
        BY <1>1, <3>4 DEF Held, PlaceInv, HeldHanded, Handed, Has
      <4>2. QED
        BY <3>1, <3>2, <4>1 DEF Pending
    <3>5. QED
      BY <3>2, <3>3, <3>4
  <2>5. ASSUME NEW u \in Users, NEW c \in Codes, CmdPair(u, c)
        PROVE  mem'.owner = mem.owner
    BY <1>1, <2>5, PairStep DEF BindTypes, RelayTypes
  <2>6. PrunePending => mem'.owner = mem.owner
    BY <2>0, PruneStep
  <2>7. ASSUME NEW d \in Devices, PollExpired(d)
        PROVE  mem'.owner = mem.owner
    BY <2>0, <2>7, ExpiredStep
  <2>8. ASSUME NEW d \in Devices,
               Boot(d) \/ SaveUid(d) \/ SaveToken(d) \/ ForgetBinding(d) \/ PowerLoss(d)
        PROVE  mem' = mem
    BY <2>8 DEF Boot, SaveUid, SaveToken, ForgetBinding, PowerLoss, relayVars
  <2>9. (OtherSave \/ (\E t \in Tokens : Expire(t)) \/ UNCHANGED vars) => mem' = mem
    BY DEF OtherSave, Expire, vars
  <2>10. QED
    BY <1>1, <2>1, <2>2, <2>3, <2>4, <2>5, <2>6, <2>7, <2>8, <2>9 DEF Next, RelayNext, DeviceNext
<1>2. ASSUME BindTypes, PlaceInv, [Next]_vars
      PROVE  [Stay]_vars
  BY <1>1, <1>2
<1>3. QED
  BY <1>2, InitBindTypes, NextBindTypes, InitPlaces, NextPlaces, PTL DEF Spec, OnlyOwnerDetaches

(***************************************************************************)
(* Whose a token is                                                        *)
(***************************************************************************)

\* Anybody at all takes t for a token of u.
Says(t, u) ==
    \/ Named(mem, t, u)
    \/ Named(disk, t, u)
    \/ \E d \in Devices : Takes(d, t, u)

OneUser == \A t \in Tokens, u, v \in Users : Says(t, u) /\ Says(t, v) => u = v

\* Between the two writes of a binding there is no older token in flash,
\* unless an erase left it there.
FlashOK(d) ==
    /\ d \notin tokenLeft =>
           /\ nvsTok[d] # None => nvsUid[d] # None
           /\ at[d] \in {"binding", "told", "uidSaved"} => nvsTok[d] = None
    /\ at[d] = "uidSaved" => nvsUid[d] = reply[d].user

Flash == \A d \in Devices : FlashOK(d)

LEMMA InitUsers == Init => OneUser /\ Flash
<1> SUFFICES ASSUME Init PROVE OneUser /\ Flash
  OBVIOUS
<1>1. \A t \in Tokens, u \in Users : ~Says(t, u)
  BY BindingAssumption DEF Init, Says, Named, Takes, InHand, Tokens
<1>2. QED
  BY <1>1 DEF Init, OneUser, Flash, FlashOK

LEMMA NothingNew ==
    ASSUME OneUser, \A t \in Tokens, u \in Users : Says(t, u)' => Says(t, u)
    PROVE  OneUser'
BY DEF OneUser

\* The relay's tables change among themselves.
LEMMA RelaySays ==
    ASSUME PlaceInv, UNCHANGED <<at, reply, nvsUid, nvsTok, tokenLeft>>,
           Fewer(mem, mem') \/ mem' = disk,
           disk' = disk \/ disk' = mem'
    PROVE  \A t \in Tokens, u \in Users : Says(t, u)' => Says(t, u)
<1>1. \A d \in Devices, t \in Tokens, u \in Users : Takes(d, t, u)' <=> Takes(d, t, u)
  BY DEF Takes, InHand
<1>2. \A t \in Tokens, u \in Users : Named(mem', t, u) => Named(mem, t, u) \/ Named(disk, t, u)
  BY FewerSane DEF PlaceInv
<1>3. \A t \in Tokens, u \in Users : Named(disk', t, u) => Named(mem, t, u) \/ Named(disk, t, u)
  BY <1>2
<1>4. QED
  BY <1>1, <1>2, <1>3 DEF Says, Named

LEMMA PairUsers ==
    ASSUME BindTypes, PlaceInv, OneUser, NEW u \in Users, NEW c \in Codes, CmdPair(u, c)
    PROVE  OneUser'
<1> DEFINE m == mem'
<1>0. PICK n : n = made'
  OBVIOUS
<1>1. /\ m.owner = mem.owner /\ n = made + 1 /\ n \in Tokens /\ made \in Nat
      /\ m.pending[c] = [user |-> u, token |-> n]
      /\ \A k \in Codes : k # c => m.pending[k] \in {None, mem.pending[k]}
  BY <1>0, PairStep, BindingAssumption DEF BindTypes, RelayTypes
<1>2. /\ disk' = disk \/ disk' = m
      /\ UNCHANGED deviceVars
  BY DEF CmdPair, Saved, SaveRaises
<1> HIDE DEF m
<1>3. ~(n <= made)
  BY <1>1
<1>4. ASSUME NEW v \in Users
      PROVE  ~Says(n, v)
  <2>1. v # None
    BY BindingAssumption
  <2>2. ~Named(mem, n, v) /\ ~Named(disk, n, v)
    BY <1>1, <1>3, <2>1 DEF PlaceInv, Sane, Used, Pending, Named
  <2>3. \A d \in Devices : ~Takes(d, n, v)
    BY <1>1, <1>3 DEF PlaceInv, HeldHanded, Handed, Has, Takes
  <2>4. QED
    BY <2>2, <2>3 DEF Says
<1>5. \A t \in Tokens, v \in Users : Named(m, t, v) => Named(mem, t, v) \/ (t = n /\ v = u)
  BY <1>1 DEF Named
<1>6. \A d \in Devices, t \in Tokens, v \in Users : Takes(d, t, v)' <=> Takes(d, t, v)
  BY <1>2 DEF Takes, InHand, deviceVars
<1>7. \A t \in Tokens, v \in Users : Named(disk', t, v) => Named(disk, t, v) \/ Named(mem, t, v) \/ (t = n /\ v = u)
  BY <1>2, <1>5
<1>8. \A t \in Tokens, v \in Users : Says(t, v)' => Says(t, v) \/ (t = n /\ v = u)
  BY <1>5, <1>6, <1>7 DEF Says, Named, m
<1>9. QED
  BY <1>4, <1>8 DEF OneUser

\* Who polls is told what the table says.
LEMMA PollSays ==
    ASSUME BindTypes, PlaceInv, NEW d \in Devices, PollBound(d)
    PROVE  \A t \in Tokens, u \in Users : Says(t, u)' => Says(t, u)
<1> DEFINE m == mem'
<1>0. PICK c, e : c = code[d] /\ e = mem.pending[c]
  OBVIOUS
<1>1. c \in Codes /\ e # None /\ m = Claimed(c)
  BY <1>0 DEF PollBound, CanClaim, BindTypes, DeviceTypes
<1>2. /\ e \in Entries /\ m.pending[c] = None
      /\ \A k \in Codes : k # c => m.pending[k] = mem.pending[k]
      /\ m.owner[e.token] = e.user
      /\ \A t \in Tokens : t # e.token =>
             m.owner[t] = IF mem.owner[t] = e.user THEN None ELSE mem.owner[t]
  BY <1>0, <1>1, ClaimStep DEF BindTypes, RelayTypes
<1>3. e.token \in Tokens /\ Named(mem, e.token, e.user)
  BY <1>0, <1>1, <1>2, EntryParts DEF Named
<1>4. /\ UNCHANGED <<nvsUid, nvsTok, tokenLeft>>
      /\ disk' = m \/ disk' = disk
      /\ Told(d, e) \/ UNCHANGED <<reply, at>>
  BY <1>0 DEF PollBound, Saved, SaveRaises
<1> HIDE DEF m
<1>5. \A t \in Tokens, u \in Users : Named(m, t, u) => Named(mem, t, u)
  <2>1. \A u \in Users : u # None
    BY BindingAssumption
  <2>2. QED
    BY <1>2, <1>3, <2>1 DEF Named
<1>6. \A t \in Tokens, u \in Users : Named(disk', t, u) => Named(mem, t, u) \/ Named(disk, t, u)
  BY <1>4, <1>5
<1>7. \A x \in Devices, t \in Tokens, u \in Users :
          Takes(x, t, u)' => Takes(x, t, u) \/ (t = e.token /\ u = e.user)
  <2>1. /\ at \in [Devices -> {"off", "binding", "told", "uidSaved", "bound"}]
        /\ reply \in [Devices -> Entries \cup {None}]
    BY DEF BindTypes, DeviceTypes
  <2>2. CASE Told(d, e)
    <3>1. at' = [at EXCEPT ![d] = "told"] /\ reply' = [reply EXCEPT ![d] = e]
      BY <2>2 DEF Told
    <3>2. QED
      BY <1>4, <2>1, <3>1 DEF Takes, InHand
  <2>3. CASE UNCHANGED <<reply, at>>
    BY <1>4, <2>3 DEF Takes, InHand
  <2>4. QED
    BY <1>4, <2>2, <2>3
<1>8. QED
  BY <1>3, <1>5, <1>6, <1>7 DEF Says, Named, m

\* What a device writes is what it was told.
LEMMA DeviceSays ==
    ASSUME BindTypes, Flash, NEW d \in Devices,
           Boot(d) \/ SaveUid(d) \/ SaveToken(d) \/ ForgetBinding(d) \/ PowerLoss(d)
    PROVE  /\ Flash'
           /\ \A t \in Tokens, u \in Users : Says(t, u)' => Says(t, u)
<1>0. /\ at \in [Devices -> {"off", "binding", "told", "uidSaved", "bound"}]
      /\ reply \in [Devices -> Entries \cup {None}]
      /\ nvsUid \in [Devices -> Users \cup {None}]
      /\ nvsTok \in [Devices -> Tokens \cup {None}]
      /\ None \notin Tokens /\ None \notin Users
      /\ \A x \in Devices : FlashOK(x)
      /\ UNCHANGED <<mem, disk>>
  BY BindingAssumption
  DEF BindTypes, DeviceTypes, Tokens, Flash, Boot, SaveUid, SaveToken, ForgetBinding, PowerLoss, relayVars
<1>1. ASSUME \A x \in Devices, t \in Tokens, u \in Users : Takes(x, t, u)' => Takes(x, t, u)
      PROVE  \A t \in Tokens, u \in Users : Says(t, u)' => Says(t, u)
  BY <1>0, <1>1 DEF Says, Named
<1> USE DEF FlashOK
<1>2. CASE Boot(d)
  <2>1. Flash'
    BY <1>0, <1>2 DEF Boot, HasBinding, Flash
  <2>2. \A x \in Devices, t \in Tokens, u \in Users : Takes(x, t, u)' => Takes(x, t, u)
    BY <1>0, <1>2 DEF Boot, Takes, InHand
  <2>3. QED
    BY <1>1, <2>1, <2>2
<1>3. CASE SaveUid(d)
  <2>1. Flash'
    BY <1>0, <1>3, EntryParts DEF SaveUid, Flash, BindTypes, DeviceTypes
  <2>2. \A x \in Devices, t \in Tokens, u \in Users : Takes(x, t, u)' => Takes(x, t, u)
    BY <1>0, <1>3 DEF SaveUid, Takes, InHand
  <2>3. QED
    BY <1>1, <2>1, <2>2
<1>4. CASE SaveToken(d)
  <2>1. Flash'
    BY <1>0, <1>4 DEF SaveToken, Flash, BindTypes, DeviceTypes
  <2>2. \A x \in Devices, t \in Tokens, u \in Users : Takes(x, t, u)' => Takes(x, t, u)
    BY <1>0, <1>4 DEF SaveToken, Takes, InHand
  <2>3. QED
    BY <1>1, <2>1, <2>2
<1>5. CASE ForgetBinding(d)
  <2>1. /\ \/ nvsTok' = [nvsTok EXCEPT ![d] = None] /\ tokenLeft' \in {tokenLeft, tokenLeft \ {d}}
           \/ nvsTok' = nvsTok /\ tokenLeft' = tokenLeft \cup {d}
        /\ nvsUid' = [nvsUid EXCEPT ![d] = None] \/ nvsUid' = nvsUid
        /\ at' = [at EXCEPT ![d] = "off"] /\ reply' = reply
    BY <1>5 DEF ForgetBinding, EraseBinding, BothErased, CutBetweenErases
  <2>2. Flash'
    BY <1>0, <2>1 DEF Flash
  <2>3. \A x \in Devices, t \in Tokens, u \in Users : Takes(x, t, u)' => Takes(x, t, u)
    BY <1>0, <2>1 DEF Takes, InHand
  <2>4. QED
    BY <1>1, <2>2, <2>3
<1>6. CASE PowerLoss(d)
  <2>1. Flash'
    BY <1>0, <1>6 DEF PowerLoss, Flash
  <2>2. \A x \in Devices, t \in Tokens, u \in Users : Takes(x, t, u)' => Takes(x, t, u)
    BY <1>0, <1>6 DEF PowerLoss, Takes, InHand
  <2>3. QED
    BY <1>1, <2>1, <2>2
<1>7. QED
  BY <1>2, <1>3, <1>4, <1>5, <1>6

LEMMA NextUsers ==
    ASSUME BindTypes, PlaceInv, OneUser, Flash, [Next]_vars
    PROVE  OneUser' /\ Flash'
<1>0. mem \in Tables
  BY DEF BindTypes, RelayTypes
<1>1. ASSUME UNCHANGED <<at, reply, nvsUid, nvsTok, tokenLeft>>
      PROVE  Flash'
  BY <1>1 DEF Flash, FlashOK
<1>2. ASSUME UNCHANGED <<at, reply, nvsUid, nvsTok, tokenLeft>>,
             Fewer(mem, mem') \/ mem' = disk,
             disk' = disk \/ disk' = mem'
      PROVE  OneUser' /\ Flash'
  BY <1>1, <1>2, RelaySays, NothingNew
<1>3. ASSUME NEW u \in Users, NEW c \in Codes, CmdPair(u, c)
      PROVE  OneUser' /\ Flash'
  BY <1>1, <1>3, PairUsers DEF CmdPair, deviceVars
<1>4. ASSUME NEW u \in Users, CmdUnbind(u)
      PROVE  OneUser' /\ Flash'
  <2>1. Fewer(mem, mem')
    BY <1>0, <1>4, UnbindStep
  <2>2. QED
    BY <1>2, <1>4, <2>1 DEF CmdUnbind, Saved, SaveRaises, deviceVars
<1>5. CASE PrunePending
  <2>1. Fewer(mem, mem')
    BY <1>0, <1>5, PruneStep
  <2>2. QED
    BY <1>2, <1>5, <2>1 DEF PrunePending, Saved, SaveRaises, deviceVars
<1>6. CASE (\E t \in Tokens : Expire(t)) \/ OtherSave \/ UNCHANGED vars
  <2>1. Fewer(mem, mem') /\ (disk' = disk \/ disk' = mem')
    BY <1>6 DEF Expire, OtherSave, vars, Fewer
  <2>2. UNCHANGED <<at, reply, nvsUid, nvsTok, tokenLeft>>
    BY <1>6 DEF Expire, OtherSave, vars, deviceVars
  <2>3. QED
    BY <1>2, <2>1, <2>2
<1>7. CASE Restart
  BY <1>2, <1>7 DEF Restart, deviceVars
<1>8. ASSUME NEW d \in Devices, PollBound(d)
      PROVE  OneUser' /\ Flash'
  <2>1. at[d] = "binding" /\ UNCHANGED <<nvsUid, nvsTok, tokenLeft>>
    BY <1>8 DEF PollBound, CanClaim
  <2>2. UNCHANGED <<at, reply>> \/ Told(d, mem.pending[code[d]])
    BY <1>8 DEF PollBound
  <2>3. Flash'
    BY <2>1, <2>2 DEF Told, Flash, FlashOK, BindTypes, DeviceTypes
  <2>4. QED
    BY <1>8, <2>3, PollSays, NothingNew
<1>9. ASSUME NEW d \in Devices, PollExpired(d)
      PROVE  OneUser' /\ Flash'
  <2>1. Fewer(mem, mem')
    BY <1>0, <1>9, ExpiredStep
  <2>2. QED
    BY <1>2, <1>9, <2>1 DEF PollExpired, Saved, SaveRaises
<1>10. ASSUME NEW d \in Devices,
              Boot(d) \/ SaveUid(d) \/ SaveToken(d) \/ ForgetBinding(d) \/ PowerLoss(d)
       PROVE  OneUser' /\ Flash'
  BY <1>10, DeviceSays, NothingNew
<1>11. QED
  BY <1>3, <1>4, <1>5, <1>6, <1>7, <1>8, <1>9, <1>10 DEF Next, RelayNext, DeviceNext

\* A device never runs with the token of one user and the id of another, power
\* cuts at every write included, unless the token was left by a cut erase.
THEOREM TokenNamesUser == Spec => []TokenNamesItsUser
<1>1. ASSUME BindTypes, OneUser, NEW d \in Devices \ tokenLeft, at[d] = "bound"
      PROVE  mem.owner[nvsTok[d]] \in {nvsUid[d], None}
  <2>1. nvsTok[d] \in Tokens /\ nvsUid[d] \in Users
    BY <1>1 DEF BindTypes, DeviceTypes
  <2>2. mem.owner[nvsTok[d]] \in Users \cup {None}
    BY <1>1, <2>1 DEF BindTypes, RelayTypes, Tables
  <2>3. Says(nvsTok[d], nvsUid[d])
    BY DEF Says, Takes
  <2>4. CASE mem.owner[nvsTok[d]] \in Users
    <3>1. Says(nvsTok[d], mem.owner[nvsTok[d]])
      BY DEF Says, Named
    <3>2. QED
      BY <1>1, <2>1, <2>3, <2>4, <3>1 DEF OneUser
  <2>5. QED
    BY <2>2, <2>4
<1>2. BindTypes /\ OneUser => TokenNamesItsUser
  BY <1>1 DEF TokenNamesItsUser
<1>3. BindTypes /\ PlaceInv /\ OneUser /\ Flash /\ [Next]_vars => OneUser' /\ Flash'
  BY NextUsers
<1>4. QED
  BY InitBindTypes, NextBindTypes, InitPlaces, NextPlaces, InitUsers, <1>2, <1>3, PTL DEF Spec
==============================================================================
