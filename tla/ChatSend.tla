------------------------------ MODULE ChatSend -------------------------------
(***************************************************************************)
(* The sending half of a chat: what screen_chat does when the user presses *)
(* Enter (main.c), the session it works on (session.c) and the copy of the *)
(* ratchet in flash (storage.c), with power cuts between any two steps and *)
(* sends that fail or that the relay completes after the device gave up.   *)
(* The receiving device is the receiver of Ratchet.                        *)
(***************************************************************************)
EXTENDS Ratchet

CONSTANT NvsMayFail    \* TRUE: a write of the peer blob to flash may fail

ASSUME ChatSendAssumption == NvsMayFail \in BOOLEAN

VARIABLES
    nvs,    \* send chain and counter of the saved peer_state_t
    pc,     \* where the chat screen is in its Enter handler
    packet  \* the set holding the packet between encryption and tx_send

chatVars == <<nvs, pc, packet>>
allVars  == <<vars, nvs, pc, packet>>

PcValues == {"away", "typing", "encrypted", "persisted"}

\* session_encrypt_b64: the packet of the text in hand.
Sealed == [ctr |-> send.counter, key |-> MsgKey(send.chain), text |-> calls,
           intact |-> TRUE]

\* Enter: the ratchet moves on in RAM, the packet is in hand.
EncryptTyped ==
    /\ pc = "typing"
    /\ calls < MaxCtr                    \* bound on the texts of a run
    /\ send.counter # MaxCtr
    /\ packet' = {Sealed}
    /\ send' = [chain |-> Advance(send.chain), counter |-> Incr(send.counter)]
    /\ calls' = calls + 1
    /\ pc' = "encrypted"
    /\ result' = "encrypted"
    /\ UNCHANGED <<recv, skipped, wire, got, nvs>>

\* "encrypt failed": the counter is exhausted and the text is dropped.
EncryptFails ==
    /\ pc = "typing"
    /\ send.counter = MaxCtr
    /\ result' = "exhausted"
    /\ UNCHANGED <<send, recv, skipped, calls, wire, got, chatVars>>

\* storage_save_peer: the blob is written, or the write fails.
SavePeer(blob) == nvs' = blob \/ (NvsMayFail /\ nvs' = nvs)

\* session_persist; no caller looks at what it returns.
Persisted == SavePeer(send)

\* Mutant: the packet is sent first and saved by a later session_persist.
PersistTypedLate ==
    /\ pc = "encrypted"
    /\ pc' = "persisted"
    /\ UNCHANGED <<vars, nvs, packet>>

PersistTyped ==
    /\ pc = "encrypted"
    /\ Persisted
    /\ pc' = "persisted"
    /\ UNCHANGED <<vars, packet>>

\* tx_send: whatever the device is told ("send failed" included), the relay
\* may have the packet or not.
TxSend == wire' \in {wire, wire \cup packet}

\* tx_send returned; a text that failed is not sent again.
SendDone ==
    /\ pc = "persisted"
    /\ TxSend
    /\ packet' = {}
    /\ pc' = "typing"
    /\ UNCHANGED <<send, recv, skipped, calls, got, result, nvs>>

\* The inbox drain persists too, with whatever the send side holds.
PersistInbound ==
    /\ pc = "typing"
    /\ Persisted
    /\ UNCHANGED <<vars, pc, packet>>

\* Esc or backtick: the state is saved once more and the screen is left.
LeaveChat ==
    /\ pc = "typing"
    /\ Persisted
    /\ pc' = "away"
    /\ UNCHANGED <<vars, packet>>

\* Everything in RAM is gone; nothing else happens until the next boot.
PowerLoss ==
    /\ pc # "away"
    /\ pc' = "away"
    /\ packet' = {}
    /\ send' = [chain |-> 0, counter |-> 0]
    /\ UNCHANGED <<recv, skipped, calls, wire, got, result, nvs>>

\* Mutant: the counter is restored and the chain is not.
ResumeCounterOnly ==
    /\ pc = "away"
    /\ send' = [chain |-> 0, counter |-> nvs.counter]
    /\ pc' = "typing"
    /\ UNCHANGED <<recv, skipped, calls, wire, got, result, nvs, packet>>

\* session_resume, from the peer list, after a boot or not.
Resume ==
    /\ pc = "away"
    /\ send' = nvs
    /\ pc' = "typing"
    /\ UNCHANGED <<recv, skipped, calls, wire, got, result, nvs, packet>>

Receive ==
    /\ \E p \in Arriving : Decrypt(p)
    /\ UNCHANGED chatVars

ChatInit ==
    /\ Init
    /\ nvs = [chain |-> 0, counter |-> 0]
    /\ pc = "typing"
    /\ packet = {}

ChatNext ==
    \/ EncryptTyped
    \/ EncryptFails
    \/ PersistTyped
    \/ SendDone
    \/ PersistInbound
    \/ LeaveChat
    \/ PowerLoss
    \/ Resume
    \/ Receive

ChatSpec == ChatInit /\ [][ChatNext]_allVars

(***************************************************************************)
(* Properties                                                              *)
(***************************************************************************)

\* Types, with at most one packet in hand.
ChatTypeOK ==
    /\ TypeOK
    /\ nvs \in Dirs
    /\ pc \in PcValues
    /\ packet \subseteq Packets
    /\ (packet # {}) <=> (pc \in {"encrypted", "persisted"})

\* main.c:629-630, "Persist BEFORE the network send so we never re-use a
\* ratchet counter on a power glitch": no two packets the relay ever gets
\* carry the same counter, whenever the power fails.
CounterNeverReused ==
    \A p, q \in wire : p.ctr = q.ctr => p.text = q.text
==============================================================================
