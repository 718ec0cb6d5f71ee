------------------------------- MODULE Ratchet -------------------------------
(***************************************************************************)
(* firmware/main/ratchet.c: one direction of the symmetric ratchet, from   *)
(* the sender's chain to the receiver's chain and its cache of skipped     *)
(* message keys.  The other direction shares no state with this one.       *)
(*                                                                         *)
(* A chain key is the number of HKDF("chain") steps taken from the chain   *)
(* both devices derived in the handshake, and the message key of a chain   *)
(* is the HKDF("msg") output tagged with it, so two derivations agree      *)
(* exactly when both sides took the same number of steps.  The relay       *)
(* between the devices may lose, repeat, reorder and damage packets.       *)
(***************************************************************************)
EXTENDS Naturals, Sequences

CONSTANTS
    MaxCtr,            \* UINT32_MAX: the counter value no packet may carry
    MaxSkipLookahead,  \* how far ahead of the chain a packet may be
    SkippedCap         \* RATCHET_SKIPPED_CAP: slots of the skipped-key cache

\* ratchet.h:31 requires the cache to be as large as the lookahead.
ASSUME RatchetAssumption ==
    /\ MaxCtr \in Nat \ {0}
    /\ MaxSkipLookahead \in Nat
    /\ SkippedCap \in Nat
    /\ SkippedCap >= MaxSkipLookahead

VARIABLES
    send,      \* sender's ratchet_dir_t: chain and counter
    recv,      \* receiver's ratchet_dir_t
    skipped,   \* receiver's cache of skipped keys, oldest first
    calls,     \* history: plaintexts accepted by ratchet_encrypt so far
    wire,      \* every packet ever produced; the relay repeats at will
    got,       \* history: times each plaintext was returned by ratchet_decrypt
    result     \* return code of the latest call

vars == <<send, recv, skipped, calls, wire, got, result>>

Counters   == 0 .. MaxCtr
Plaintexts == 0 .. MaxCtr - 1
Results    == {"none", "encrypted", "exhausted",
               "opened", "replay", "too_far", "auth_fail"}

(***************************************************************************)
(* Key schedule and AEAD.                                                  *)
(***************************************************************************)
MsgKey(chain) == [info |-> "msg", chain |-> chain]

\* Mutant: the chain is not stepped past the key just used.
AdvanceForgotten(chain) == chain

Advance(chain) == chain + 1

\* uint32_t increment.
Incr(ctr) == IF ctr = MaxCtr THEN 0 ELSE ctr + 1

\* The tag covers the ciphertext and, as associated data, the counter prefix.
AeadOpens(key, p) == p.intact /\ p.key = key

Damaged(p) == {[p EXCEPT !.ctr = c, !.intact = FALSE] : c \in Counters}

\* What the relay can hand to the receiver.
Arriving == wire \cup UNION {Damaged(p) : p \in wire}

(***************************************************************************)
(* ratchet_encrypt                                                         *)
(***************************************************************************)
Encrypt ==
    /\ send.counter # MaxCtr
    /\ wire' = wire \cup {[ctr |-> send.counter, key |-> MsgKey(send.chain),
                           text |-> calls, intact |-> TRUE]}
    /\ send' = [chain |-> Advance(send.chain), counter |-> Incr(send.counter)]
    /\ calls' = calls + 1
    /\ result' = "encrypted"
    /\ UNCHANGED <<recv, skipped, got>>

EncryptExhausted ==
    /\ send.counter = MaxCtr
    /\ result' = "exhausted"
    /\ UNCHANGED <<send, recv, skipped, calls, wire, got>>

(***************************************************************************)
(* ratchet_decrypt.  try_skipped comes first; a cached key that does not   *)
(* open the packet falls through to the checks on the counter.             *)
(***************************************************************************)
Slots == 1 .. Len(skipped)

OpensFromCache(p, i) ==
    skipped[i].counter = p.ctr /\ AeadOpens(skipped[i].key, p)

InCache(p) == \E i \in Slots : OpensFromCache(p, i)

\* Mutant: off by one, the newest accepted packet is let through again.
IsReplayLate(p) == p.ctr + 1 < recv.counter

IsReplay(p) == p.ctr < recv.counter

IsTooFar(p) == p.ctr - recv.counter > MaxSkipLookahead

\* The chain key the scratch walk reaches for the packet's counter.
ScratchChain(p) == recv.chain + (p.ctr - recv.counter)

OpensAhead(p) == AeadOpens(MsgKey(ScratchChain(p)), p)

\* Mutant: a used key is left in the cache.
DropNothing(i) == skipped

DropSlot(i) ==
    [j \in 1 .. Len(skipped) - 1 |-> IF j < i THEN skipped[j] ELSE skipped[j + 1]]

\* Keys of the counters the walk jumps over.
JumpedOver(p) ==
    [i \in 1 .. p.ctr - recv.counter |->
        [counter |-> recv.counter + i - 1, key |-> MsgKey(recv.chain + i - 1)]]

\* stash_skipped for each jumped key in turn: the oldest entries make room.
Excess(n) == IF n > SkippedCap THEN n - SkippedCap ELSE 0

\* Mutant: no room is made before a key is added.
StashUnbounded(cache, new) == cache \o new

\* Mutant: a full cache drops the newest keys instead of the oldest.
StashKeepingOldest(cache, new) ==
    LET all == cache \o new
    IN  SubSeq(all, 1, Len(all) - Excess(Len(all)))

Stash(cache, new) ==
    LET all == cache \o new
        out == Excess(Len(all))
    IN  [j \in 1 .. Len(all) - out |-> all[j + out]]

DecryptSkipped(p) ==
    \E i \in Slots :
        /\ OpensFromCache(p, i)
        /\ skipped' = DropSlot(i)
        /\ got' = [got EXCEPT ![p.text] = @ + 1]
        /\ result' = "opened"
        /\ UNCHANGED <<send, recv, calls, wire>>

DecryptReplay(p) ==
    /\ ~InCache(p)
    /\ IsReplay(p)
    /\ result' = "replay"
    /\ UNCHANGED <<send, recv, skipped, calls, wire, got>>

DecryptTooFar(p) ==
    /\ ~InCache(p)
    /\ ~IsReplay(p)
    /\ IsTooFar(p)
    /\ result' = "too_far"
    /\ UNCHANGED <<send, recv, skipped, calls, wire, got>>

\* Mutant: the walk works on recv itself instead of a scratch copy.
DecryptAuthFailCommitted(p) ==
    /\ ~InCache(p)
    /\ ~IsReplay(p)
    /\ ~IsTooFar(p)
    /\ ~OpensAhead(p)
    /\ recv' = [chain |-> ScratchChain(p), counter |-> p.ctr]
    /\ result' = "auth_fail"
    /\ UNCHANGED <<send, skipped, calls, wire, got>>

DecryptAuthFail(p) ==
    /\ ~InCache(p)
    /\ ~IsReplay(p)
    /\ ~IsTooFar(p)
    /\ ~OpensAhead(p)
    /\ result' = "auth_fail"
    /\ UNCHANGED <<send, recv, skipped, calls, wire, got>>

DecryptAhead(p) ==
    /\ ~InCache(p)
    /\ ~IsReplay(p)
    /\ ~IsTooFar(p)
    /\ OpensAhead(p)
    /\ skipped' = Stash(skipped, JumpedOver(p))
    /\ recv' = [chain |-> Advance(ScratchChain(p)), counter |-> Incr(p.ctr)]
    /\ got' = [got EXCEPT ![p.text] = @ + 1]
    /\ result' = "opened"
    /\ UNCHANGED <<send, calls, wire>>

Decrypt(p) ==
    \/ DecryptSkipped(p)
    \/ DecryptReplay(p)
    \/ DecryptTooFar(p)
    \/ DecryptAuthFail(p)
    \/ DecryptAhead(p)

(***************************************************************************)
(* ratchet_init on both devices, with the same chain for this direction.   *)
(***************************************************************************)
Init ==
    /\ send = [chain |-> 0, counter |-> 0]
    /\ recv = [chain |-> 0, counter |-> 0]
    /\ skipped = << >>
    /\ calls = 0
    /\ wire = {}
    /\ got = [m \in Plaintexts |-> 0]
    /\ result = "none"

Next ==
    \/ Encrypt
    \/ EncryptExhausted
    \/ \E p \in Arriving : Decrypt(p)

Spec == Init /\ [][Next]_vars

(***************************************************************************)
(* Properties                                                              *)
(***************************************************************************)
Dirs == [chain : Counters, counter : Counters]

Keys == [info : {"msg"}, chain : Nat]

Packets == [ctr : Counters, key : Keys, text : Plaintexts, intact : BOOLEAN]

\* Every variable has the shape the structs of ratchet.h give it; the cache
\* never holds more than RATCHET_SKIPPED_CAP keys, so the fixed array of
\* ratchet_t is never overrun by stash_skipped.
TypeOK ==
    /\ send \in Dirs
    /\ recv \in Dirs
    /\ skipped \in Seq([counter : Counters, key : Keys])
    /\ Len(skipped) <= SkippedCap
    /\ calls \in Counters
    /\ wire \subseteq Packets
    /\ got \in [Plaintexts -> Nat]
    /\ result \in Results

\* No message key ever encrypts two plaintexts: ratchet_encrypt advances
\* chain and counter together, and stops before the counter wraps.
KeysSingleUse ==
    \A p, q \in wire : p.key = q.key => p.text = q.text

\* A message the receiver skipped is still readable while it is within the
\* lookahead of the newest accepted one (ratchet.h:31-32: such messages
\* "aren't silently evicted"): it was returned already or its key is cached.
WindowRetained ==
    \A m \in Plaintexts :
        /\ m < recv.counter
        /\ recv.counter <= m + MaxSkipLookahead + 1
        => got[m] = 1 \/ \E i \in Slots : skipped[i].counter = m

\* A genuine packet that is new and neither too far ahead nor too far behind
\* is accepted by ratchet_decrypt, whatever damaged, repeated or reordered
\* packets came before: nothing but its own delivery can desynchronise it.
GenuineAccepted ==
    \A p \in wire :
        /\ got[p.text] = 0
        /\ recv.counter <= p.ctr + MaxSkipLookahead + 1
        /\ p.ctr <= recv.counter + MaxSkipLookahead
        => InCache(p) \/ (~IsReplay(p) /\ ~IsTooFar(p) /\ OpensAhead(p))

Channel == INSTANCE AuthChannel
    WITH Capacity <- MaxCtr, sent <- calls, delivered <- got

\* The direction implements the abstract channel: ratchet_decrypt returns
\* only plaintexts given to ratchet_encrypt, each at most once.
ImplementsChannel == Channel!Spec
==============================================================================
