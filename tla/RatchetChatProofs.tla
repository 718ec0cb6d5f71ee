--------------------------- MODULE RatchetChatProofs --------------------------
(***************************************************************************)
(* Theorems about Ratchet, about ChatSend, which adds the saves and power  *)
(* cuts of its sending side (parts 1 and 2), and about ChatReceive, which  *)
(* adds the relay, the network tasks and the screen of its receiving side  *)
(* (part 3: what is shown twice; part 4: what is skipped): for every       *)
(* counter width, lookahead and cache size that satisfy RatchetAssumption, *)
(* and any number of tasks, queue and inbox.                               *)
(***************************************************************************)
EXTENDS ChatSend, ChatReceive, SequenceTheorems, FiniteSetTheorems, TLAPS

(***************************************************************************)
(* Part 1: Ratchet                                                         *)
(***************************************************************************)

Entries == [counter : Counters, key : Keys]

(***************************************************************************)
(* The inductive invariant: both chains stand where their counters say,    *)
(* packets and cached keys carry the key of their counter, the cache is    *)
(* sorted (so eviction takes the oldest message) and a message is held or  *)
(* delivered, never both.                                                  *)
(***************************************************************************)
ChainsInStep ==
    /\ send.chain = send.counter
    /\ recv.chain = recv.counter
    /\ calls = send.counter
    /\ recv.counter <= send.counter

WireGenuine ==
    \A p \in wire :
        /\ p.intact = TRUE
        /\ p.text = p.ctr
        /\ p.key = MsgKey(p.ctr)
        /\ p.ctr < send.counter

CacheGenuine ==
    \A i \in Slots :
        /\ skipped[i].key = MsgKey(skipped[i].counter)
        /\ skipped[i].counter < recv.counter
        /\ got[skipped[i].counter] = 0

\* Counters of cached keys grow at least as fast as the slots.
CacheSorted ==
    \A i, j \in Slots :
        i < j => skipped[i].counter + (j - i) <= skipped[j].counter

AtMostOnce ==
    \A m \in Plaintexts :
        /\ got[m] \in {0, 1}
        /\ m >= recv.counter => got[m] = 0

IInv ==
    /\ TypeOK
    /\ ChainsInStep
    /\ WireGenuine
    /\ CacheGenuine
    /\ CacheSorted
    /\ AtMostOnce
    /\ WindowRetained

(***************************************************************************)
(* What the two operations on the cache return.                            *)
(***************************************************************************)

\* stash_skipped keeps the newest SkippedCap of the old and the new keys.
LEMMA StashProperties ==
    ASSUME NEW S, NEW cache \in Seq(S), NEW new \in Seq(S)
    PROVE  LET n == Len(cache) + Len(new)
               out == Excess(n)
           IN  /\ n \in Nat /\ out \in 0 .. n
               /\ Stash(cache, new) \in Seq(S)
               /\ Len(Stash(cache, new)) = n - out
               /\ n - out <= SkippedCap
               /\ \A j \in 1 .. n - out :
                    Stash(cache, new)[j] =
                        IF j + out <= Len(cache) THEN cache[j + out]
                        ELSE new[(j + out) - Len(cache)]
<1> DEFINE n == Len(cache) + Len(new)
           out == Excess(n)
           all == cache \o new
<1>1. /\ n \in Nat
      /\ Len(all) = n
      /\ \A i \in 1 .. n : all[i] = IF i <= Len(cache) THEN cache[i]
                                    ELSE new[i - Len(cache)]
      /\ all \in Seq(S)
  BY ConcatProperties, LenProperties
<1>2. out \in 0 .. n /\ n - out <= SkippedCap /\ n - out \in Nat
  BY <1>1, RatchetAssumption DEF Excess
<1> HIDE DEF n, all, out
<1>3. Stash(cache, new) = [j \in 1 .. n - out |-> all[j + out]]
  BY <1>1 DEF Stash, out, all
<1>4. \A j \in 1 .. n - out : j + out \in 1 .. n
  BY <1>1, <1>2
<1>5. \A j \in 1 .. n - out : all[j + out] \in S
  BY <1>1, <1>4, ElementOfSeq
<1>6. [j \in 1 .. n - out |-> all[j + out]] \in Seq(S)
  BY <1>2, <1>5, SeqDef
<1>7. Len(Stash(cache, new)) = n - out
  BY <1>2, <1>3, <1>6, LenProperties
<1>8. \A j \in 1 .. n - out :
        Stash(cache, new)[j] = IF j + out <= Len(cache) THEN cache[j + out]
                               ELSE new[(j + out) - Len(cache)]
  <2> TAKE j \in 1 .. n - out
  <2>1. Stash(cache, new)[j] = all[j + out]
    BY <1>3
  <2>2. j + out \in 1 .. n
    BY <1>4
  <2>3. all[j + out] = IF j + out <= Len(cache) THEN cache[j + out]
                       ELSE new[(j + out) - Len(cache)]
    BY <1>1, <2>2
  <2> QED
    BY <2>1, <2>3
<1>9. QED
  BY <1>1, <1>2, <1>3, <1>6, <1>7, <1>8 DEF n, out

\* Consuming a slot keeps the others, in order.
LEMMA DropSlotProperties ==
    ASSUME NEW i \in Slots, skipped \in Seq(Entries)
    PROVE  /\ Len(skipped) \in Nat \ {0}
           /\ DropSlot(i) \in Seq(Entries)
           /\ Len(DropSlot(i)) = Len(skipped) - 1
           /\ \A j \in 1 .. Len(skipped) - 1 :
                DropSlot(i)[j] = IF j < i THEN skipped[j] ELSE skipped[j + 1]
<1> DEFINE n == Len(skipped) - 1
<1>1. n \in Nat /\ Len(skipped) \in Nat \ {0}
  BY LenProperties DEF Slots
<1>2. \A j \in 1 .. n : j \in Slots /\ j + 1 \in Slots
  BY <1>1 DEF Slots
<1>3. \A j \in 1 .. n : (IF j < i THEN skipped[j] ELSE skipped[j + 1]) \in Entries
  BY <1>2, ElementOfSeq DEF Slots
<1>4. DropSlot(i) \in Seq(Entries)
  BY <1>1, <1>3, SeqDef DEF DropSlot
<1>5. Len(DropSlot(i)) = n
  BY <1>1, <1>4, LenProperties DEF DropSlot
<1>6. QED
  BY <1>1, <1>4, <1>5 DEF DropSlot

(***************************************************************************)
(* What a call of ratchet_decrypt does to the cache, whoever sealed the    *)
(* packet and whatever its text.                                           *)
(***************************************************************************)
Step(dir) == dir \in Dirs /\ dir.chain = dir.counter

SealedInRange(p) == p \in Packets /\ p.ctr < MaxCtr /\ p.key = MsgKey(p.ctr)

\* A key of the counter is in the cache.
Cached(c) == \E i \in Slots : skipped[i].counter = c

CacheSound ==
    /\ Step(recv)
    /\ skipped \in Seq(Entries) /\ Len(skipped) <= SkippedCap
    /\ \A i \in Slots : /\ skipped[i].key = MsgKey(skipped[i].counter)
                        /\ skipped[i].counter < recv.counter
    /\ CacheSorted

LEMMA CacheInRange ==
    ASSUME CacheSound
    PROVE  /\ Len(skipped) \in Nat /\ Slots = 1 .. Len(skipped)
           /\ recv.counter \in Nat /\ recv.counter <= MaxCtr /\ MaxCtr \in Nat
           /\ recv.chain = recv.counter
           /\ \A i \in Slots : skipped[i] \in Entries /\ skipped[i].counter \in Nat
<1>1. Len(skipped) \in Nat /\ Slots = 1 .. Len(skipped)
  BY LenProperties DEF CacheSound, Slots
<1>2. \A i \in Slots : skipped[i] \in Entries
  BY <1>1, ElementOfSeq DEF CacheSound
<1>3. QED
  BY <1>1, <1>2, RatchetAssumption DEF CacheSound, Step, Dirs, Counters, Entries

\* try_skipped: the key goes, the others stay.
LEMMA CachedKeyGoes ==
    ASSUME CacheSound, NEW p, DecryptSkipped(p)
    PROVE  /\ CacheSound' /\ recv' = recv
           /\ Cached(p.ctr) /\ p.ctr < recv.counter
           /\ ~Cached(p.ctr)'
           /\ \A c : c # p.ctr => (Cached(c)' <=> Cached(c))
<1>1. PICK i \in Slots : OpensFromCache(p, i) /\ skipped' = DropSlot(i)
  BY DEF DecryptSkipped
<1> DEFINE m == p.ctr
           n == Len(skipped) - 1
           old(j) == IF j < i THEN j ELSE j + 1
<1>2. recv' = recv /\ skipped[i].counter = m /\ m < recv.counter
  BY <1>1 DEF DecryptSkipped, OpensFromCache, CacheSound
<1>3. /\ Len(skipped) \in Nat \ {0} /\ skipped' \in Seq(Entries)
      /\ Len(skipped') = n /\ n \in Nat
      /\ \A j \in 1 .. n : skipped'[j] = skipped[old(j)]
  BY <1>1, DropSlotProperties DEF CacheSound
<1>4. Slots = 1 .. n + 1 /\ Slots' = 1 .. n /\ i \in 1 .. n + 1
  BY <1>3 DEF Slots
<1>5. /\ \A j \in 1 .. n : old(j) \in Slots \ {i}
      /\ \A j, k \in 1 .. n : j < k => /\ old(j) < old(k) /\ old(k) - old(j) >= k - j
                                       /\ old(k) - old(j) \in Nat
  BY <1>3, <1>4
<1>6. \A k \in Slots \ {i} : \E j \in 1 .. n : old(j) = k
  <2> TAKE k \in Slots \ {i}
  <2>1. CASE k < i
    BY <1>3, <1>4, <2>1
  <2>2. CASE k > i
    <3>1. k - 1 \in 1 .. n /\ old(k - 1) = k
      BY <1>3, <1>4, <2>2
    <3>2. QED
      BY <3>1
  <2>3. QED
    BY <1>4, <2>1, <2>2
<1> HIDE DEF old, n, m
<1>7. \A k \in Slots : skipped[k].counter \in Nat
  BY CacheInRange
<1>8. \A k \in Slots \ {i} : skipped[k].counter # m
  <2> TAKE k \in Slots \ {i}
  <2>1. k < i \/ i < k
    BY <1>3, <1>4
  <2>2. k - i \in Int /\ i - k \in Int
    BY <1>3, <1>4
  <2>3. \/ k < i /\ skipped[k].counter + (i - k) <= skipped[i].counter
        \/ i < k /\ skipped[i].counter + (k - i) <= skipped[k].counter
    BY <2>1 DEF CacheSound, CacheSorted
  <2>4. i \in Int /\ k \in Int
    BY <1>3, <1>4
  <2>5. QED
    BY <1>2, <1>7, <2>3, <2>4
<1>9. CacheSorted'
  <2> SUFFICES ASSUME NEW j \in 1 .. n, NEW k \in 1 .. n, j < k
               PROVE  skipped'[j].counter + (k - j) <= skipped'[k].counter
    BY <1>4 DEF CacheSorted
  <2>1. /\ skipped'[j] = skipped[old(j)] /\ skipped'[k] = skipped[old(k)]
        /\ skipped[old(j)].counter \in Nat /\ skipped[old(k)].counter \in Nat
    BY <1>3, <1>5, <1>7
  <2>2. /\ old(j) < old(k) /\ old(k) - old(j) >= k - j /\ old(k) - old(j) \in Nat
        /\ old(j) \in Slots /\ old(k) \in Slots
    BY <1>5
  <2>3. skipped[old(j)].counter + (old(k) - old(j)) <= skipped[old(k)].counter
    BY <2>2 DEF CacheSound, CacheSorted
  <2>4. QED
    BY <2>1, <2>2, <2>3
<1>10. CacheSound'
  <2>1. Len(skipped') <= SkippedCap
    BY <1>3, RatchetAssumption DEF CacheSound, n
  <2>2. \A j \in 1 .. n : /\ skipped'[j].key = MsgKey(skipped'[j].counter)
                          /\ skipped'[j].counter < recv.counter
    BY <1>3, <1>5 DEF CacheSound
  <2>3. QED
    BY <1>2, <1>3, <1>4, <1>9, <2>1, <2>2 DEF CacheSound, Step, MsgKey
<1>11. \A c : Cached(c)' <=> \E k \in Slots \ {i} : skipped[k].counter = c
  BY <1>3, <1>4, <1>5, <1>6 DEF Cached
<1>12. QED
  BY <1>2, <1>8, <1>10, <1>11 DEF Cached, m

\* The walk: the jumped keys go in, the oldest ones make room, and none of
\* those is within the lookahead of the packet (ratchet.h:31-32).
LEMMA WalkFillsCache ==
    ASSUME CacheSound, NEW p, SealedInRange(p), DecryptAhead(p)
    PROVE  /\ CacheSound' /\ recv.counter <= p.ctr /\ recv'.counter = p.ctr + 1
           /\ \A k \in Nat : Cached(k)' => Cached(k) \/ k \in recv.counter .. p.ctr - 1
           /\ \A k \in Nat : /\ k < p.ctr /\ p.ctr <= k + MaxSkipLookahead
                             /\ Cached(k) \/ k >= recv.counter
                             => Cached(k)'
<1> USE RatchetAssumption
<1> DEFINE c == p.ctr
           r == recv.counter
           jump == JumpedOver(p)
           held == Len(skipped)
           n == held + Len(jump)
           out == Excess(n)
<1>1. /\ skipped' = Stash(skipped, jump)
      /\ recv' = [chain |-> Advance(ScratchChain(p)), counter |-> Incr(c)]
      /\ ~IsReplay(p)
  BY DEF DecryptAhead
<1>2. /\ c \in Nat /\ r \in Nat /\ c < MaxCtr /\ r <= c /\ c - r \in Nat
      /\ recv.chain = r /\ MaxCtr \in Nat
      /\ held \in Nat /\ Slots = 1 .. held
  BY <1>1, CacheInRange DEF SealedInRange, Packets, Counters, IsReplay
<1>3. recv' = [chain |-> c + 1, counter |-> c + 1]
  BY <1>1, <1>2 DEF Advance, ScratchChain, Incr
<1>4. /\ jump \in Seq(Entries) /\ Len(jump) = c - r
      /\ \A j \in 1 .. c - r :
            jump[j] = [counter |-> r + (j - 1), key |-> MsgKey(r + (j - 1))]
  <2>1. \A j \in 1 .. c - r : [counter |-> r + j - 1, key |-> MsgKey(recv.chain + j - 1)] \in Entries
    BY <1>2 DEF Entries, Counters, Keys, MsgKey
  <2>2. jump \in Seq(Entries)
    BY <2>1, <1>2, SeqDef DEF JumpedOver
  <2>3. Len(jump) = c - r
    BY <2>2, <1>2, LenProperties DEF JumpedOver
  <2>4. QED
    BY <2>2, <2>3, <1>2 DEF JumpedOver
<1> HIDE DEF jump
<1>5. /\ n \in Nat /\ out \in 0 .. n /\ skipped' \in Seq(Entries)
      /\ Len(skipped') = n - out /\ n - out <= SkippedCap
      /\ \A j \in 1 .. n - out :
            skipped'[j] = IF j + out <= held THEN skipped[j + out]
                          ELSE jump[(j + out) - held]
  BY <1>1, <1>4, StashProperties DEF CacheSound
<1>6. /\ n = held + (c - r) /\ out = IF n > SkippedCap THEN n - SkippedCap ELSE 0
      /\ n \in Nat /\ out \in Nat /\ out <= n
  BY <1>2, <1>4, <1>5 DEF Excess
<1> HIDE DEF n, out, held, c, r
\* The uncut sequence of cached and jumped counters, and its cut.
<1> DEFINE ctrAt(k) == IF k <= held THEN skipped[k].counter ELSE r + ((k - held) - 1)
<1>7. \A k \in 1 .. n : /\ ctrAt(k) \in Nat /\ ctrAt(k) < c
                        /\ k > held => ctrAt(k) >= r
  <2> TAKE k \in 1 .. n
  <2>1. CASE k <= held
    <3>1. k \in Slots
      BY <1>2, <2>1
    <3>2. skipped[k].counter \in Nat /\ skipped[k].counter < recv.counter
      BY <3>1, CacheInRange DEF CacheSound
    <3>3. QED
      BY <1>2, <2>1, <3>2 DEF r
  <2>2. CASE k > held
    BY <1>2, <1>6, <2>2
  <2>3. QED
    BY <1>2, <2>1, <2>2
<1>8. \A j, k \in 1 .. n : j < k => ctrAt(j) + (k - j) <= ctrAt(k)
  <2> TAKE j, k \in 1 .. n
  <2> HAVE j < k
  <2>1. CASE k <= held
    BY <1>2, <2>1 DEF CacheSound, CacheSorted
  <2>2. CASE held < j
    BY <1>2, <2>2
  <2>3. CASE j <= held /\ held < k
    <3>1. j \in Slots /\ held \in Slots
      BY <1>2, <2>3
    <3>2. skipped[j].counter \in Nat /\ skipped[held].counter \in Nat /\ skipped[held].counter < r
      BY <3>1, CacheInRange DEF CacheSound, r
    <3>3. skipped[j].counter + (held - j) <= skipped[held].counter
      <4>1. CASE j = held
        BY <1>2, <3>2, <4>1
      <4>2. CASE j < held
        BY <3>1, <4>2 DEF CacheSound, CacheSorted
      <4>3. QED
        BY <1>2, <2>3, <4>1, <4>2
    <3>4. ctrAt(j) = skipped[j].counter /\ ctrAt(k) = r + ((k - held) - 1)
      BY <1>2, <2>3
    <3> HIDE DEF ctrAt
    <3>5. QED
      BY <1>2, <2>3, <3>2, <3>3, <3>4
  <2>4. QED
    BY <1>2, <2>1, <2>2, <2>3
<1>9. /\ Slots' = 1 .. n - out
      /\ \A j \in 1 .. n - out : /\ j + out \in 1 .. n
                                 /\ skipped'[j].counter = ctrAt(j + out)
                                 /\ skipped'[j].key = MsgKey(ctrAt(j + out))
  <2>1. Slots' = 1 .. n - out
    BY <1>5 DEF Slots
  <2>2. ASSUME NEW j \in 1 .. n - out
        PROVE  /\ j + out \in 1 .. n
               /\ skipped'[j].counter = ctrAt(j + out)
               /\ skipped'[j].key = MsgKey(ctrAt(j + out))
    <3>1. j \in Nat /\ j + out \in 1 .. n
      BY <1>6
    <3>2. CASE j + out <= held
      <4>1. skipped'[j] = skipped[j + out] /\ j + out \in Slots
        BY <1>2, <1>5, <3>1, <3>2
      <4>2. QED
        BY <3>1, <3>2, <4>1 DEF CacheSound
    <3>3. CASE ~(j + out <= held)
      <4>1. skipped'[j] = jump[(j + out) - held]
        BY <1>5, <3>3
      <4>2. (j + out) - held \in 1 .. c - r
        BY <1>2, <1>6, <3>1, <3>3
      <4>3. QED
        BY <1>4, <3>1, <3>3, <4>1, <4>2 DEF c, r
    <3>4. QED
      BY <3>2, <3>3
  <2>3. QED
    BY <2>1, <2>2
<1> HIDE DEF ctrAt
<1>10. CacheSorted'
  <2> SUFFICES ASSUME NEW j \in 1 .. n - out, NEW k \in 1 .. n - out, j < k
               PROVE  skipped'[j].counter + (k - j) <= skipped'[k].counter
    BY <1>9 DEF CacheSorted
  <2>1. j + out < k + out /\ (k + out) - (j + out) = k - j
    BY <1>6
  <2>2. ctrAt(j + out) + ((k + out) - (j + out)) <= ctrAt(k + out)
    BY <1>8, <1>9, <2>1
  <2>3. QED
    BY <1>9, <2>1, <2>2
<1>11. CacheSound'
  <2>1. Step(recv')
    BY <1>2, <1>3 DEF Step, Dirs, Counters
  <2>2. \A j \in 1 .. n - out : /\ skipped'[j].key = MsgKey(skipped'[j].counter)
                                /\ skipped'[j].counter < recv'.counter
    BY <1>2, <1>3, <1>7, <1>9
  <2>3. QED
    BY <1>5, <1>9, <1>10, <2>1, <2>2 DEF CacheSound, Step, MsgKey
<1>12. ASSUME NEW k \in Nat, Cached(k)' PROVE Cached(k) \/ k \in r .. c - 1
  <2>1. PICK j \in 1 .. n - out : skipped'[j].counter = k
    BY <1>9, <1>12 DEF Cached
  <2>2. j + out \in 1 .. n /\ ctrAt(j + out) = k /\ ctrAt(j + out) < c
    BY <1>7, <1>9, <2>1
  <2>3. CASE j + out <= held
    <3>1. j + out \in Slots
      BY <1>2, <2>2, <2>3
    <3>2. QED
      BY <2>2, <2>3, <3>1 DEF Cached, ctrAt
  <2>4. CASE j + out > held
    BY <1>2, <1>7, <2>2, <2>4
  <2>5. QED
    BY <1>2, <1>6, <2>2, <2>3, <2>4
\* Newest first: what is cut is too old to be within the lookahead.
<1>13. ASSUME NEW k \in 1 .. n, c <= ctrAt(k) + MaxSkipLookahead PROVE k > out
  <2>1. ctrAt(k) \in Nat /\ k \in Nat
    BY <1>7
  <2>2. ctrAt(k) + (n - k) <= c - 1
    <3>1. CASE k = n
      BY <3>1, <1>2, <1>7, <2>1
    <3>2. CASE k < n
      <4>1. n \in 1 .. n
        BY <3>2, <1>6, <2>1
      <4>2. ctrAt(k) + (n - k) <= ctrAt(n) /\ ctrAt(n) \in Nat /\ ctrAt(n) < c
        BY <3>2, <4>1, <1>7, <1>8
      <4>3. QED
        BY <4>2, <2>1, <1>2, <1>6
    <3>3. QED
      BY <3>1, <3>2, <1>6, <2>1
  <2>3. n - k <= MaxSkipLookahead - 1 /\ n - k <= SkippedCap - 1
    BY <1>13, <2>1, <2>2, <1>2, <1>6
  <2>4. QED
    BY <2>1, <2>3, <1>6
<1>14. ASSUME NEW k \in Nat, k < c, c <= k + MaxSkipLookahead, Cached(k) \/ k >= r
       PROVE  Cached(k)'
  <2>1. \E i \in 1 .. n : ctrAt(i) = k
    <3>1. CASE Cached(k)
      <4>1. PICK i \in Slots : skipped[i].counter = k
        BY <3>1 DEF Cached
      <4>2. i \in 1 .. n /\ i <= held
        BY <1>2, <1>6
      <4>3. QED
        BY <4>1, <4>2 DEF ctrAt
    <3>2. CASE k >= r
      <4> DEFINE i == held + ((k - r) + 1)
      <4>1. i \in 1 .. n /\ ~(i <= held) /\ r + ((i - held) - 1) = k
        BY <1>2, <1>6, <1>14, <3>2
      <4> HIDE DEF i
      <4>2. ctrAt(i) = k
        BY <4>1 DEF ctrAt
      <4>3. QED
        BY <4>1, <4>2
    <3>3. QED
      BY <1>14, <3>1, <3>2
  <2>2. PICK i \in 1 .. n : ctrAt(i) = k
    BY <2>1
  <2>3. i > out /\ i \in Nat
    BY <1>13, <1>14, <2>2
  <2>4. i - out \in 1 .. n - out /\ (i - out) + out = i
    BY <2>3, <1>6
  <2>5. QED
    BY <1>9, <2>2, <2>4 DEF Cached
<1>15. QED
  BY <1>2, <1>3, <1>11, <1>12, <1>14 DEF c, r

\* Either way of opening a packet uses up the key of its counter, keeps the
\* other keys within the lookahead and adds those of the counters in between.
LEMMA OpenedCache ==
    ASSUME CacheSound, NEW p, SealedInRange(p), DecryptSkipped(p) \/ DecryptAhead(p)
    PROVE  /\ CacheSound' /\ ~Cached(p.ctr)'
           /\ recv.counter <= recv'.counter /\ p.ctr < recv'.counter
           /\ recv'.counter \in {recv.counter, p.ctr + 1}
           /\ Cached(p.ctr) \/ recv.counter <= p.ctr
           /\ \A k \in Nat : Cached(k)' => \/ Cached(k)
                                           \/ recv.counter <= k /\ k < recv'.counter
           /\ \A k \in Nat \ {p.ctr} : /\ k < recv'.counter
                                       /\ recv'.counter <= k + MaxSkipLookahead + 1
                                       /\ Cached(k) \/ recv.counter <= k
                                       => Cached(k)'
<1>1. /\ p.ctr \in Nat /\ recv.counter \in Nat /\ MaxSkipLookahead \in Nat
      /\ \A k : Cached(k) => k < recv.counter
  BY CacheInRange, RatchetAssumption DEF SealedInRange, Packets, Counters, CacheSound, Cached
<1>2. CASE DecryptSkipped(p)
  BY <1>1, <1>2, CachedKeyGoes
<1>3. CASE DecryptAhead(p)
  <2>1. /\ CacheSound' /\ recv.counter <= p.ctr /\ recv'.counter = p.ctr + 1
        /\ \A k \in Nat : Cached(k)' => Cached(k) \/ k \in recv.counter .. p.ctr - 1
        /\ \A k \in Nat : /\ k < p.ctr /\ p.ctr <= k + MaxSkipLookahead
                          /\ Cached(k) \/ k >= recv.counter
                          => Cached(k)'
    BY <1>3, WalkFillsCache
  <2>2. ~Cached(p.ctr)'
    BY <1>1, <2>1
  <2>3. \A k \in Nat : Cached(k)' => Cached(k) \/ (recv.counter <= k /\ k < recv'.counter)
    BY <1>1, <2>1
  <2>4. ASSUME NEW k \in Nat \ {p.ctr}, k < recv'.counter,
               recv'.counter <= k + MaxSkipLookahead + 1, Cached(k) \/ recv.counter <= k
        PROVE  Cached(k)'
    <3>1. k < p.ctr /\ p.ctr <= k + MaxSkipLookahead
      BY <1>1, <2>1, <2>4
    <3>2. QED
      BY <1>1, <2>1, <2>4, <3>1
  <2>5. QED
    BY <1>1, <2>1, <2>2, <2>3, <2>4
<1>4. QED
  BY <1>2, <1>3

(***************************************************************************)
(* Type correctness.  The cache and the chains need the rest of the        *)
(* invariant, so types and invariant are proved together, per action.      *)
(***************************************************************************)
LEMMA InitIInv == Init => IInv
<1> SUFFICES ASSUME Init PROVE IInv
  OBVIOUS
<1> USE RatchetAssumption DEF Init
<1>1. << >> \in Seq(Entries) /\ Len(<< >>) = 0
  BY EmptySeq
<1>2. Slots = {}
  BY <1>1 DEF Slots
<1>3. TypeOK
  BY <1>1 DEF TypeOK, Dirs, Counters, Plaintexts, Results, Entries
<1>4. ChainsInStep
  BY DEF ChainsInStep
<1>5. AtMostOnce /\ WindowRetained
  BY DEF AtMostOnce, WindowRetained, Plaintexts
<1>6. WireGenuine /\ CacheGenuine /\ CacheSorted
  BY <1>2 DEF WireGenuine, CacheGenuine, CacheSorted
<1>7. QED
  BY <1>3, <1>4, <1>5, <1>6 DEF IInv

LEMMA EncryptIInv ==
    ASSUME IInv, Encrypt PROVE IInv'
<1> USE RatchetAssumption
<1>1. /\ send \in Dirs /\ send.counter \in Nat /\ send.counter < MaxCtr
      /\ send.chain = send.counter /\ calls = send.counter
  BY DEF IInv, TypeOK, ChainsInStep, Dirs, Counters, Encrypt
<1> DEFINE made == [ctr |-> send.counter, key |-> MsgKey(send.chain),
                    text |-> calls, intact |-> TRUE]
<1>2. /\ send'.counter = send.counter + 1 /\ send'.chain = send.counter + 1
      /\ send' \in Dirs
  BY <1>1 DEF Encrypt, Incr, Advance, Dirs, Counters
<1>3. wire' = wire \cup {made} /\ calls' = calls + 1
  BY DEF Encrypt
<1>4. made \in Packets
  BY <1>1 DEF Packets, Counters, Plaintexts, Keys, MsgKey
<1>5. TypeOK'
  <2>1. calls' \in Counters
    BY <1>1, <1>3 DEF Counters
  <2>2. wire' \subseteq Packets
    BY <1>3, <1>4 DEF IInv, TypeOK
  <2>3. /\ recv' \in Dirs /\ skipped' \in Seq([counter : Counters, key : Keys])
        /\ Len(skipped') <= SkippedCap /\ got' \in [Plaintexts -> Nat]
        /\ result' \in Results
    BY DEF IInv, TypeOK, Encrypt, Results
  <2>4. QED
    BY <1>2, <2>1, <2>2, <2>3 DEF TypeOK
<1>6. ChainsInStep'
  BY <1>1, <1>2, <1>3 DEF IInv, TypeOK, Dirs, Counters, ChainsInStep, Encrypt
<1>7. WireGenuine'
  <2> SUFFICES ASSUME NEW p \in wire'
               PROVE  /\ p.intact = TRUE /\ p.text = p.ctr
                      /\ p.key = MsgKey(p.ctr) /\ p.ctr < send'.counter
    BY DEF WireGenuine, MsgKey
  <2>1. CASE p = made
    BY <2>1, <1>1, <1>2
  <2>2. CASE p \in wire
    <3>1. p.ctr \in Nat
      BY <2>2 DEF IInv, TypeOK, Packets, Counters
    <3>2. QED
      BY <2>2, <3>1, <1>1, <1>2 DEF IInv, WireGenuine
  <2>3. QED
    BY <1>3, <2>1, <2>2
<1>8. /\ CacheGenuine' /\ CacheSorted' /\ AtMostOnce' /\ WindowRetained'
  BY DEF IInv, Encrypt, CacheGenuine, CacheSorted, AtMostOnce, WindowRetained,
         Slots, MsgKey
<1>9. QED
  BY <1>5, <1>6, <1>7, <1>8 DEF IInv

\* Calls that are refused leave everything but the return code alone.
LEMMA RefusedIInv ==
    ASSUME IInv, result' \in Results,
           UNCHANGED <<send, recv, skipped, calls, wire, got>>
    PROVE  IInv'
BY DEF IInv, TypeOK, ChainsInStep, WireGenuine, CacheGenuine, CacheSorted,
       AtMostOnce, WindowRetained, Slots, MsgKey

\* Whatever opens is a packet of the sender, and only its own key opens it.
LEMMA OnlyGenuineOpens ==
    ASSUME IInv, NEW p \in Arriving, NEW key, AeadOpens(key, p)
    PROVE  /\ p \in wire
           /\ key = MsgKey(p.ctr)
           /\ p.text = p.ctr
           /\ p.ctr \in Plaintexts
           /\ p.ctr < send.counter
<1>1. \A q \in wire : \A d \in Damaged(q) : d.intact = FALSE
  BY DEF Damaged, IInv, TypeOK, Packets
<1>2. p \in wire
  BY <1>1 DEF Arriving, AeadOpens
<1>3. p \in Packets
  BY <1>2 DEF IInv, TypeOK
<1>4. key = MsgKey(p.ctr) /\ p.text = p.ctr /\ p.ctr < send.counter
  BY <1>2 DEF AeadOpens, IInv, WireGenuine
<1>5. QED
  BY <1>2, <1>3, <1>4 DEF Packets

\* Arithmetic facts about the two ends, in the form the provers need.
LEMMA EndsInRange ==
    ASSUME IInv
    PROVE  /\ MaxCtr \in Nat \ {0} /\ MaxSkipLookahead \in Nat /\ SkippedCap \in Nat
           /\ recv.counter \in Nat /\ recv.counter <= MaxCtr
           /\ send.counter \in Nat /\ send.counter <= MaxCtr
           /\ recv.chain = recv.counter /\ recv.counter <= send.counter
BY RatchetAssumption DEF IInv, TypeOK, Dirs, Counters, ChainsInStep

LEMMA SoundCache ==
    ASSUME IInv
    PROVE  /\ CacheSound
           /\ \A k : Cached(k) => k \in Plaintexts /\ k < recv.counter /\ got[k] = 0
<1>1. CacheSound
  BY DEF IInv, TypeOK, ChainsInStep, CacheGenuine, CacheSound, Step, Entries
<1>2. \A k : Cached(k) => k \in Nat /\ k < recv.counter /\ got[k] = 0
  BY <1>1, CacheInRange DEF Cached, IInv, CacheGenuine
<1>3. QED
  BY <1>1, <1>2, CacheInRange DEF Plaintexts

LEMMA OpensIInv ==
    ASSUME IInv, NEW p \in Arriving, DecryptSkipped(p) \/ DecryptAhead(p) PROVE IInv'
<1> USE RatchetAssumption
<1> DEFINE m == p.ctr
<1>1. /\ result' = "opened" /\ got' = [got EXCEPT ![p.text] = @ + 1]
      /\ UNCHANGED <<send, calls, wire>>
  BY DEF DecryptSkipped, DecryptAhead
<1>2. /\ p \in wire /\ p.text = m /\ m \in Plaintexts /\ m < send.counter /\ m \in Nat
      /\ SealedInRange(p)
  <2>1. p \in wire /\ p.text = m /\ m \in Plaintexts /\ m < send.counter
    BY OnlyGenuineOpens DEF DecryptSkipped, DecryptAhead, OpensFromCache, OpensAhead
  <2>2. QED
    BY <2>1 DEF SealedInRange, IInv, TypeOK, WireGenuine, Plaintexts
<1>3. /\ CacheSound' /\ ~Cached(m)'
      /\ recv.counter <= recv'.counter /\ m < recv'.counter
      /\ recv'.counter \in {recv.counter, m + 1}
      /\ Cached(m) \/ recv.counter <= m
      /\ \A k \in Nat : Cached(k)' => \/ Cached(k)
                                      \/ recv.counter <= k /\ k < recv'.counter
      /\ \A k \in Nat \ {m} : /\ k < recv'.counter
                              /\ recv'.counter <= k + MaxSkipLookahead + 1
                              /\ Cached(k) \/ recv.counter <= k
                              => Cached(k)'
  BY <1>2, SoundCache, OpenedCache
<1>4. /\ recv'.counter \in Nat /\ recv'.counter <= MaxCtr /\ recv.counter \in Nat
      /\ send.counter \in Nat /\ recv.counter <= send.counter
  <2>1. recv.counter \in Nat /\ send.counter \in Nat /\ recv.counter <= send.counter
    BY EndsInRange
  <2>2. recv'.counter \in Counters
    BY <1>3 DEF CacheSound, Step, Dirs
  <2>3. QED
    BY <2>1, <2>2 DEF Counters
<1>5. \A k \in Nat : Cached(k)' => k \in Plaintexts \ {m} /\ got[k] = 0
  <2> SUFFICES ASSUME NEW k \in Nat, Cached(k)' PROVE k \in Plaintexts \ {m} /\ got[k] = 0
    OBVIOUS
  <2>1. CASE Cached(k)
    BY <1>3, <2>1, SoundCache
  <2>2. CASE recv.counter <= k /\ k < recv'.counter
    BY <1>3, <1>4, <2>2 DEF IInv, AtMostOnce, Plaintexts
  <2>3. QED
    BY <1>3, <2>1, <2>2
<1>6. got[m] = 0
  BY <1>2, <1>3, SoundCache DEF IInv, AtMostOnce
<1>7. /\ got' \in [Plaintexts -> Nat] /\ got'[m] = 1
      /\ \A k \in Plaintexts \ {m} : got'[k] = got[k]
  BY <1>1, <1>2, <1>6 DEF IInv, TypeOK
<1> HIDE DEF m
<1>8. TypeOK'
  BY <1>1, <1>3, <1>7 DEF IInv, TypeOK, CacheSound, Step, Entries, Results
<1>9. ChainsInStep'
  <2>1. recv'.counter <= send.counter
    BY <1>2, <1>3, <1>4
  <2>2. QED
    BY <1>1, <1>3, <2>1 DEF IInv, ChainsInStep, CacheSound, Step
<1>10. WireGenuine'
  BY <1>1 DEF IInv, WireGenuine, MsgKey
<1>11. CacheSorted' /\ CacheGenuine'
  <2> SUFFICES ASSUME NEW i \in Slots' PROVE got'[skipped'[i].counter] = 0
    BY <1>3 DEF CacheSound, CacheGenuine, MsgKey
  <2>1. skipped'[i].counter \in Nat
    <3>1. skipped' \in Seq(Entries) /\ i \in 1 .. Len(skipped')
      BY <1>3 DEF CacheSound, Slots
    <3>2. skipped'[i] \in Entries
      BY <3>1, ElementOfSeq
    <3>3. QED
      BY <3>2 DEF Entries, Counters
  <2>2. PICK k \in Nat : k = skipped'[i].counter /\ Cached(k)'
    BY <2>1 DEF Cached
  <2>3. QED
    BY <1>5, <1>7, <2>2
<1>12. AtMostOnce'
  <2> SUFFICES ASSUME NEW k \in Plaintexts
               PROVE  got'[k] \in {0, 1} /\ (k >= recv'.counter => got'[k] = 0)
    BY DEF AtMostOnce
  <2>1. CASE k = m
    BY <2>1, <1>2, <1>3, <1>4, <1>7
  <2>2. CASE k # m
    <3>1. got'[k] = got[k] /\ got[k] \in {0, 1} /\ (k >= recv.counter => got[k] = 0)
      BY <2>2, <1>7 DEF IInv, AtMostOnce
    <3>2. QED
      BY <3>1, <1>3, <1>4 DEF Plaintexts
  <2>3. QED
    BY <2>1, <2>2
<1>13. WindowRetained'
  <2> SUFFICES ASSUME NEW k \in Plaintexts, k < recv'.counter,
                      recv'.counter <= k + MaxSkipLookahead + 1, got'[k] # 1
               PROVE  Cached(k)'
    BY DEF WindowRetained, Cached
  <2>1. k \in Nat /\ k # m /\ got[k] # 1
    BY <1>7 DEF Plaintexts
  <2>2. CASE k < recv.counter
    <3>1. recv.counter <= k + MaxSkipLookahead + 1
      BY <1>3, <1>4, <2>1
    <3>2. Cached(k)
      BY <2>1, <2>2, <3>1 DEF IInv, WindowRetained, Cached
    <3>3. QED
      BY <1>3, <2>1, <3>2
  <2>3. CASE recv.counter <= k
    BY <1>3, <2>1, <2>3
  <2>4. QED
    BY <1>4, <2>1, <2>2, <2>3
<1>14. QED
  BY <1>8, <1>9, <1>10, <1>11, <1>12, <1>13 DEF IInv

LEMMA NextIInv == IInv /\ [Next]_vars => IInv'
<1> SUFFICES ASSUME IInv, [Next]_vars PROVE IInv'
  OBVIOUS
<1>1. CASE Encrypt
  BY <1>1, EncryptIInv
<1>2. CASE EncryptExhausted
  BY <1>2, RefusedIInv DEF EncryptExhausted, Results
<1>3. ASSUME NEW p \in Arriving, Decrypt(p) PROVE IInv'
  <2>1. CASE DecryptSkipped(p) \/ DecryptAhead(p)
    BY <2>1, OpensIInv
  <2>2. CASE DecryptReplay(p)
    BY <2>2, RefusedIInv DEF DecryptReplay, Results
  <2>3. CASE DecryptTooFar(p)
    BY <2>3, RefusedIInv DEF DecryptTooFar, Results
  <2>4. CASE DecryptAuthFail(p)
    BY <2>4, RefusedIInv DEF DecryptAuthFail, Results
  <2>5. QED
    BY <1>3, <2>1, <2>2, <2>3, <2>4 DEF Decrypt
<1>4. CASE UNCHANGED vars
  BY <1>4, RefusedIInv DEF vars, IInv, TypeOK
<1>5. QED
  BY <1>1, <1>2, <1>3, <1>4 DEF Next

\* The inductive invariant holds in every behaviour.
THEOREM Invariance == Spec => []IInv
BY InitIInv, NextIInv, PTL DEF Spec

\* Every variable keeps its type; the cache array of ratchet_t never
\* overflows.
THEOREM TypeCorrect == Spec => []TypeOK
<1>1. IInv => TypeOK
  BY DEF IInv
<1>2. QED
  BY <1>1, Invariance, PTL

\* No message key is ever used for two plaintexts (ratchet_encrypt).
THEOREM KeysUsedOnce == Spec => []KeysSingleUse
<1>1. IInv => KeysSingleUse
  <2> SUFFICES ASSUME IInv, NEW p \in wire, NEW q \in wire, p.key = q.key
               PROVE  p.text = q.text
    BY DEF KeysSingleUse
  <2>1. /\ p.text = p.ctr /\ p.key = MsgKey(p.ctr)
        /\ q.text = q.ctr /\ q.key = MsgKey(q.ctr)
    BY DEF IInv, WireGenuine
  <2>2. MsgKey(p.ctr).chain = p.ctr /\ MsgKey(q.ctr).chain = q.ctr
    BY DEF MsgKey
  <2>3. MsgKey(p.ctr) = MsgKey(q.ctr)
    BY <2>1
  <2>4. p.ctr = q.ctr
    BY <2>2, <2>3
  <2>5. QED
    BY <2>1, <2>4
<1>2. QED
  BY <1>1, Invariance, PTL

\* Messages within the lookahead are never silently evicted (ratchet.h:31).
THEOREM WindowNeverEvicted == Spec => []WindowRetained
<1>1. IInv => WindowRetained
  BY DEF IInv
<1>2. QED
  BY <1>1, Invariance, PTL

\* Every new genuine packet around the receiver's position is accepted, so
\* nothing the relay does can desynchronise the chains (ratchet.c:117-120).
THEOREM NeverDesynchronised == Spec => []GenuineAccepted
<1>1. IInv => GenuineAccepted
  <2> SUFFICES ASSUME IInv, NEW p \in wire, got[p.text] = 0,
                      recv.counter <= p.ctr + MaxSkipLookahead + 1,
                      p.ctr <= recv.counter + MaxSkipLookahead
               PROVE  InCache(p) \/ (~IsReplay(p) /\ ~IsTooFar(p) /\ OpensAhead(p))
    BY DEF GenuineAccepted
  <2>1. /\ p.intact = TRUE /\ p.key = MsgKey(p.ctr) /\ p.text = p.ctr
        /\ p.ctr \in Plaintexts /\ p.ctr \in Nat
    BY DEF IInv, WireGenuine, TypeOK, Packets, Counters
  <2>2. CASE p.ctr < recv.counter
    <3>1. PICK i \in Slots : skipped[i].counter = p.ctr
      BY <2>1, <2>2 DEF IInv, WindowRetained
    <3>2. OpensFromCache(p, i)
      BY <2>1, <3>1 DEF OpensFromCache, AeadOpens, IInv, CacheGenuine
    <3>3. QED
      BY <3>2 DEF InCache
  <2>3. CASE ~(p.ctr < recv.counter)
    <3>1. ~IsReplay(p) /\ ~IsTooFar(p)
      BY <2>1, <2>3, EndsInRange DEF IsReplay, IsTooFar
    <3>2. ScratchChain(p) = p.ctr
      BY <2>1, EndsInRange DEF ScratchChain
    <3>3. QED
      BY <2>1, <3>1, <3>2 DEF OpensAhead, AeadOpens
  <2>4. QED
    BY <2>2, <2>3
<1>2. QED
  BY <1>1, Invariance, PTL

\* The ratchet implements the abstract channel: only what was encrypted is
\* decrypted, and each plaintext at most once.
THEOREM Refinement == Spec => ImplementsChannel
<1>1. Init => Channel!Init
  BY DEF Init, Channel!Init, Plaintexts, Channel!Plaintexts
<1>2. IInv /\ IInv' /\ [Next]_vars => [Channel!Next]_Channel!vars
  <2> SUFFICES ASSUME IInv, IInv', [Next]_vars
               PROVE  Channel!Next \/ UNCHANGED <<calls, got>>
    BY DEF Channel!vars
  <2>1. CASE Encrypt
    <3>1. calls < MaxCtr
      BY <2>1, EndsInRange DEF Encrypt, IInv, ChainsInStep
    <3>2. QED
      BY <2>1, <3>1 DEF Encrypt, Channel!Next, Channel!Send
  <2>2. ASSUME NEW p \in Arriving, Decrypt(p)
        PROVE  Channel!Next \/ UNCHANGED <<calls, got>>
    <3>1. CASE DecryptSkipped(p)
      <4>1. PICK i \in Slots : OpensFromCache(p, i)
        BY <3>1 DEF DecryptSkipped
      <4>2. /\ p.text \in Plaintexts /\ p.text < calls
            /\ got[p.text] = 0
        BY <4>1, OnlyGenuineOpens DEF OpensFromCache, IInv, CacheGenuine, ChainsInStep
      <4>3. Channel!Deliver(p.text)
        BY <3>1, <4>2 DEF DecryptSkipped, Channel!Deliver
      <4>4. QED
        BY <4>2, <4>3 DEF Channel!Next, Channel!Plaintexts, Plaintexts
    <3>2. CASE DecryptAhead(p)
      <4>1. /\ p.text = p.ctr /\ p.text \in Plaintexts /\ p.text < calls
        BY <3>2, OnlyGenuineOpens DEF DecryptAhead, OpensAhead, IInv, ChainsInStep
      <4>2. got[p.text] = 0
        BY <3>2, <4>1, EndsInRange
           DEF DecryptAhead, IsReplay, IInv, AtMostOnce, Plaintexts
      <4>3. Channel!Deliver(p.text)
        BY <3>2, <4>1, <4>2 DEF DecryptAhead, Channel!Deliver
      <4>4. QED
        BY <4>1, <4>3 DEF Channel!Next, Channel!Plaintexts, Plaintexts
    <3>3. CASE DecryptReplay(p) \/ DecryptTooFar(p) \/ DecryptAuthFail(p)
      BY <3>3 DEF DecryptReplay, DecryptTooFar, DecryptAuthFail
    <3>4. QED
      BY <2>2, <3>1, <3>2, <3>3 DEF Decrypt
  <2>3. CASE EncryptExhausted \/ UNCHANGED vars
    BY <2>3 DEF EncryptExhausted, vars
  <2>4. QED
    BY <2>1, <2>2, <2>3 DEF Next
<1>3. QED
  BY <1>1, <1>2, Invariance, PTL DEF Spec, ImplementsChannel, Channel!Spec

(***************************************************************************)
(* Part 2: ChatSend.  As long as writes to flash succeed, power cuts never *)
(* make the device send two packets under one counter.                     *)
(***************************************************************************)

(***************************************************************************)
(* The saved counter is beyond every packet that ever left the device, and *)
(* the ratchet in RAM is never behind the saved one while a chat is open.  *)
(***************************************************************************)
SendTypes ==
    /\ send.counter \in Counters
    /\ nvs.counter \in Counters
    /\ pc \in PcValues
    /\ \A p \in wire \cup packet : p.ctr \in Nat

SavedBeyondWire ==
    \A p \in wire : p.ctr < nvs.counter

RamNotBehind ==
    pc # "away" => nvs.counter <= send.counter

PacketInHand ==
    /\ pc = "encrypted" => \A p \in packet : nvs.counter <= p.ctr /\ p.ctr < send.counter
    /\ pc = "persisted" => \A p \in packet :
                               /\ p.ctr < nvs.counter
                               /\ \A q \in wire : q.ctr # p.ctr
    /\ \A p, q \in packet : p = q

SendInv ==
    /\ SendTypes
    /\ SavedBeyondWire
    /\ RamNotBehind
    /\ PacketInHand
    /\ CounterNeverReused

\* ratchet_decrypt on the other device touches nothing the sender works on.
LEMMA ReceiveLeavesSender ==
    Receive => UNCHANGED <<send, wire, nvs, pc, packet>>
BY DEF Receive, chatVars, Decrypt, DecryptSkipped, DecryptReplay, DecryptTooFar,
       DecryptAuthFail, DecryptAhead

LEMMA FrameSendInv ==
    ASSUME SendInv, UNCHANGED <<send, wire, nvs, pc, packet>> PROVE SendInv'
BY DEF SendInv, SendTypes, SavedBeyondWire, RamNotBehind, PacketInHand,
       CounterNeverReused

LEMMA InitSendInv == ChatInit => SendInv
BY RatchetAssumption
   DEF ChatInit, Init, SendInv, SendTypes, SavedBeyondWire, RamNotBehind,
       PacketInHand, CounterNeverReused, Counters, PcValues

LEMMA NextSendInv ==
    ASSUME NvsMayFail = FALSE, SendInv, [ChatNext]_allVars PROVE SendInv'
<1> USE RatchetAssumption
<1>0. /\ send.counter \in Nat /\ send.counter <= MaxCtr
      /\ nvs.counter \in Nat /\ nvs.counter <= MaxCtr
  BY DEF SendInv, SendTypes, Counters
<1>1. CASE EncryptTyped
  <2>1. /\ send'.counter = send.counter + 1
        /\ packet' = {[ctr |-> send.counter, key |-> MsgKey(send.chain),
                       text |-> calls, intact |-> TRUE]}
        /\ pc = "typing" /\ pc' = "encrypted" /\ UNCHANGED <<wire, nvs>>
    BY <1>0, <1>1 DEF EncryptTyped, Sealed, Incr
  <2>2. nvs.counter <= send.counter
    BY <2>1 DEF SendInv, RamNotBehind
  <2>3. \A p \in packet' : p.ctr = send.counter
    BY <2>1
  <2>4. SendTypes'
    <3>1. send'.counter \in Counters
      BY <1>1, <2>1, <1>0 DEF EncryptTyped, Counters
    <3>2. QED
      BY <3>1, <2>1, <2>3, <1>0 DEF SendInv, SendTypes, PcValues
  <2>5. PacketInHand'
    BY <2>1, <2>2, <2>3, <1>0 DEF PacketInHand
  <2>6. SavedBeyondWire' /\ RamNotBehind' /\ CounterNeverReused'
    BY <2>1, <2>2, <1>0 DEF SendInv, SavedBeyondWire, RamNotBehind, CounterNeverReused
  <2>7. QED
    BY <2>4, <2>5, <2>6 DEF SendInv
<1>2. CASE EncryptFails
  BY <1>2, FrameSendInv DEF EncryptFails, chatVars
<1>3. CASE PersistTyped
  <2>1. /\ nvs' = send /\ pc = "encrypted" /\ pc' = "persisted"
        /\ UNCHANGED <<send, wire, packet>>
    BY <1>3 DEF PersistTyped, Persisted, SavePeer, vars
  <2>2. nvs.counter <= send.counter
    BY <2>1 DEF SendInv, RamNotBehind
  <2>3. SendTypes' /\ RamNotBehind' /\ CounterNeverReused'
    BY <2>1, <1>0 DEF SendInv, SendTypes, PcValues, RamNotBehind, CounterNeverReused
  <2>4. SavedBeyondWire'
    BY <2>1, <2>2, <1>0 DEF SendInv, SendTypes, SavedBeyondWire
  <2>5. PacketInHand'
    <3> SUFFICES ASSUME NEW p \in packet
                 PROVE  p.ctr < send.counter /\ \A q \in wire : q.ctr # p.ctr
      BY <2>1 DEF PacketInHand, SendInv
    <3>1. p.ctr \in Nat /\ nvs.counter <= p.ctr /\ p.ctr < send.counter
      BY <2>1 DEF SendInv, SendTypes, PacketInHand
    <3>2. ASSUME NEW q \in wire PROVE q.ctr # p.ctr
      BY <3>1, <1>0 DEF SendInv, SendTypes, SavedBeyondWire
    <3>3. QED
      BY <3>1, <3>2
  <2>6. QED
    BY <2>3, <2>4, <2>5 DEF SendInv
<1>4. CASE SendDone
  <2>1. /\ pc = "persisted" /\ pc' = "typing" /\ packet' = {}
        /\ wire' \in {wire, wire \cup packet} /\ UNCHANGED <<send, nvs>>
    BY <1>4 DEF SendDone, TxSend
  <2>2. \A p \in wire' : p \in wire \/ p \in packet
    BY <2>1
  <2>3. SendTypes' /\ RamNotBehind' /\ PacketInHand'
    BY <2>1, <2>2 DEF SendInv, SendTypes, PcValues, RamNotBehind, PacketInHand
  <2>4. SavedBeyondWire'
    BY <2>1, <2>2 DEF SendInv, SavedBeyondWire, PacketInHand
  <2>5. CounterNeverReused'
    BY <2>1, <2>2 DEF SendInv, CounterNeverReused, PacketInHand
  <2>6. QED
    BY <2>3, <2>4, <2>5 DEF SendInv
<1>5. CASE PersistInbound \/ LeaveChat
  <2>1. /\ nvs' = send /\ pc = "typing" /\ pc' \in {"typing", "away"}
        /\ UNCHANGED <<send, wire, packet>>
    BY <1>5 DEF PersistInbound, LeaveChat, Persisted, SavePeer, vars
  <2>2. nvs.counter <= send.counter
    BY <2>1 DEF SendInv, RamNotBehind
  <2>3. SendTypes' /\ RamNotBehind' /\ CounterNeverReused' /\ PacketInHand'
    BY <2>1, <1>0
       DEF SendInv, SendTypes, PcValues, RamNotBehind, CounterNeverReused, PacketInHand
  <2>4. SavedBeyondWire'
    BY <2>1, <2>2, <1>0 DEF SendInv, SendTypes, SavedBeyondWire
  <2>5. QED
    BY <2>3, <2>4 DEF SendInv
<1>6. CASE PowerLoss
  <2>1. /\ pc' = "away" /\ packet' = {} /\ send'.counter \in Counters /\ UNCHANGED <<wire, nvs>>
    BY <1>6 DEF PowerLoss, Counters
  <2>2. QED
    BY <2>1 DEF SendInv, SendTypes, PcValues, SavedBeyondWire, RamNotBehind,
                PacketInHand, CounterNeverReused
<1>7. CASE Resume
  <2>1. /\ pc' = "typing" /\ send' = nvs /\ UNCHANGED <<wire, nvs, packet>>
    BY <1>7 DEF Resume
  <2>2. QED
    BY <2>1, <1>0
       DEF SendInv, SendTypes, PcValues, SavedBeyondWire, RamNotBehind,
           PacketInHand, CounterNeverReused
<1>8. CASE Receive
  BY <1>8, ReceiveLeavesSender, FrameSendInv
<1>9. CASE UNCHANGED allVars
  BY <1>9, FrameSendInv DEF allVars, vars
<1>10. QED
  BY <1>1, <1>2, <1>3, <1>4, <1>5, <1>6, <1>7, <1>8, <1>9 DEF ChatNext

\* main.c:629-630: with a flash that accepts writes, no counter and so no key
\* is ever used for two packets the relay gets, whenever the power fails.
THEOREM NoCounterReuse ==
    ASSUME NvsMayFail = FALSE PROVE ChatSpec => []CounterNeverReused
<1>1. SendInv => CounterNeverReused
  BY DEF SendInv
<1>2. QED
  BY InitSendInv, NextSendInv, <1>1, PTL DEF ChatSpec

(***************************************************************************)
(* Types.  A packet in the buffer or at the relay carries the key of its   *)
(* counter, and chain and counter move together in every copy of a         *)
(* direction: without that neither would keep its range.                   *)
(***************************************************************************)
ChatTypeInv ==
    /\ ChatTypeOK
    /\ Step(send) /\ Step(nvs) /\ Step(recv)
    /\ \A p \in wire \cup packet : SealedInRange(p)

LEMMA InitChatTypeInv == ChatInit => ChatTypeInv
<1> SUFFICES ASSUME ChatInit PROVE ChatTypeInv
  OBVIOUS
<1> USE RatchetAssumption DEF ChatInit, Init
<1>1. /\ send = [chain |-> 0, counter |-> 0] /\ nvs = send /\ recv = send
      /\ wire = {} /\ packet = {} /\ pc = "typing" /\ calls = 0 /\ result = "none"
  OBVIOUS
<1>2. [chain |-> 0, counter |-> 0] \in Dirs
  BY DEF Dirs, Counters
<1>3. skipped \in Seq([counter : Counters, key : Keys]) /\ Len(skipped) <= SkippedCap
  OBVIOUS
<1>4. got \in [Plaintexts -> Nat] /\ calls \in Counters
  BY DEF Counters
<1>5. QED
  BY <1>1, <1>2, <1>3, <1>4
     DEF ChatTypeInv, ChatTypeOK, TypeOK, Step, PcValues, Results

\* What opens at the receiver is a packet the relay got, whole.
LEMMA OpenedIsSealed ==
    ASSUME ChatTypeInv, NEW p \in Arriving, NEW key, AeadOpens(key, p)
    PROVE  p \in wire /\ SealedInRange(p) /\ key = MsgKey(p.ctr)
<1>1. p \in wire
  <2> SUFFICES ASSUME NEW q \in wire, p \in Damaged(q) PROVE FALSE
    BY DEF Arriving
  <2>1. PICK c \in Counters : p = [q EXCEPT !.ctr = c, !.intact = FALSE]
    BY DEF Damaged
  <2>2. q \in Packets
    BY DEF ChatTypeInv, SealedInRange
  <2>3. QED
    BY <2>1, <2>2 DEF Packets, AeadOpens
<1>2. QED
  BY <1>1 DEF ChatTypeInv, SealedInRange, AeadOpens

\* ratchet_decrypt keeps the receiver's types, as long as what opens a packet
\* is the key of its counter.
LEMMA DecryptTypes ==
    ASSUME skipped \in Seq(Entries), Len(skipped) <= SkippedCap,
           got \in [Plaintexts -> Nat], Step(recv), NEW p, Decrypt(p),
           \A key : AeadOpens(key, p) => SealedInRange(p)
    PROVE  /\ Step(recv') /\ skipped' \in Seq(Entries) /\ Len(skipped') <= SkippedCap
           /\ got' \in [Plaintexts -> Nat] /\ result' \in Results
           /\ UNCHANGED <<send, calls, wire>>
<1> USE RatchetAssumption
<1>0. Len(skipped) \in Nat
  BY LenProperties
<1>2. CASE DecryptReplay(p) \/ DecryptTooFar(p) \/ DecryptAuthFail(p)
  BY <1>0, <1>2 DEF DecryptReplay, DecryptTooFar, DecryptAuthFail, Results
<1>3. CASE DecryptSkipped(p)
  <2>1. PICK i \in Slots : OpensFromCache(p, i) /\ skipped' = DropSlot(i)
    BY <1>3 DEF DecryptSkipped
  <2>2. p.text \in Plaintexts
    BY <2>1 DEF OpensFromCache, SealedInRange, Packets
  <2>3. skipped' \in Seq(Entries) /\ Len(skipped') = Len(skipped) - 1
    BY <1>0, <2>1, DropSlotProperties
  <2>4. got' \in [Plaintexts -> Nat]
    BY <1>0, <1>3, <2>2 DEF DecryptSkipped
  <2>5. QED
    BY <1>0, <1>3, <2>3, <2>4 DEF DecryptSkipped, Results
<1>4. CASE DecryptAhead(p)
  <2> DEFINE c == p.ctr
             r == recv.counter
             jump == JumpedOver(p)
  <2>1. /\ skipped' = Stash(skipped, jump)
        /\ recv' = [chain |-> Advance(ScratchChain(p)), counter |-> Incr(c)]
        /\ got' = [got EXCEPT ![p.text] = @ + 1] /\ result' = "opened"
        /\ UNCHANGED <<send, calls, wire>>
        /\ ~IsReplay(p) /\ OpensAhead(p)
    BY <1>4 DEF DecryptAhead
  <2>2. p.text \in Plaintexts /\ c \in Nat /\ c < MaxCtr
    BY <2>1 DEF OpensAhead, SealedInRange, Packets, Counters
  <2>3. r \in Nat /\ recv.chain = r /\ r <= c /\ c - r \in Nat
    BY <1>0, <2>1, <2>2 DEF Step, Dirs, Counters, IsReplay
  <2>4. recv' = [chain |-> c + 1, counter |-> c + 1]
    BY <2>1, <2>2, <2>3 DEF Advance, ScratchChain, Incr
  <2>5. Step(recv')
    BY <2>2, <2>4 DEF Step, Dirs, Counters
  <2>6. jump \in Seq(Entries)
    <3>1. \A j \in 1 .. c - r :
             [counter |-> r + j - 1, key |-> MsgKey(recv.chain + j - 1)] \in Entries
      BY <2>2, <2>3 DEF Entries, Counters, Keys, MsgKey
    <3>2. QED
      BY <3>1, <2>3, SeqDef DEF JumpedOver
  <2>7. skipped' \in Seq(Entries) /\ Len(skipped') <= SkippedCap
    <3> HIDE DEF jump
    <3>1. QED
      BY <1>0, <2>1, <2>6, StashProperties
  <2>8. got' \in [Plaintexts -> Nat]
    BY <1>0, <2>1, <2>2
  <2>9. QED
    BY <2>1, <2>5, <2>7, <2>8 DEF Results
<1>5. QED
  BY <1>2, <1>3, <1>4 DEF Decrypt

LEMMA NextChatTypeInv == ChatTypeInv /\ [ChatNext]_allVars => ChatTypeInv'
<1> SUFFICES ASSUME ChatTypeInv, [ChatNext]_allVars PROVE ChatTypeInv'
  OBVIOUS
<1> USE RatchetAssumption
<1>0. /\ Step(send) /\ Step(nvs) /\ Step(recv)
      /\ \A p \in wire \cup packet : SealedInRange(p)
      /\ skipped \in Seq([counter : Counters, key : Keys]) /\ Len(skipped) <= SkippedCap
      /\ calls \in Counters /\ got \in [Plaintexts -> Nat] /\ result \in Results
      /\ pc \in PcValues /\ ((packet # {}) <=> (pc \in {"encrypted", "persisted"}))
  BY DEF ChatTypeInv, ChatTypeOK, TypeOK
\* What is left to show of a step of the sender.
<1>1. ASSUME Step(send'), Step(nvs'), \A p \in wire' \cup packet' : SealedInRange(p),
             calls' \in Counters, result' \in Results, UNCHANGED <<recv, skipped, got>>,
             pc' \in PcValues, (packet' # {}) <=> (pc' \in {"encrypted", "persisted"})
      PROVE  ChatTypeInv'
  <2>1. wire' \subseteq Packets /\ packet' \subseteq Packets
    BY <1>1 DEF SealedInRange
  <2>2. TypeOK'
    BY <1>0, <1>1, <2>1 DEF TypeOK, Step
  <2>3. ChatTypeOK'
    BY <1>1, <2>1, <2>2 DEF ChatTypeOK, Step
  <2>4. QED
    BY <1>0, <1>1, <2>3 DEF ChatTypeInv
<1>2. CASE EncryptTyped
  <2>1. /\ send.counter \in Nat /\ send.counter < MaxCtr /\ send.chain = send.counter
        /\ calls \in Nat /\ calls < MaxCtr
    BY <1>0, <1>2 DEF EncryptTyped, Step, Dirs, Counters
  <2>2. SealedInRange(Sealed)
    BY <2>1 DEF SealedInRange, Sealed, Packets, Counters, Keys, MsgKey, Plaintexts
  <2>3. send' = [chain |-> send.counter + 1, counter |-> send.counter + 1]
    BY <1>2, <2>1 DEF EncryptTyped, Advance, Incr
  <2>4. Step(send')
    BY <2>1, <2>3 DEF Step, Dirs, Counters
  <2>5. \A p \in wire' \cup packet' : SealedInRange(p)
    BY <1>0, <1>2, <2>2 DEF EncryptTyped
  <2>6. QED
    BY <1>0, <1>1, <1>2, <2>1, <2>4, <2>5 DEF EncryptTyped, Counters, Results, PcValues
<1>3. CASE EncryptFails
  BY <1>0, <1>1, <1>3 DEF EncryptFails, chatVars, Results
<1>4. CASE PersistTyped
  BY <1>0, <1>1, <1>4 DEF PersistTyped, Persisted, SavePeer, vars, PcValues
<1>5. CASE SendDone
  <2>1. \A p \in wire' \cup packet' : p \in wire \cup packet
    BY <1>5 DEF SendDone, TxSend
  <2>2. QED
    BY <1>0, <1>1, <1>5, <2>1 DEF SendDone, PcValues
<1>6. CASE PersistInbound
  BY <1>0, <1>1, <1>6 DEF PersistInbound, Persisted, SavePeer, vars
<1>7. CASE LeaveChat
  BY <1>0, <1>1, <1>7 DEF LeaveChat, Persisted, SavePeer, vars, PcValues
<1>8. CASE PowerLoss
  <2>1. Step(send')
    BY <1>8 DEF PowerLoss, Step, Dirs, Counters
  <2>2. QED
    BY <1>0, <1>1, <1>8, <2>1 DEF PowerLoss, PcValues
<1>9. CASE Resume
  BY <1>0, <1>1, <1>9 DEF Resume, PcValues
<1>10. CASE Receive
  <2>1. UNCHANGED <<send, wire, nvs, pc, packet>>
    BY <1>10, ReceiveLeavesSender
  <2>2. /\ Step(recv') /\ skipped' \in Seq(Entries) /\ Len(skipped') <= SkippedCap
        /\ got' \in [Plaintexts -> Nat] /\ result' \in Results /\ calls' = calls
    <3>1. PICK p \in Arriving : Decrypt(p)
      BY <1>10 DEF Receive
    <3>2. \A key : AeadOpens(key, p) => SealedInRange(p)
      BY OpenedIsSealed
    <3>3. QED
      BY <1>0, <3>1, <3>2, DecryptTypes DEF Entries
  <2>3. wire \subseteq Packets /\ packet \subseteq Packets
    BY <1>0 DEF SealedInRange
  <2>4. TypeOK'
    BY <1>0, <2>1, <2>2, <2>3 DEF TypeOK, Step, Entries
  <2>5. ChatTypeOK'
    BY <1>0, <2>1, <2>3, <2>4 DEF ChatTypeOK, Step
  <2>6. QED
    BY <1>0, <2>1, <2>2, <2>5 DEF ChatTypeInv
<1>11. CASE UNCHANGED allVars
  BY <1>0, <1>1, <1>11 DEF allVars, vars
<1>12. QED
  BY <1>2, <1>3, <1>4, <1>5, <1>6, <1>7, <1>8, <1>9, <1>10, <1>11 DEF ChatNext

\* Over power cuts, resumes and failed writes, every copy of the ratchet keeps
\* its range and the cache of the receiver its bound, and a packet is in hand
\* exactly between its encryption and the end of its send (main.c:625-641).
THEOREM ChatTypes == ChatSpec => []ChatTypeOK
<1>1. ChatTypeInv => ChatTypeOK
  BY DEF ChatTypeInv
<1>2. QED
  BY InitChatTypeInv, NextChatTypeInv, <1>1, PTL DEF ChatSpec

(***************************************************************************)
(* What the receiver makes of a sender that loses power.  A cut takes back *)
(* counters but not texts, so a text and the counter it was sealed under   *)
(* no longer are the same number, and a counter may be jumped over whose   *)
(* packet comes later, or never, or was never made.  The argument is       *)
(* therefore about counters: each one within the lookahead has its key in  *)
(* the cache, or a packet of that counter was opened.                      *)
(***************************************************************************)

\* Each text was sealed once: a text that was lost is typed again as another.
TextsSealedOnce ==
    /\ \A p \in wire \cup packet : p.intact = TRUE /\ p.text < calls
    /\ \A p, q \in wire \cup packet : p.text = q.text => p = q

\* A text that was returned used up the key of its counter.
OpenedOnce ==
    \A m \in Plaintexts :
        /\ got[m] \in {0, 1}
        /\ got[m] = 1 => \E p \in wire : /\ p.text = m
                                         /\ p.ctr < recv.counter /\ ~Cached(p.ctr)

CountersHeld ==
    \A c \in Plaintexts :
        c < recv.counter /\ recv.counter <= c + MaxSkipLookahead + 1
        => Cached(c) \/ \E p \in wire : p.ctr = c /\ got[p.text] = 1

ReadInv ==
    /\ CacheSound
    /\ TextsSealedOnce
    /\ OpenedOnce
    /\ CountersHeld

LEMMA InitReadInv == ChatInit => ReadInv
<1> SUFFICES ASSUME ChatInit PROVE ReadInv
  OBVIOUS
<1> USE RatchetAssumption
<1>1. /\ recv = [chain |-> 0, counter |-> 0] /\ skipped = << >> /\ wire = {} /\ packet = {}
      /\ got = [m \in Plaintexts |-> 0]
  BY DEF ChatInit, Init
<1>2. << >> \in Seq(Entries) /\ Len(<< >>) = 0 /\ Slots = {}
  BY <1>1, EmptySeq DEF Slots
<1>3. CacheSound
  BY <1>1, <1>2 DEF CacheSound, CacheSorted, Step, Dirs, Counters
<1>4. TextsSealedOnce /\ OpenedOnce /\ CountersHeld
  BY <1>1 DEF TextsSealedOnce, OpenedOnce, CountersHeld, Plaintexts
<1>5. QED
  BY <1>3, <1>4 DEF ReadInv

\* Nothing the sender does takes a packet back from the relay.
LEMMA SenderKeepsReading ==
    ASSUME ReadInv, UNCHANGED <<recv, skipped, got>>, wire \subseteq wire', TextsSealedOnce'
    PROVE  ReadInv'
<1>1. CacheSound'
  BY DEF ReadInv, CacheSound, CacheSorted, Slots, Step, MsgKey
<1>2. \A c : Cached(c)' <=> Cached(c)
  BY DEF Cached, Slots
<1>3. OpenedOnce' /\ CountersHeld'
  BY <1>2 DEF ReadInv, OpenedOnce, CountersHeld
<1>4. QED
  BY <1>1, <1>3 DEF ReadInv

\* The text of a packet that opens was never returned before.
LEMMA OpensNewText ==
    ASSUME ChatTypeInv, ReadInv, NEW p \in Arriving, DecryptSkipped(p) \/ DecryptAhead(p)
    PROVE  /\ p \in wire /\ SealedInRange(p) /\ p.text \in Plaintexts
           /\ p.text < calls /\ got[p.text] = 0
           /\ Cached(p.ctr) \/ recv.counter <= p.ctr
<1>1. p \in wire /\ SealedInRange(p)
  BY OpenedIsSealed DEF DecryptSkipped, DecryptAhead, OpensFromCache, OpensAhead
<1>2. p.text \in Plaintexts /\ p.text < calls /\ p.ctr \in Nat /\ recv.counter \in Nat
  BY <1>1, CacheInRange
     DEF SealedInRange, Packets, Counters, ReadInv, TextsSealedOnce
<1>3. Cached(p.ctr) \/ recv.counter <= p.ctr
  BY <1>1, OpenedCache DEF ReadInv
<1>4. ASSUME got[p.text] # 0 PROVE FALSE
  <2>1. PICK q \in wire : q.text = p.text /\ q.ctr < recv.counter /\ ~Cached(q.ctr)
    BY <1>2, <1>4 DEF ReadInv, OpenedOnce
  <2>2. q = p
    BY <1>1, <2>1 DEF ReadInv, TextsSealedOnce
  <2>3. QED
    BY <1>2, <1>3, <2>1, <2>2
<1>5. QED
  BY <1>1, <1>2, <1>3, <1>4

LEMMA OpensReadInv ==
    ASSUME ChatTypeInv, ReadInv, NEW p \in Arriving, DecryptSkipped(p) \/ DecryptAhead(p),
           UNCHANGED chatVars
    PROVE  ReadInv'
<1> USE RatchetAssumption
<1> DEFINE c == p.ctr
           m == p.text
<1>1. /\ p \in wire /\ SealedInRange(p) /\ m \in Plaintexts /\ got[m] = 0
      /\ c \in Nat
  BY OpensNewText DEF SealedInRange, Packets, Counters
<1>2. /\ CacheSound' /\ ~Cached(c)'
      /\ recv.counter <= recv'.counter /\ c < recv'.counter
      /\ \A k \in Nat : Cached(k)' => \/ Cached(k)
                                      \/ recv.counter <= k /\ k < recv'.counter
      /\ \A k \in Nat \ {c} : /\ k < recv'.counter
                              /\ recv'.counter <= k + MaxSkipLookahead + 1
                              /\ Cached(k) \/ recv.counter <= k
                              => Cached(k)'
  BY <1>1, OpenedCache DEF ReadInv
<1>3. recv.counter \in Nat /\ recv'.counter \in Nat
  BY <1>2 DEF ReadInv, CacheSound, Step, Dirs, Counters
<1>4. /\ got' = [got EXCEPT ![m] = @ + 1] /\ UNCHANGED <<calls, wire, packet>>
  BY DEF DecryptSkipped, DecryptAhead, chatVars
<1>5. /\ got'[m] = 1 /\ \A k \in Plaintexts \ {m} : got'[k] = got[k]
  BY <1>1, <1>4 DEF ChatTypeInv, ChatTypeOK, TypeOK
<1>6. \A q \in wire : q.text \in Plaintexts /\ q.ctr \in Nat
  BY DEF ChatTypeInv, SealedInRange, Packets, Counters
<1> HIDE DEF c, m
<1>7. TextsSealedOnce'
  BY <1>4 DEF ReadInv, TextsSealedOnce
<1>8. OpenedOnce'
  <2> SUFFICES ASSUME NEW k \in Plaintexts
               PROVE  /\ got'[k] \in {0, 1}
                      /\ got'[k] = 1 => \E q \in wire : /\ q.text = k
                                                        /\ q.ctr < recv'.counter
                                                        /\ ~Cached(q.ctr)'
    BY <1>4 DEF OpenedOnce
  <2>1. CASE k = m
    BY <1>1, <1>2, <1>5, <2>1 DEF c, m
  <2>2. CASE k # m
    <3>1. /\ got'[k] = got[k] /\ got[k] \in {0, 1}
          /\ got[k] = 1 => \E q \in wire : /\ q.text = k
                                           /\ q.ctr < recv.counter /\ ~Cached(q.ctr)
      BY <1>5, <2>2 DEF ReadInv, OpenedOnce
    <3>2. \A q \in wire : q.ctr < recv.counter /\ ~Cached(q.ctr)
                          => q.ctr < recv'.counter /\ ~Cached(q.ctr)'
      BY <1>2, <1>3, <1>6
    <3>3. QED
      BY <3>1, <3>2
  <2>3. QED
    BY <2>1, <2>2
<1>9. CountersHeld'
  <2> SUFFICES ASSUME NEW k \in Plaintexts, k < recv'.counter,
                      recv'.counter <= k + MaxSkipLookahead + 1, ~Cached(k)'
               PROVE  \E q \in wire : q.ctr = k /\ got'[q.text] = 1
    BY <1>4 DEF CountersHeld
  <2>1. k \in Nat
    BY DEF Plaintexts
  <2>2. CASE k = c
    BY <1>1, <1>5, <2>2 DEF c, m
  <2>3. CASE k # c
    <3>1. ~Cached(k) /\ k < recv.counter
      BY <1>2, <1>3, <2>1, <2>3
    <3>2. recv.counter <= k + MaxSkipLookahead + 1
      BY <1>2, <1>3, <2>1
    <3>3. PICK q \in wire : q.ctr = k /\ got[q.text] = 1
      BY <3>1, <3>2 DEF ReadInv, CountersHeld
    <3>4. got'[q.text] = 1
      BY <1>1, <1>5, <1>6, <3>3
    <3>5. QED
      BY <3>3, <3>4
  <2>4. QED
    BY <2>2, <2>3
<1>10. QED
  BY <1>2, <1>7, <1>8, <1>9 DEF ReadInv

LEMMA NextReadInv == ChatTypeInv /\ ReadInv /\ [ChatNext]_allVars => ReadInv'
<1> SUFFICES ASSUME ChatTypeInv, ReadInv, [ChatNext]_allVars PROVE ReadInv'
  OBVIOUS
<1>1. CASE EncryptTyped
  <2>1. /\ packet' = {Sealed} /\ calls' = calls + 1 /\ UNCHANGED <<wire, recv, skipped, got>>
    BY <1>1 DEF EncryptTyped
  <2>2. /\ Sealed.text = calls /\ Sealed.intact = TRUE /\ calls \in Nat
        /\ \A p \in wire : p.text \in Nat /\ p.text < calls
    BY DEF Sealed, ChatTypeInv, ChatTypeOK, TypeOK, Counters, SealedInRange, Packets,
           Plaintexts, ReadInv, TextsSealedOnce
  <2>3. TextsSealedOnce'
    BY <2>1, <2>2 DEF ReadInv, TextsSealedOnce
  <2>4. QED
    BY <2>1, <2>3, SenderKeepsReading
<1>2. CASE SendDone
  <2>1. /\ wire \subseteq wire' /\ wire' \cup packet' \subseteq wire \cup packet
        /\ UNCHANGED <<recv, skipped, got, calls>>
    BY <1>2 DEF SendDone, TxSend
  <2>2. TextsSealedOnce'
    BY <2>1 DEF ReadInv, TextsSealedOnce
  <2>3. QED
    BY <2>1, <2>2, SenderKeepsReading
<1>3. CASE \/ EncryptFails \/ PersistTyped \/ PersistInbound \/ LeaveChat \/ PowerLoss
           \/ Resume \/ UNCHANGED allVars
  <2>1. /\ UNCHANGED <<recv, skipped, got, calls, wire>> /\ packet' \subseteq packet
    BY <1>3 DEF EncryptFails, PersistTyped, PersistInbound, LeaveChat, PowerLoss, Resume,
                chatVars, allVars, vars
  <2>2. TextsSealedOnce'
    BY <2>1 DEF ReadInv, TextsSealedOnce
  <2>3. QED
    BY <2>1, <2>2, SenderKeepsReading
<1>4. ASSUME NEW p \in Arriving, Decrypt(p), UNCHANGED chatVars PROVE ReadInv'
  <2>1. CASE DecryptSkipped(p) \/ DecryptAhead(p)
    BY <1>4, <2>1, OpensReadInv
  <2>2. CASE DecryptReplay(p) \/ DecryptTooFar(p) \/ DecryptAuthFail(p)
    <3>1. UNCHANGED <<recv, skipped, got, calls, wire, packet>>
      BY <1>4, <2>2 DEF DecryptReplay, DecryptTooFar, DecryptAuthFail, chatVars
    <3>2. TextsSealedOnce'
      BY <3>1 DEF ReadInv, TextsSealedOnce
    <3>3. QED
      BY <3>1, <3>2, SenderKeepsReading
  <2>3. QED
    BY <1>4, <2>1, <2>2 DEF Decrypt
<1>5. QED
  BY <1>1, <1>2, <1>3, <1>4 DEF ChatNext, Receive

LEMMA ReadInvariance == ChatSpec => [](ChatTypeInv /\ ReadInv)
BY InitChatTypeInv, NextChatTypeInv, InitReadInv, NextReadInv, PTL DEF ChatSpec

\* No message key encrypts two texts, wherever the power fails: a chain that is
\* brought back from flash has been saved beyond every packet that left
\* (main.c:629-635, session.c:132-151).
THEOREM CutsNeverReuseKeys ==
    ASSUME NvsMayFail = FALSE PROVE ChatSpec => []KeysSingleUse
<1>1. ASSUME ChatTypeInv, CounterNeverReused PROVE KeysSingleUse
  <2> SUFFICES ASSUME NEW p \in wire, NEW q \in wire, p.key = q.key PROVE p.text = q.text
    BY DEF KeysSingleUse
  <2>1. p.key = MsgKey(p.ctr) /\ q.key = MsgKey(q.ctr)
    BY <1>1 DEF ChatTypeInv, SealedInRange
  <2>2. \A c : MsgKey(c).chain = c
    BY DEF MsgKey
  <2>3. p.ctr = q.ctr
    BY <2>1, <2>2
  <2>4. QED
    BY <1>1, <2>3 DEF CounterNeverReused
<1>2. QED
  BY <1>1, NoCounterReuse, ReadInvariance, PTL

\* A sender that is cut off, resumes and drops texts never makes a packet the
\* receiver cannot open: as long as saves succeed, a packet the relay has, near
\* the receiver's chain and not read yet, is accepted (main.c:625-641,
\* ratchet.c:117-120).
THEOREM CutsNeverDesynchronise ==
    ASSUME NvsMayFail = FALSE PROVE ChatSpec => []GenuineAccepted
<1>1. ASSUME ChatTypeInv, ReadInv, SendInv PROVE GenuineAccepted
  <2> SUFFICES ASSUME NEW p \in wire, got[p.text] = 0,
                      recv.counter <= p.ctr + MaxSkipLookahead + 1,
                      p.ctr <= recv.counter + MaxSkipLookahead
               PROVE  InCache(p) \/ (~IsReplay(p) /\ ~IsTooFar(p) /\ OpensAhead(p))
    BY DEF GenuineAccepted
  <2>1. /\ p.intact = TRUE /\ p.key = MsgKey(p.ctr) /\ p.ctr \in Plaintexts /\ p.ctr \in Nat
    BY <1>1, RatchetAssumption
       DEF ReadInv, TextsSealedOnce, ChatTypeInv, SealedInRange, Packets, Counters, Plaintexts
  <2>2. /\ recv.counter \in Nat /\ recv.chain = recv.counter /\ MaxSkipLookahead \in Nat
    BY <1>1, CacheInRange, RatchetAssumption DEF ReadInv
  <2>3. CASE p.ctr < recv.counter
    <3>1. Cached(p.ctr)
      <4> SUFFICES ASSUME NEW q \in wire, q.ctr = p.ctr, got[q.text] = 1 PROVE FALSE
        BY <1>1, <2>1, <2>3 DEF ReadInv, CountersHeld
      <4>1. q.text = p.text
        BY <1>1 DEF SendInv, CounterNeverReused
      <4>2. QED
        BY <4>1
    <3>2. PICK i \in Slots : skipped[i].counter = p.ctr
      BY <3>1 DEF Cached
    <3>3. OpensFromCache(p, i)
      BY <1>1, <2>1, <3>2 DEF OpensFromCache, AeadOpens, ReadInv, CacheSound
    <3>4. QED
      BY <3>3 DEF InCache
  <2>4. CASE ~(p.ctr < recv.counter)
    <3>1. ~IsReplay(p) /\ ~IsTooFar(p)
      BY <2>1, <2>2, <2>4 DEF IsReplay, IsTooFar
    <3>2. ScratchChain(p) = p.ctr
      BY <2>1, <2>2 DEF ScratchChain
    <3>3. QED
      BY <2>1, <3>1, <3>2 DEF OpensAhead, AeadOpens
  <2>5. QED
    BY <2>3, <2>4
<1>2. ChatSpec => []SendInv
  BY InitSendInv, NextSendInv, PTL DEF ChatSpec
<1>3. QED
  BY <1>1, <1>2, ReadInvariance, PTL

\* Whatever the power and the flash of the sender do, its chat is the abstract
\* channel: the receiver reads only texts that were typed, and none twice.
THEOREM ChatRefinement == ChatSpec => ImplementsChannel
<1>1. ChatInit => Channel!Init
  BY DEF ChatInit, Init, Channel!Init, Plaintexts, Channel!Plaintexts
<1>2. ChatTypeInv /\ ReadInv /\ [ChatNext]_allVars => [Channel!Next]_Channel!vars
  <2> SUFFICES ASSUME ChatTypeInv, ReadInv, [ChatNext]_allVars
               PROVE  Channel!Next \/ UNCHANGED <<calls, got>>
    BY DEF Channel!vars
  <2>1. CASE EncryptTyped
    BY <2>1 DEF EncryptTyped, Channel!Next, Channel!Send
  <2>2. ASSUME NEW p \in Arriving, Decrypt(p)
        PROVE  Channel!Next \/ UNCHANGED <<calls, got>>
    <3>1. CASE DecryptSkipped(p) \/ DecryptAhead(p)
      <4>1. p.text \in Plaintexts /\ p.text < calls /\ got[p.text] = 0
        BY <3>1, OpensNewText
      <4>2. Channel!Deliver(p.text)
        BY <3>1, <4>1 DEF DecryptSkipped, DecryptAhead, Channel!Deliver
      <4>3. QED
        BY <4>1, <4>2 DEF Channel!Next, Channel!Plaintexts, Plaintexts
    <3>2. CASE DecryptReplay(p) \/ DecryptTooFar(p) \/ DecryptAuthFail(p)
      BY <3>2 DEF DecryptReplay, DecryptTooFar, DecryptAuthFail
    <3>3. QED
      BY <2>2, <3>1, <3>2 DEF Decrypt
  <2>3. CASE \/ EncryptFails \/ PersistTyped \/ SendDone \/ PersistInbound \/ LeaveChat
             \/ PowerLoss \/ Resume \/ UNCHANGED allVars
    BY <2>3 DEF EncryptFails, PersistTyped, SendDone, PersistInbound, LeaveChat, PowerLoss,
                Resume, allVars, vars
  <2>4. QED
    BY <2>1, <2>2, <2>3 DEF ChatNext, Receive
<1>3. QED
  BY <1>1, <1>2, ReadInvariance, PTL DEF ChatSpec, ImplementsChannel, Channel!Spec

(***************************************************************************)
(* Part 3: ChatReceive.  Whatever the relay, the cursor and the network    *)
(* tasks hand over, in whatever order, a screen shows a text at most once. *)
(*                                                                         *)
(* A resume moves the chain back and empties cache and screen together, so *)
(* what the screen showed is behind the chain that showed it, and no key   *)
(* of a shown text is in the cache.                                        *)
(***************************************************************************)
Genuine(p) == SealedInRange(p) /\ p.text = p.ctr /\ p.intact = TRUE

ShownBehind ==
    /\ shown \in [Plaintexts -> Nat]
    /\ \A m \in Plaintexts :
          shown[m] \in {0, 1} /\ (m >= recv.counter => shown[m] = 0)

CacheUnshown == \A k \in Plaintexts : Cached(k) => shown[k] = 0

RatchetSide ==
    /\ TypeOK
    /\ Step(send) /\ calls = send.counter
    /\ CacheSound
    /\ \A p \in wire : Genuine(p)
    /\ ShownBehind
    /\ CacheUnshown

\* The screen shows what ratchet_decrypt opened.
Shows(p) == shown' = IF result' = "opened" THEN [shown EXCEPT ![p.text] = @ + 1] ELSE shown

\* What opens is new to the screen, its key is gone with it, and the keys the
\* walk adds belong to messages beyond what the screen showed.
LEMMA OpensShowsOnce ==
    ASSUME RatchetSide, NEW p, Genuine(p), DecryptSkipped(p) \/ DecryptAhead(p), Shows(p)
    PROVE  CacheSound' /\ ShownBehind' /\ CacheUnshown'
<1> DEFINE m == p.ctr
<1>1. /\ result' = "opened" /\ shown' = [shown EXCEPT ![m] = @ + 1]
      /\ SealedInRange(p) /\ m \in Plaintexts
  BY DEF DecryptSkipped, DecryptAhead, Shows, Genuine, SealedInRange, Packets
<1>2. /\ CacheSound' /\ ~Cached(m)'
      /\ recv.counter <= recv'.counter /\ m < recv'.counter
      /\ Cached(m) \/ recv.counter <= m
      /\ \A k \in Nat : Cached(k)' => \/ Cached(k)
                                      \/ recv.counter <= k /\ k < recv'.counter
  BY <1>1, OpenedCache DEF RatchetSide
<1>3. recv.counter \in Nat /\ recv'.counter \in Nat /\ Plaintexts \subseteq Nat
  BY <1>2, RatchetAssumption DEF RatchetSide, CacheSound, Step, Dirs, Counters, Plaintexts
<1>4. shown[m] = 0 /\ shown \in [Plaintexts -> Nat]
  BY <1>1, <1>2 DEF RatchetSide, ShownBehind, CacheUnshown
<1>5. /\ shown' \in [Plaintexts -> Nat] /\ shown'[m] = 1
      /\ \A k \in Plaintexts \ {m} : shown'[k] = shown[k]
  BY <1>1, <1>4
<1> HIDE DEF m
<1>6. ASSUME NEW k \in Plaintexts
      PROVE  shown'[k] \in {0, 1} /\ (k >= recv'.counter => shown'[k] = 0)
  <2>1. CASE k = m
    BY <1>2, <1>3, <1>5, <2>1
  <2>2. CASE k # m
    <3>1. shown'[k] = shown[k] /\ shown[k] \in {0, 1} /\ (k >= recv.counter => shown[k] = 0)
      BY <1>5, <2>2 DEF RatchetSide, ShownBehind
    <3>2. QED
      BY <1>2, <1>3, <3>1
  <2>3. QED
    BY <2>1, <2>2
<1>7. ASSUME NEW k \in Plaintexts, Cached(k)' PROVE shown'[k] = 0
  <2>1. k # m /\ shown'[k] = shown[k]
    BY <1>2, <1>5, <1>7
  <2>2. CASE Cached(k)
    BY <2>1, <2>2 DEF RatchetSide, CacheUnshown
  <2>3. CASE recv.counter <= k
    BY <1>3, <2>1, <2>3 DEF RatchetSide, ShownBehind
  <2>4. QED
    BY <1>2, <1>3, <1>7, <2>2, <2>3
<1>8. QED
  BY <1>2, <1>5, <1>6, <1>7 DEF ShownBehind, CacheUnshown

LEMMA DecodeShowsOnce ==
    ASSUME RatchetSide, NEW p, Genuine(p), Decrypt(p), Shows(p) PROVE RatchetSide'
<1>1. /\ got' \in [Plaintexts -> Nat] /\ result' \in Results
      /\ UNCHANGED <<send, calls, wire>>
  BY DecryptTypes DEF RatchetSide, CacheSound, TypeOK, Genuine
<1>2. CacheSound' /\ ShownBehind' /\ CacheUnshown'
  <2>1. CASE DecryptReplay(p) \/ DecryptTooFar(p) \/ DecryptAuthFail(p)
    <3>1. UNCHANGED <<recv, skipped, shown>>
      BY <2>1 DEF DecryptReplay, DecryptTooFar, DecryptAuthFail, Shows
    <3>2. QED
      BY <3>1 DEF RatchetSide, ShownBehind, CacheUnshown, CacheSound, CacheSorted, Cached,
                  Slots, Step, MsgKey
  <2>2. CASE DecryptSkipped(p) \/ DecryptAhead(p)
    BY <2>2, OpensShowsOnce
  <2>3. QED
    BY <2>1, <2>2 DEF Decrypt
<1>3. TypeOK' /\ Step(send') /\ calls' = send'.counter /\ \A q \in wire' : Genuine(q)
  BY <1>1, <1>2 DEF RatchetSide, TypeOK, Step, CacheSound, Entries
<1>4. QED
  BY <1>2, <1>3 DEF RatchetSide

LEMMA FrameRatchetSide ==
    ASSUME RatchetSide, UNCHANGED <<vars, shown>> PROVE RatchetSide'
BY DEF RatchetSide, TypeOK, ShownBehind, CacheUnshown, CacheSound, CacheSorted, Cached,
       Slots, Step, MsgKey, vars

LEMMA PeerEncryptsSide ==
    ASSUME RatchetSide, PeerEncrypts PROVE RatchetSide'
<1> USE RatchetAssumption
<1>1. /\ send.counter \in Nat /\ send.counter < MaxCtr /\ MaxCtr \in Nat
      /\ send.chain = send.counter /\ calls = send.counter
  BY DEF RatchetSide, Step, Dirs, Counters, PeerEncrypts, Encrypt
<1> DEFINE made == [ctr |-> send.counter, key |-> MsgKey(send.chain),
                    text |-> calls, intact |-> TRUE]
<1>2. /\ wire' = wire \cup {made} /\ calls' = send.counter + 1 /\ result' = "encrypted"
      /\ send' = [chain |-> send.counter + 1, counter |-> send.counter + 1]
      /\ UNCHANGED <<recv, skipped, got, shown>>
  BY <1>1 DEF PeerEncrypts, Encrypt, Advance, Incr, screenVars
<1>3. Genuine(made)
  BY <1>1 DEF Genuine, SealedInRange, Packets, Counters, Keys, MsgKey, Plaintexts
<1>4. Step(send') /\ calls' = send'.counter /\ calls' \in Counters
  BY <1>1, <1>2 DEF Step, Dirs, Counters
<1>5. \A q \in wire' : Genuine(q)
  BY <1>2, <1>3 DEF RatchetSide
<1>6. wire' \subseteq Packets
  BY <1>5 DEF Genuine, SealedInRange
<1>7. TypeOK'
  BY <1>2, <1>4, <1>6 DEF RatchetSide, TypeOK, Step, Results
<1>8. ShownBehind' /\ CacheUnshown' /\ CacheSound'
  BY <1>2 DEF RatchetSide, ShownBehind, CacheUnshown, CacheSound, CacheSorted, Cached,
              Slots, Step, MsgKey
<1>9. QED
  BY <1>4, <1>5, <1>7, <1>8 DEF RatchetSide

(***************************************************************************)
(* What the relay, the network tasks and the queue hold are packets of the *)
(* peer with an id.                                                        *)
(***************************************************************************)
PeerEntries == [id : Nat, packet : {p \in Packets : Genuine(p)}]

RelaySide ==
    /\ headId \in Nat
    /\ inbox \in Seq(PeerEntries) /\ Len(inbox) <= MaxInbox
    /\ pushed \subseteq Counters
    /\ net \in [Tasks -> [at : {"none", "polling", "queueing"}, after : Nat,
                         batch : Seq(PeerEntries)]]
    /\ \A t \in Tasks : net[t].at # "queueing" => net[t].batch = << >>
    /\ netRun \in BOOLEAN
    /\ netHandle \in Tasks \cup {NoTask}
    /\ queue \in Seq(PeerEntries) /\ Len(queue) <= QueueLen
    /\ cuts \in 0 .. MaxCuts /\ restarts \in 0 .. MaxRestarts /\ excused \in Nat

ScreenSide ==
    /\ screen \in {"peers", "chat", "stopping"}
    /\ gotInbound \in BOOLEAN
    /\ lastSeen \in Nat
    /\ saved \in [recv : Dirs, lastSeen : Nat]
    /\ Step(saved.recv)

RecvInv == RatchetSide /\ RelaySide /\ ScreenSide

\* The deque keeps the newest messages.
LEMMA KeepProperties ==
    ASSUME NEW S, NEW s \in Seq(S), NEW n \in Nat
    PROVE  /\ Keep(s, n) \in Seq(S) /\ Len(Keep(s, n)) = Min2(n, Len(s))
           /\ \A i \in 1 .. Len(Keep(s, n)) : Keep(s, n)[i] = s[Len(s) - Len(Keep(s, n)) + i]
<1>1. Len(s) \in Nat /\ \A i \in 1 .. Len(s) : s[i] \in S
  BY LenProperties, ElementOfSeq
<1>2. CASE Len(s) > n
  <2> DEFINE m == Len(s) - n + 1
  <2>1. m \in Int /\ m >= 1 /\ Len(s) - m + 1 = n /\ (m <= Len(s) => n > 0)
    BY <1>1, <1>2
  <2>2. \A i \in m .. Len(s) : s[i] \in S
    BY <1>1, <2>1
  <2>3. /\ SubSeq(s, m, Len(s)) \in Seq(S)
        /\ Len(SubSeq(s, m, Len(s))) = IF m <= Len(s) THEN Len(s) - m + 1 ELSE 0
        /\ \A i \in 1 .. Len(s) - m + 1 : SubSeq(s, m, Len(s))[i] = s[m + i - 1]
    BY <1>1, <2>1, <2>2, SubSeqProperties
  <2>4. Len(SubSeq(s, m, Len(s))) = n
    BY <1>1, <2>1, <2>3
  <2>5. \A i \in 1 .. n : SubSeq(s, m, Len(s))[i] = s[Len(s) - n + i]
    <3> SUFFICES ASSUME NEW i \in 1 .. n PROVE SubSeq(s, m, Len(s))[i] = s[Len(s) - n + i]
      OBVIOUS
    <3>1. i \in 1 .. Len(s) - m + 1 /\ m + i - 1 = Len(s) - n + i
      BY <1>1
    <3>2. QED
      BY <2>3, <3>1
  <2>6. Keep(s, n) = SubSeq(s, m, Len(s)) /\ Min2(n, Len(s)) = n
    BY <1>1, <1>2 DEF Keep, Min2
  <2> HIDE DEF m
  <2>7. QED
    BY <2>3, <2>4, <2>5, <2>6
<1>3. CASE ~(Len(s) > n)
  <2>1. Keep(s, n) = s /\ Min2(n, Len(s)) = Len(s)
    BY <1>1, <1>3 DEF Keep, Min2
  <2>2. \A i \in 1 .. Len(s) : s[i] = s[Len(s) - Len(s) + i]
    BY <1>1
  <2>3. QED
    BY <2>1, <2>2
<1>4. QED
  BY <1>2, <1>3

\* fetch_after returns the end of the inbox the cursor has not seen.
LEMMA FetchAfterProperties ==
    ASSUME NEW S, inbox \in Seq(S), NEW after
    PROVE  FetchAfter(after) \in Seq(S)
<1> DEFINE L == Len(inbox)
           Seen == {i \in 1 .. L : inbox[i].id <= after}
           seen == Cardinality(Seen)
<1>1. L \in Nat /\ \A i \in 1 .. L : inbox[i] \in S
  BY LenProperties, ElementOfSeq
<1>2. seen \in Nat
  <2>1. IsFiniteSet(1 .. L)
    BY <1>1, FS_Interval
  <2>2. IsFiniteSet(Seen)
    BY <2>1, FS_Subset
  <2>3. QED
    BY <2>2, FS_CardinalityType
<1> HIDE DEF seen
<1>3. \A i \in seen + 1 .. L : inbox[i] \in S
  BY <1>1, <1>2
<1>4. SubSeq(inbox, seen + 1, L) \in Seq(S)
  BY <1>1, <1>2, <1>3, SubSeqProperties
<1>5. QED
  BY <1>4 DEF FetchAfter, seen

\* The first messages of an answer, as many as tx_poll takes.
LEMMA FirstOf ==
    ASSUME NEW S, NEW s \in Seq(S), NEW n \in Nat
    PROVE  /\ SubSeq(s, 1, Min2(n, Len(s))) \in Seq(S)
           /\ Len(SubSeq(s, 1, Min2(n, Len(s)))) = Min2(n, Len(s))
           /\ \A i \in 1 .. Min2(n, Len(s)) : SubSeq(s, 1, Min2(n, Len(s)))[i] = s[i]
<1>1. Len(s) \in Nat /\ \A i \in 1 .. Len(s) : s[i] \in S
  BY LenProperties, ElementOfSeq
<1> DEFINE m == Min2(n, Len(s))
<1>2. m \in Nat /\ m <= Len(s)
  BY <1>1 DEF Min2
<1> HIDE DEF m
<1>3. \A i \in 1 .. m : s[i] \in S
  BY <1>1, <1>2
<1>4. /\ SubSeq(s, 1, m) \in Seq(S)
      /\ Len(SubSeq(s, 1, m)) = IF 1 <= m THEN m - 1 + 1 ELSE 0
  BY <1>2, <1>3, SubSeqProperties
<1>5. QED
  BY <1>2, <1>4 DEF m

LEMMA PushSide ==
    ASSUME RatchetSide, RelaySide, NEW p, Push(p) PROVE RelaySide'
<1> USE ChatReceiveAssumption
<1> DEFINE e == [id |-> headId + 1, packet |-> p]
<1>1. /\ p \in wire /\ headId' = headId + 1
      /\ inbox' = Keep(Append(inbox, e), MaxInbox)
      /\ pushed' = pushed \cup {p.ctr}
      /\ excused' = excused \/ excused' = Larger(excused, headId + 1)
      /\ UNCHANGED <<restarts, net, netRun, netHandle, queue, cuts>>
  BY DEF Push, Excuse, netVars
<1>2. p \in Packets /\ Genuine(p) /\ p.ctr \in Counters
  BY <1>1 DEF RatchetSide, Genuine, SealedInRange, Packets
<1>3. e \in PeerEntries /\ headId' \in Nat /\ excused' \in Nat
  BY <1>1, <1>2 DEF RelaySide, PeerEntries, Larger
<1>4. Append(inbox, e) \in Seq(PeerEntries)
  BY <1>3, AppendProperties DEF RelaySide
<1>5. inbox' \in Seq(PeerEntries) /\ Len(inbox') = Min2(MaxInbox, Len(Append(inbox, e)))
  BY <1>1, <1>4, KeepProperties
<1>6. Len(inbox') <= MaxInbox
  BY <1>4, <1>5, LenProperties DEF Min2
<1>7. QED
  BY <1>1, <1>2, <1>3, <1>5, <1>6 DEF RelaySide

LEMMA PollSide ==
    ASSUME RelaySide, NEW t \in Tasks, PollReturns(t) PROVE RelaySide'
<1> USE ChatReceiveAssumption
<1> DEFINE found == FetchAfter(net[t].after)
           got4  == IF Len(found) > RespCap THEN << >>
                    ELSE SubSeq(found, 1, Min2(PollCap, Len(found)))
           after == IF got4 = << >> THEN net[t].after ELSE got4[Len(got4)].id
           new   == [at    |-> IF got4 = << >> THEN "polling" ELSE "queueing",
                     after |-> after, batch |-> got4]
<1>1. /\ \/ net' = [net EXCEPT ![t] = new] /\ netHandle' = netHandle
         \/ net' = [net EXCEPT ![t] = Stopped] /\ netHandle' = NoTask
      /\ UNCHANGED <<headId, inbox, pushed, restarts, netRun, queue, cuts, excused>>
  BY DEF PollReturns, TaskExits, relayVars
<1>2. found \in Seq(PeerEntries)
  BY FetchAfterProperties DEF RelaySide
<1> HIDE DEF found
<1>3. got4 \in Seq(PeerEntries)
  <2>1. SubSeq(found, 1, Min2(PollCap, Len(found))) \in Seq(PeerEntries)
    BY <1>2, FirstOf
  <2>2. << >> \in Seq(PeerEntries)
    BY EmptySeq
  <2>3. QED
    BY <2>1, <2>2
<1> HIDE DEF got4
<1>4. after \in Nat
  <2>1. net[t].after \in Nat
    BY DEF RelaySide
  <2>2. CASE got4 # << >>
    <3>1. Len(got4) \in 1 .. Len(got4)
      BY <1>3, <2>2, EmptySeq, LenProperties
    <3>2. got4[Len(got4)] \in PeerEntries
      BY <1>3, <3>1, ElementOfSeq
    <3>3. QED
      BY <2>2, <3>2 DEF PeerEntries
  <2>3. QED
    BY <2>1, <2>2
<1> HIDE DEF after
<1> DEFINE Shape == [at : {"none", "polling", "queueing"}, after : Nat, batch : Seq(PeerEntries)]
<1>5. new \in Shape /\ (new.at # "queueing" => new.batch = << >>)
  BY <1>3, <1>4
<1>6. Stopped \in Shape /\ Stopped.at # "queueing" /\ Stopped.batch = << >>
  BY EmptySeq DEF Stopped
<1> HIDE DEF new
<1>7. net \in [Tasks -> Shape] /\ \A u \in Tasks : net[u].at # "queueing" => net[u].batch = << >>
  BY DEF RelaySide
<1> HIDE DEF Shape
<1>8. net' \in [Tasks -> Shape] /\ \A u \in Tasks : net'[u].at # "queueing" => net'[u].batch = << >>
  BY <1>1, <1>5, <1>6, <1>7
<1>9. netHandle' \in Tasks \cup {NoTask}
  BY <1>1 DEF RelaySide
<1>10. QED
  BY <1>1, <1>8, <1>9 DEF RelaySide, Shape

LEMMA EnqueueSide ==
    ASSUME RelaySide, NEW t \in Tasks, Enqueue(t) PROVE RelaySide'
<1> USE ChatReceiveAssumption
<1> DEFINE batch == net[t].batch
<1>1. /\ batch # << >> /\ net[t].at = "queueing"
      /\ queue' = IF Len(queue) < QueueLen THEN Append(queue, Head(batch)) ELSE queue
      /\ net' = [net EXCEPT ![t].batch = Tail(batch)]
      /\ excused' = excused \/ excused' = Larger(excused, headId)
      /\ UNCHANGED <<headId, inbox, pushed, restarts, netRun, netHandle, cuts>>
  BY DEF Enqueue, Excuse, relayVars, RelaySide
<1>2. batch \in Seq(PeerEntries)
  BY DEF RelaySide
<1>3. Head(batch) \in PeerEntries /\ Tail(batch) \in Seq(PeerEntries)
  BY <1>1, <1>2, HeadTailProperties
<1>4. queue' \in Seq(PeerEntries) /\ Len(queue') <= QueueLen
  <2>1. queue \in Seq(PeerEntries) /\ Len(queue) \in Nat /\ Len(queue) <= QueueLen
    BY LenProperties DEF RelaySide
  <2>2. /\ Append(queue, Head(batch)) \in Seq(PeerEntries)
        /\ Len(Append(queue, Head(batch))) = Len(queue) + 1
    BY <1>3, <2>1, AppendProperties
  <2>3. QED
    BY <1>1, <2>1, <2>2
<1> HIDE DEF batch
<1>5. /\ net' \in [Tasks -> [at : {"none", "polling", "queueing"}, after : Nat,
                            batch : Seq(PeerEntries)]]
      /\ \A u \in Tasks : net'[u].at # "queueing" => net'[u].batch = << >>
  BY <1>1, <1>3 DEF RelaySide
<1>6. excused' \in Nat
  BY <1>1 DEF RelaySide, Larger
<1>7. QED
  BY <1>1, <1>4, <1>5, <1>6 DEF RelaySide

Shape == [at : {"none", "polling", "queueing"}, after : Nat, batch : Seq(PeerEntries)]

LEMMA StoppedShape == Stopped \in Shape /\ Stopped.at # "queueing" /\ Stopped.batch = << >>
BY EmptySeq DEF Stopped, Shape

\* What is left of the relay and the network: stops, starts and restarts.
LEMMA NetSide ==
    ASSUME RelaySide, NEW t \in Tasks,
           LoopOrExit(t) \/ EnterChat(t), lastSeen \in Nat, saved.lastSeen \in Nat
    PROVE  RelaySide'
<1>1. << >> \in Seq(PeerEntries)
  BY EmptySeq
<1>2. CASE LoopOrExit(t)
  <2>1. /\ net[t].batch = << >>
        /\ \/ net' = [net EXCEPT ![t].at = "polling"] /\ netHandle' = netHandle
           \/ net' = [net EXCEPT ![t] = Stopped] /\ netHandle' = NoTask
        /\ UNCHANGED <<headId, inbox, pushed, restarts, netRun, queue, cuts, excused>>
    BY <1>2 DEF LoopOrExit, TaskExits, relayVars
  <2>2. net \in [Tasks -> Shape] /\ \A u \in Tasks : net[u].at # "queueing" => net[u].batch = << >>
    BY DEF RelaySide, Shape
  <2>3. net[t] \in Shape /\ [net[t] EXCEPT !.at = "polling"] \in Shape
    BY <2>2 DEF Shape
  <2>4. /\ net' \in [Tasks -> Shape]
        /\ \A u \in Tasks : net'[u].at # "queueing" => net'[u].batch = << >>
    <3>1. CASE net' = [net EXCEPT ![t] = Stopped]
      BY <2>2, <3>1, StoppedShape
    <3>2. CASE net' = [net EXCEPT ![t].at = "polling"]
      <4>1. net' = [net EXCEPT ![t] = [net[t] EXCEPT !.at = "polling"]]
        BY <3>2
      <4>2. [net[t] EXCEPT !.at = "polling"].batch = << >>
        BY <2>1, <2>3 DEF Shape
      <4>3. QED
        BY <2>2, <2>3, <4>1, <4>2
    <3>3. QED
      BY <2>1, <3>1, <3>2
  <2>5. QED
    BY <2>1, <2>4 DEF RelaySide, Shape
<1>3. CASE EnterChat(t)
  <2>1. /\ net' = [net EXCEPT ![t] = [at |-> "polling", after |-> saved.lastSeen, batch |-> << >>]]
        /\ netRun' = TRUE /\ netHandle' = t
        /\ UNCHANGED <<headId, inbox, pushed, restarts, queue, cuts, excused>>
    BY <1>3 DEF EnterChat, NetStarts, SavedCursor, relayVars
  <2>2. /\ net' \in [Tasks -> [at : {"none", "polling", "queueing"}, after : Nat,
                              batch : Seq(PeerEntries)]]
        /\ \A u \in Tasks : net'[u].at # "queueing" => net'[u].batch = << >>
    BY <1>1, <2>1 DEF RelaySide
  <2>3. QED
    BY <2>1, <2>2 DEF RelaySide
<1>4. QED
  BY <1>2, <1>3

LEMMA InitRecvInv == RecvInit => RecvInv
<1> SUFFICES ASSUME RecvInit PROVE RecvInv
  OBVIOUS
<1> USE RatchetAssumption, ChatReceiveAssumption
<1>1. /\ send = [chain |-> 0, counter |-> 0] /\ recv = send /\ skipped = << >>
      /\ calls = 0 /\ wire = {} /\ got = [m \in Plaintexts |-> 0] /\ result = "none"
      /\ shown = [m \in Plaintexts |-> 0]
  BY DEF RecvInit, Init
<1>2. \A S : << >> \in Seq(S) /\ Len(<< >>) = 0
  BY EmptySeq
<1>3. Step(send) /\ 0 \in Counters
  BY <1>1 DEF Step, Dirs, Counters
<1>4. TypeOK
  BY <1>1, <1>2, <1>3 DEF TypeOK, Step, Results
<1>5. ShownBehind /\ CacheUnshown /\ CacheSound
  BY <1>1, <1>2, <1>3 DEF ShownBehind, CacheUnshown, CacheSound, CacheSorted, Cached, Slots, Step
<1>6. RatchetSide
  BY <1>1, <1>3, <1>4, <1>5 DEF RatchetSide
<1>7. RelaySide
  <2>1. net = [t \in Tasks |-> Stopped]
    BY DEF RecvInit
  <2>2. net \in [Tasks -> Shape] /\ \A t \in Tasks : net[t].at # "queueing" => net[t].batch = << >>
    BY <2>1, StoppedShape
  <2>3. /\ inbox = << >> /\ queue = << >> /\ headId = 0 /\ pushed = {} /\ netRun = FALSE
        /\ netHandle = NoTask /\ cuts = 0 /\ restarts = 0 /\ excused = 0
    BY DEF RecvInit
  <2>4. << >> \in Seq(PeerEntries) /\ Len(<< >>) = 0
    BY <1>2
  <2>5. /\ Len(inbox) <= MaxInbox /\ Len(queue) <= QueueLen
        /\ cuts \in 0 .. MaxCuts /\ restarts \in 0 .. MaxRestarts
    BY <2>3, <2>4
  <2>6. /\ inbox \in Seq(PeerEntries) /\ queue \in Seq(PeerEntries) /\ headId \in Nat
        /\ pushed \subseteq Counters /\ netRun \in BOOLEAN
        /\ netHandle \in Tasks \cup {NoTask} /\ excused \in Nat
    BY <2>3, <2>4
  <2>7. QED
    BY <2>2, <2>5, <2>6 DEF RelaySide, Shape
<1>8. ScreenSide
  BY <1>1, <1>3 DEF RecvInit, ScreenSide, Step
<1>9. QED
  BY <1>6, <1>7, <1>8 DEF RecvInv

LEMMA NextRecvInv == RecvInv /\ [RecvNext]_recvVars => RecvInv'
<1> SUFFICES ASSUME RecvInv, [RecvNext]_recvVars PROVE RecvInv'
  OBVIOUS
<1> USE ChatReceiveAssumption DEF RecvInv
<1>0. /\ RatchetSide /\ RelaySide /\ ScreenSide
      /\ lastSeen \in Nat /\ saved.lastSeen \in Nat /\ Step(recv) /\ Step(saved.recv)
  BY DEF RatchetSide, ScreenSide, CacheSound
\* The relay and the queue, and the screen, when a step leaves them alone.
<1>1. ASSUME UNCHANGED <<relayVars, netVars, queue, cuts, excused>> PROVE RelaySide'
  BY <1>0, <1>1 DEF RelaySide, relayVars, netVars
<1>2. ASSUME UNCHANGED <<screen, gotInbound, lastSeen, saved>> PROVE ScreenSide'
  BY <1>0, <1>2 DEF ScreenSide
<1>3. CASE PeerEncrypts
  BY <1>0, <1>1, <1>2, <1>3, PeerEncryptsSide DEF PeerEncrypts, screenVars
<1>4. ASSUME NEW p \in wire, Push(p) PROVE RecvInv'
  BY <1>0, <1>2, <1>4, PushSide, FrameRatchetSide DEF Push, screenVars
<1>5. CASE RelayRestart
  <2>1. RelaySide'
    BY <1>0, <1>5, EmptySeq DEF RelayRestart, RelaySide, netVars, Excuse, Larger
  <2>2. QED
    BY <1>0, <1>2, <1>5, <2>1, FrameRatchetSide DEF RelayRestart, screenVars
<1>6. ASSUME NEW t \in Tasks, NetNext(t) PROVE RecvInv'
  <2>1. UNCHANGED <<vars, screen, gotInbound, lastSeen, shown, saved>>
    BY <1>6 DEF NetNext, PollReturns, Enqueue, LoopOrExit, screenVars
  <2>2. RelaySide'
    BY <1>0, <1>6, PollSide, EnqueueSide, NetSide DEF NetNext
  <2>3. QED
    BY <1>0, <1>2, <2>1, <2>2, FrameRatchetSide
<1>7. ASSUME NEW t \in Tasks, EnterChat(t) PROVE RecvInv'
  <2>1. RelaySide'
    BY <1>0, <1>7, NetSide
  <2>2. ScreenSide'
    BY <1>0, <1>7 DEF EnterChat, ScreenSide, SavedCursor
  <2>3. /\ recv' = saved.recv /\ skipped' = << >> /\ shown' = [m \in Plaintexts |-> 0]
        /\ UNCHANGED <<send, calls, wire, got, result>>
    BY <1>7 DEF EnterChat, Resumed
  <2>4. << >> \in Seq(Entries) /\ Len(<< >>) = 0 /\ 0 <= SkippedCap
    BY EmptySeq, RatchetAssumption
  <2>5. Step(recv') /\ recv' \in Dirs
    BY <1>0, <2>3 DEF Step
  <2>6. TypeOK'
    BY <1>0, <2>3, <2>4, <2>5 DEF RatchetSide, TypeOK, Entries
  <2>7. ShownBehind' /\ CacheUnshown' /\ CacheSound'
    BY <2>3, <2>4, <2>5 DEF ShownBehind, CacheUnshown, CacheSound, CacheSorted, Cached, Slots
  <2>8. RatchetSide'
    BY <1>0, <2>3, <2>5, <2>6, <2>7 DEF RatchetSide
  <2>9. QED
    BY <2>1, <2>2, <2>8
<1>8. CASE DrainOne
  <2> DEFINE m == Head(queue)
  <2>1. /\ queue # << >> /\ Decrypt(m.packet) /\ queue' = Tail(queue)
        /\ IF result' = "opened"
           THEN /\ shown' = [shown EXCEPT ![m.packet.text] = @ + 1]
                /\ gotInbound' = TRUE
                /\ lastSeen' = IF m.id > lastSeen THEN m.id ELSE lastSeen
           ELSE UNCHANGED <<shown, gotInbound, lastSeen>>
        /\ UNCHANGED <<relayVars, netVars, screen, saved, cuts, excused>>
    BY <1>8 DEF DrainOne, DecodeIncoming
  <2>2. /\ m \in PeerEntries /\ Tail(queue) \in Seq(PeerEntries)
        /\ Len(Tail(queue)) = Len(queue) - 1 /\ Len(queue) \in Nat /\ Len(queue) <= QueueLen
    BY <1>0, <2>1, HeadTailProperties, LenProperties DEF RelaySide
  <2> HIDE DEF m
  <2>3. Genuine(m.packet) /\ m.id \in Nat
    BY <2>2 DEF PeerEntries
  <2>4. RatchetSide'
    BY <1>0, <2>1, <2>3, DecodeShowsOnce DEF Shows
  <2>5. RelaySide'
    BY <1>0, <2>1, <2>2 DEF RelaySide, relayVars, netVars
  <2>6. ScreenSide'
    BY <1>0, <2>1, <2>3 DEF ScreenSide
  <2>7. QED
    BY <2>4, <2>5, <2>6
<1>9. CASE PersistDrained \/ LeaveScreen
  <2>1. /\ UNCHANGED <<vars, shown, queue, cuts, excused, relayVars, net, netHandle, lastSeen>>
        /\ netRun' \in {netRun, FALSE} /\ screen' \in {screen, "stopping"}
        /\ gotInbound' \in {gotInbound, FALSE}
        /\ saved' \in {saved, Blob}
    BY <1>9 DEF PersistDrained, LeaveScreen, netVars
  <2>2. RelaySide'
    BY <1>0, <2>1 DEF RelaySide, relayVars
  <2>3. Blob \in [recv : Dirs, lastSeen : Nat] /\ Step(Blob.recv)
    BY <1>0 DEF Blob, Step
  <2>4. ScreenSide'
    BY <1>0, <2>1, <2>3 DEF ScreenSide
  <2>5. QED
    BY <1>0, <2>1, <2>2, <2>4, FrameRatchetSide
<1>10. CASE StopReturns
  <2>1. RelaySide'
    BY <1>0, <1>10, EmptySeq DEF StopReturns, RelaySide, relayVars, netVars
  <2>2. ScreenSide'
    BY <1>0, <1>10 DEF StopReturns, ScreenSide, Blob, Step
  <2>3. QED
    BY <1>0, <1>10, <2>1, <2>2, FrameRatchetSide DEF StopReturns
<1>11. CASE PowerCut
  <2>1. RelaySide'
    <3>1. net' = [t \in Tasks |-> Stopped]
      BY <1>11 DEF PowerCut
    <3>2. net' \in [Tasks -> Shape] /\ \A t \in Tasks : net'[t].at # "queueing" => net'[t].batch = << >>
      BY <3>1, StoppedShape
    <3>3. << >> \in Seq(PeerEntries) /\ Len(<< >>) = 0
      BY EmptySeq
    <3>4. cuts' \in 0 .. MaxCuts
      BY <1>0, <1>11 DEF PowerCut, RelaySide
    <3>5. /\ queue' = << >> /\ netRun' = FALSE /\ netHandle' = NoTask
          /\ UNCHANGED <<headId, inbox, pushed, restarts, excused>>
      BY <1>11 DEF PowerCut, relayVars
    <3>6. queue' \in Seq(PeerEntries) /\ Len(queue') <= QueueLen
      BY <3>3, <3>5
    <3>7. QED
      BY <1>0, <3>2, <3>4, <3>5, <3>6 DEF RelaySide, Shape
  <2>2. ScreenSide'
    BY <1>0, <1>11 DEF PowerCut, ScreenSide
  <2>3. QED
    BY <1>0, <1>11, <2>1, <2>2, FrameRatchetSide DEF PowerCut
<1>12. CASE UNCHANGED recvVars
  BY <1>0, <1>1, <1>2, <1>12, FrameRatchetSide DEF recvVars, screenVars
<1>13. QED
  BY <1>3, <1>4, <1>5, <1>6, <1>7, <1>8, <1>9, <1>10, <1>11, <1>12 DEF RecvNext

\* However often the relay, a rewound cursor, a restarted numbering or a task
\* that outlived its chat hands a packet over, the screen shows its text once.
THEOREM TextsShownOnce == RecvSpec => []ShownOnce
<1>1. RecvInv => ShownOnce
  BY DEF RecvInv, RatchetSide, ShownBehind, ShownOnce
<1>2. QED
  BY InitRecvInv, NextRecvInv, <1>1, PTL DEF RecvSpec

\* Types; the queue is never written past its length, whatever tasks share it.
THEOREM RecvTypes == RecvSpec => []RecvTypeOK
<1>1. RecvInv => RecvTypeOK
  <2> SUFFICES ASSUME RecvInv PROVE RecvTypeOK
    OBVIOUS
  <2>1. PeerEntries \subseteq InboxEntries
    BY DEF PeerEntries, InboxEntries
  <2>2. \A s \in Seq(PeerEntries) : s \in Seq(InboxEntries)
    BY <2>1, SeqMonotonic
  <2>3. net \in [Tasks -> [at : {"none", "polling", "queueing"}, after : Nat,
                          batch : Seq(InboxEntries)]]
    BY <2>2 DEF RecvInv, RelaySide
  <2>4. inbox \in Seq(InboxEntries) /\ queue \in Seq(InboxEntries)
    BY <2>2 DEF RecvInv, RelaySide
  <2>5. QED
    BY <2>3, <2>4
       DEF RecvInv, RatchetSide, RelaySide, ScreenSide, ShownBehind, RecvTypeOK
<1>2. QED
  BY InitRecvInv, NextRecvInv, <1>1, PTL DEF RecvSpec

(***************************************************************************)
(* Part 4: ChatReceive.  What a message that was never shown can count on, *)
(* whatever the relay, the tasks, the user and the power do.               *)
(*                                                                         *)
(* Ids and counters put the messages that are not excused in the same      *)
(* order, so a cursor and a receive chain that stand at the same message   *)
(* divide them in the same way; both pass a message only when it is shown, *)
(* and what the cursor of the open chat's task has passed is in the queue  *)
(* or in the task's hands, the queue first.                                *)
(***************************************************************************)
In(s) == {s[i] : i \in 1 .. Len(s)}

\* The messages that the relay, the queue and the tasks hold.
Items == In(inbox) \cup In(queue) \cup UNION {In(net[t].batch) : t \in Tasks}

\* The relay has given out the id, before its last restart or after it.
Passed(n) == n <= headId \/ n <= excused

InboxIds ==
    /\ Len(inbox) <= headId
    /\ \A i \in 1 .. Len(inbox) : inbox[i].id = (headId - Len(inbox)) + i

ItemsPushed == \A e \in Items : e.packet.ctr \in pushed /\ Passed(e.id)

SameOrder ==
    \A e, f \in Items : f.id > excused =>
        /\ e.id < f.id <=> e.packet.ctr < f.packet.ctr
        /\ e.id = f.id <=> e.packet.ctr = f.packet.ctr

Numbering == InboxIds /\ ItemsPushed /\ SameOrder

\* A cursor and a counter that stand between the same two messages, with
\* nothing unread behind them.
Mark(cursor, c) ==
    /\ Passed(cursor)
    /\ c = 0 \/ c - 1 \in pushed
    /\ \A e \in Items : e.id > excused => (e.id <= cursor <=> e.packet.ctr < c)
    /\ \A e \in In(inbox) : Unread(e) => e.id > cursor /\ e.packet.ctr >= c

\* What the cursor of the open chat's task has passed and the screen has yet
\* to decode.
Cursor == net[netHandle].after
Stream == queue \o net[netHandle].batch

Running == netRun /\ netHandle \in Tasks /\ net[netHandle].at # "none"

\* Ids grow along s, up to the cursor.
Rising(s, after) ==
    /\ \A i \in 1 .. Len(s) : s[i].id <= after \/ s[i].id <= excused
    /\ \A i, j \in 1 .. Len(s) : i < j /\ s[i].id > excused => s[i].id < s[j].id

\* The message is in s, or too far ahead of the chain and all of s beyond it.
Covers(s, e) ==
    \/ e \in In(s)
    \/ /\ e.packet.ctr > recv.counter + MaxSkipLookahead
       /\ \A f \in In(s) : e.id < f.id

Coming(s, after) ==
    /\ Passed(after)
    /\ Rising(s, after)
    /\ \A e \in In(inbox) : Unread(e) /\ e.id <= after => Covers(s, e)

FlashSide  == Mark(saved.lastSeen, saved.recv.counter)
ChatSide   == screen # "peers" => Mark(lastSeen, recv.counter)
ClosedSide == screen = "peers" => \A e \in In(queue) : e.id <= excused
OpenSide   == screen = "chat" => Running /\ Coming(Stream, Cursor)

SkipInv == Numbering /\ FlashSide /\ ChatSide /\ ClosedSide /\ OpenSide

LEMMA InitSkipInv == RecvInit => SkipInv
<1> SUFFICES ASSUME RecvInit PROVE SkipInv
  OBVIOUS
<1>1. /\ recv.counter = 0 /\ headId = 0 /\ inbox = << >> /\ pushed = {} /\ excused = 0
      /\ net = [t \in Tasks |-> Stopped] /\ queue = << >> /\ screen = "peers"
      /\ saved.recv.counter = 0 /\ saved.lastSeen = 0
  BY DEF RecvInit, Init
<1>2. In(<< >>) = {}
  <2>1. Len(<< >>) = 0 /\ 1 .. 0 = {}
    BY EmptySeq
  <2>2. QED
    BY <2>1 DEF In
<1>3. Items = {}
  <2>1. \A t \in Tasks : net[t].batch = << >>
    BY <1>1 DEF Stopped
  <2>2. \A t \in Tasks : In(net[t].batch) = {}
    BY <1>2, <2>1
  <2>3. QED
    BY <1>1, <1>2, <2>2 DEF Items
<1>4. Numbering
  BY <1>1, <1>3, EmptySeq DEF Numbering, InboxIds, ItemsPushed, SameOrder
<1>5. FlashSide
  BY <1>1, <1>2, <1>3 DEF FlashSide, Mark, Passed
<1>6. QED
  BY <1>1, <1>2, <1>4, <1>5 DEF SkipInv, ChatSide, ClosedSide, OpenSide

\* Every message anywhere is a packet of the peer.
LEMMA ItemsTyped ==
    ASSUME RecvInv
    PROVE  /\ Items \subseteq PeerEntries
           /\ \A e \in PeerEntries : e.id \in Nat /\ e.packet.ctr \in Nat
                                     /\ e.packet.text = e.packet.ctr
           /\ In(inbox) \subseteq Items /\ In(queue) \subseteq Items
           /\ \A t \in Tasks : In(net[t].batch) \subseteq Items
           /\ headId \in Nat /\ excused \in Nat /\ recv.counter \in Nat
           /\ saved.recv.counter \in Nat /\ lastSeen \in Nat /\ saved.lastSeen \in Nat
           /\ pushed \subseteq Nat
<1> USE RatchetAssumption
<1>1. \A s \in Seq(PeerEntries) : In(s) \subseteq PeerEntries
  BY ElementOfSeq DEF In
<1>2. /\ inbox \in Seq(PeerEntries) /\ queue \in Seq(PeerEntries)
      /\ \A t \in Tasks : net[t].batch \in Seq(PeerEntries)
  BY DEF RecvInv, RelaySide
<1>3. Items \subseteq PeerEntries
  BY <1>1, <1>2 DEF Items
<1>4. \A e \in PeerEntries : e.id \in Nat /\ e.packet.ctr \in Nat
                             /\ e.packet.text = e.packet.ctr
  BY DEF PeerEntries, Genuine, Packets, Counters
<1>5. /\ headId \in Nat /\ excused \in Nat /\ recv.counter \in Nat
      /\ saved.recv.counter \in Nat /\ lastSeen \in Nat /\ saved.lastSeen \in Nat
      /\ pushed \subseteq Nat
  BY DEF RecvInv, RatchetSide, RelaySide, ScreenSide, CacheSound, Step, Dirs, Counters
<1>6. /\ In(inbox) \subseteq Items /\ In(queue) \subseteq Items
      /\ \A t \in Tasks : In(net[t].batch) \subseteq Items
  BY DEF Items
<1>7. QED
  BY <1>3, <1>4, <1>5, <1>6

(***************************************************************************)
(* Steps that add no message                                               *)
(***************************************************************************)
Calm ==
    /\ UNCHANGED <<headId, inbox, pushed, excused>>
    /\ Items' \subseteq Items
    /\ \A e \in In(inbox) : Unread(e)' => Unread(e)

LEMMA CalmNumbering == Numbering /\ Calm => Numbering'
BY DEF Numbering, InboxIds, ItemsPushed, SameOrder, Passed, Calm

LEMMA CalmMark ==
    ASSUME Calm, NEW cursor, NEW c, Mark(cursor, c) PROVE Mark(cursor, c)'
BY DEF Calm, Mark, Passed, In

LEMMA CalmFlash == FlashSide /\ Calm /\ UNCHANGED saved => FlashSide'
<1> SUFFICES ASSUME FlashSide, Calm, UNCHANGED saved PROVE FlashSide'
  OBVIOUS
<1>1. PICK l, c : l = saved.lastSeen /\ c = saved.recv.counter
  OBVIOUS
<1>2. Mark(l, c)'
  BY <1>1, CalmMark DEF FlashSide
<1>3. QED
  BY <1>1, <1>2 DEF FlashSide

LEMMA CalmChat ==
    ChatSide /\ Calm /\ UNCHANGED <<recv, lastSeen>> /\ (screen' # "peers" => screen # "peers")
    => ChatSide'
<1> SUFFICES ASSUME ChatSide, Calm, UNCHANGED <<recv, lastSeen>>,
                    screen' # "peers", screen # "peers"
             PROVE  Mark(lastSeen, recv.counter)'
  BY DEF ChatSide
<1>1. PICK l, c : l = lastSeen /\ c = recv.counter
  OBVIOUS
<1>2. Mark(l, c)'
  BY <1>1, CalmMark DEF ChatSide
<1>3. QED
  BY <1>1, <1>2

\* The stream of the open chat, left alone.
LEMMA CalmOpen ==
    OpenSide /\ Calm /\ UNCHANGED <<recv, netRun, netHandle, screen>> /\ Stream' = Stream
    /\ Cursor' = Cursor /\ (net[netHandle].at # "none" => net'[netHandle].at # "none")
    => OpenSide'
<1> SUFFICES ASSUME OpenSide, Calm, UNCHANGED <<recv, netRun, netHandle, screen>>,
                    Stream' = Stream, Cursor' = Cursor,
                    net[netHandle].at # "none" => net'[netHandle].at # "none",
                    screen = "chat"
             PROVE  Running' /\ Coming(Stream, Cursor)'
  BY DEF OpenSide
<1>1. PICK s, a : s = Stream /\ a = Cursor
  OBVIOUS
<1>2. Running /\ Coming(s, a)
  BY <1>1 DEF OpenSide
<1>3. Running'
  BY <1>2 DEF Running
<1>4. Coming(s, a)'
  BY <1>2 DEF Coming, Passed, Rising, Covers, Calm, In
<1>5. QED
  BY <1>1, <1>3, <1>4

LEMMA ItemsShrink ==
    ASSUME In(inbox') \subseteq Items, In(queue') \subseteq Items,
           \A t \in Tasks : In(net'[t].batch) \subseteq Items
    PROVE  Items' \subseteq Items
BY DEF Items, In

LEMMA EmptyIn == In(<< >>) = {}
<1>1. Len(<< >>) = 0 /\ 1 .. 0 = {}
  BY EmptySeq
<1>2. QED
  BY <1>1 DEF In

\* The queue and the batch of a task, one after the other.
LEMMA StreamItems ==
    ASSUME NEW S, NEW q \in Seq(S), NEW b \in Seq(S)
    PROVE  /\ Len(q) \in Nat /\ Len(b) \in Nat /\ Len(q \o b) = Len(q) + Len(b)
           /\ \A i \in 1 .. Len(q) : (q \o b)[i] = q[i]
           /\ \A i \in 1 .. Len(b) : (q \o b)[Len(q) + i] = b[i]
           /\ q = << >> => q \o b = b
           /\ b = << >> => q \o b = q
<1>1. Len(q) \in Nat /\ Len(b) \in Nat
  BY LenProperties
<1>2. /\ Len(q \o b) = Len(q) + Len(b)
      /\ \A i \in 1 .. Len(q) + Len(b) :
            (q \o b)[i] = IF i <= Len(q) THEN q[i] ELSE b[i - Len(q)]
  BY ConcatProperties
<1>3. \A i \in 1 .. Len(q) : (q \o b)[i] = q[i]
  BY <1>1, <1>2
<1>4. ASSUME NEW i \in 1 .. Len(b) PROVE (q \o b)[Len(q) + i] = b[i]
  <2>1. Len(q) + i \in 1 .. Len(q) + Len(b) /\ ~(Len(q) + i <= Len(q)) /\ (Len(q) + i) - Len(q) = i
    BY <1>1
  <2>2. QED
    BY <1>2, <2>1
<1>5. QED
  BY <1>1, <1>2, <1>3, <1>4, ConcatEmptySeq

LEMMA StreamEither ==
    ASSUME NEW S, NEW q \in Seq(S), NEW b \in Seq(S)
    PROVE  \A i \in 1 .. Len(q \o b) :
              \/ i \in 1 .. Len(q) /\ (q \o b)[i] = q[i]
              \/ \E j \in 1 .. Len(b) : i = Len(q) + j /\ (q \o b)[i] = b[j]
<1>1. /\ Len(q) \in Nat /\ Len(b) \in Nat /\ Len(q \o b) = Len(q) + Len(b)
      /\ \A i \in 1 .. Len(q) : (q \o b)[i] = q[i]
      /\ \A i \in 1 .. Len(b) : (q \o b)[Len(q) + i] = b[i]
  BY StreamItems
<1> SUFFICES ASSUME NEW i \in 1 .. Len(q \o b), i \notin 1 .. Len(q)
             PROVE  \E j \in 1 .. Len(b) : i = Len(q) + j /\ (q \o b)[i] = b[j]
  BY <1>1
<1>2. i - Len(q) \in 1 .. Len(b) /\ i = Len(q) + (i - Len(q))
  BY <1>1
<1>3. QED
  BY <1>1, <1>2

LEMMA StreamMoves ==
    ASSUME NEW S, NEW q \in Seq(S), NEW b \in Seq(S), b # << >>
    PROVE  Append(q, Head(b)) \o Tail(b) = q \o b
<1>1. Head(b) \in S /\ Tail(b) \in Seq(S) /\ <<Head(b)>> \in Seq(S)
  BY HeadTailProperties
<1>2. Append(q, Head(b)) = q \o <<Head(b)>>
  BY <1>1, AppendIsConcat
<1>3. (q \o <<Head(b)>>) \o Tail(b) = q \o (<<Head(b)>> \o Tail(b))
  BY <1>1, ConcatAssociative
<1>4. <<Head(b)>> \o Tail(b) = b
  <2> DEFINE h == <<Head(b)>>
             c == h \o Tail(b)
  <2>1. /\ Len(b) \in Nat \ {0} /\ Len(Tail(b)) = Len(b) - 1 /\ Head(b) = b[1]
        /\ \A i \in 1 .. Len(Tail(b)) : Tail(b)[i] = b[i + 1]
    BY HeadTailProperties, EmptySeq
  <2>2. Len(h) = 1 /\ h[1] = Head(b)
    OBVIOUS
  <2>3. /\ c \in Seq(S) /\ Len(c) = Len(h) + Len(Tail(b))
        /\ \A i \in 1 .. Len(h) + Len(Tail(b)) :
              c[i] = IF i <= Len(h) THEN h[i] ELSE Tail(b)[i - Len(h)]
    BY <1>1, ConcatProperties
  <2> HIDE DEF h, c
  <2>4. Len(c) = Len(b)
    BY <2>1, <2>2, <2>3
  <2>5. ASSUME NEW i \in 1 .. Len(b) PROVE c[i] = b[i]
    <3>1. CASE i = 1
      BY <2>1, <2>2, <2>3, <3>1
    <3>2. CASE i # 1
      <4>1. i - 1 \in 1 .. Len(Tail(b)) /\ ~(i <= 1) /\ (i - 1) + 1 = i
        BY <2>1, <3>2
      <4>2. c[i] = Tail(b)[i - 1]
        BY <2>1, <2>2, <2>3, <4>1
      <4>3. QED
        BY <2>1, <4>1, <4>2
    <3>3. QED
      BY <3>1, <3>2
  <2>6. c = b
    BY <2>3, <2>4, <2>5, SeqEqual
  <2>7. QED
    BY <2>6 DEF c, h
<1>5. QED
  BY <1>2, <1>3, <1>4

\* The screen takes the first message of the stream.
LEMMA StreamDrains ==
    ASSUME NEW S, NEW q \in Seq(S), NEW b \in Seq(S), q # << >>
    PROVE  /\ Len(q \o b) \in Nat \ {0} /\ (q \o b)[1] = Head(q)
           /\ Len(Tail(q) \o b) = Len(q \o b) - 1
           /\ \A i \in 1 .. Len(Tail(q) \o b) : (Tail(q) \o b)[i] = (q \o b)[i + 1]
<1>1. /\ Len(q) \in Nat \ {0} /\ Len(b) \in Nat /\ Head(q) = q[1]
      /\ Tail(q) \in Seq(S) /\ Len(Tail(q)) = Len(q) - 1
      /\ \A i \in 1 .. Len(Tail(q)) : Tail(q)[i] = q[i + 1]
  BY HeadTailProperties, LenProperties, EmptySeq
<1>2. /\ Len(q \o b) = Len(q) + Len(b)
      /\ \A i \in 1 .. Len(q) : (q \o b)[i] = q[i]
      /\ \A i \in 1 .. Len(b) : (q \o b)[Len(q) + i] = b[i]
  BY StreamItems
<1>3. /\ Len(Tail(q) \o b) = Len(Tail(q)) + Len(b)
      /\ \A i \in 1 .. Len(Tail(q)) : (Tail(q) \o b)[i] = Tail(q)[i]
      /\ \A i \in 1 .. Len(b) : (Tail(q) \o b)[Len(Tail(q)) + i] = b[i]
  BY <1>1, StreamItems
<1>4. ASSUME NEW i \in 1 .. Len(Tail(q) \o b) PROVE (Tail(q) \o b)[i] = (q \o b)[i + 1]
  <2>1. CASE i <= Len(Tail(q))
    <3>1. i \in 1 .. Len(Tail(q)) /\ i + 1 \in 1 .. Len(q)
      BY <1>1, <1>3, <2>1
    <3>2. QED
      BY <1>1, <1>2, <1>3, <3>1
  <2>2. CASE i > Len(Tail(q))
    <3> DEFINE j == i - Len(Tail(q))
    <3>1. j \in 1 .. Len(b) /\ i = Len(Tail(q)) + j /\ i + 1 = Len(q) + j
      BY <1>1, <1>3, <2>2
    <3> HIDE DEF j
    <3>2. (Tail(q) \o b)[i] = b[j] /\ (q \o b)[i + 1] = b[j]
      BY <1>2, <1>3, <3>1
    <3>3. QED
      BY <3>2
  <2>3. QED
    BY <1>1, <1>3, <2>1, <2>2
<1>5. 1 \in 1 .. Len(q)
  BY <1>1
<1>6. QED
  BY <1>1, <1>2, <1>3, <1>4, <1>5

(***************************************************************************)
(* Steps that excuse every message there is                                *)
(***************************************************************************)
Excusing ==
    /\ \A n \in Nat : Passed(n) => n <= excused'
    /\ pushed \subseteq pushed'
    /\ InboxIds'
    /\ \A e \in Items' : e \in Items \/ (e.id <= excused' /\ e.packet.ctr \in pushed')

LEMMA ExcusingItems ==
    ASSUME RecvInv, RecvInv', Numbering, Excusing
    PROVE  \A e \in Items' : e.id <= excused' /\ e.packet.ctr \in pushed' /\ e.id \in Nat
<1>1. \A e \in Items : e.id \in Nat /\ Passed(e.id) /\ e.packet.ctr \in pushed
  BY ItemsTyped DEF Numbering, ItemsPushed
<1>2. \A e \in Items' : e.id \in Nat
  <2>1. Items' \subseteq PeerEntries /\ \A e \in PeerEntries : e.id \in Nat
    <3>1. \A e \in PeerEntries : e.id \in Nat
      BY ItemsTyped
    <3>2. Items' \subseteq PeerEntries
      <4>1. \A s \in Seq(PeerEntries) : \A i \in 1 .. Len(s) : s[i] \in PeerEntries
        BY ElementOfSeq
      <4>2. /\ inbox' \in Seq(PeerEntries) /\ queue' \in Seq(PeerEntries)
            /\ \A t \in Tasks : net'[t].batch \in Seq(PeerEntries)
        BY DEF RecvInv, RelaySide
      <4>3. QED
        BY <4>1, <4>2 DEF Items, In
    <3>3. QED
      BY <3>1, <3>2
  <2>2. QED
    BY <2>1
<1>3. QED
  BY <1>1, <1>2 DEF Excusing

LEMMA ExcusedNumbering ==
    ASSUME RecvInv, RecvInv', Numbering, Excusing PROVE Numbering'
<1>1. /\ \A e \in Items' : e.id <= excused' /\ e.packet.ctr \in pushed' /\ e.id \in Nat
      /\ excused' \in Nat
  BY ExcusingItems DEF RecvInv, RelaySide
<1>2. \A f \in Items' : ~(f.id > excused')
  BY <1>1
<1>3. QED
  BY <1>1, <1>2 DEF Numbering, ItemsPushed, SameOrder, Passed, Excusing

LEMMA ExcusedMark ==
    ASSUME RecvInv, RecvInv', Numbering, Excusing, NEW cursor \in Nat, NEW c, Mark(cursor, c)
    PROVE  Mark(cursor, c)'
<1>1. /\ \A e \in Items' : e.id <= excused' /\ e.id \in Nat
      /\ excused' \in Nat
  BY ExcusingItems DEF RecvInv, RelaySide
<1>2. \A e \in Items' : ~(e.id > excused') /\ ~Unread(e)'
  BY <1>1 DEF Unread
<1>3. \A e \in In(inbox)' : e \in Items'
  BY DEF Items, In
<1>4. Passed(cursor)' /\ (c = 0 \/ c - 1 \in pushed')
  BY DEF Mark, Passed, Excusing
<1>5. QED
  BY <1>2, <1>3, <1>4 DEF Mark

\* An excuse leaves nothing to prove but that the ids it covers were given out.
LEMMA ExcusedSkips ==
    ASSUME RecvInv, RecvInv', SkipInv, Excusing,
           UNCHANGED <<recv, lastSeen, saved, screen, netRun, netHandle>>,
           \A t \in Tasks : /\ net'[t].after = net[t].after
                            /\ net[t].at # "none" => net'[t].at # "none"
    PROVE  SkipInv'
<1>1. Numbering'
  BY ExcusedNumbering DEF SkipInv
<1>2. /\ \A e \in Items' : e.id <= excused' /\ e.id \in Nat /\ ~(e.id > excused')
      /\ excused' \in Nat
  <2>1. \A e \in Items' : e.id <= excused' /\ e.id \in Nat
    BY ExcusingItems DEF SkipInv
  <2>2. excused' \in Nat
    BY DEF RecvInv, RelaySide
  <2>3. QED
    BY <2>1, <2>2
<1>3. saved.lastSeen \in Nat /\ lastSeen \in Nat
  BY ItemsTyped
<1>4. FlashSide'
  <2>1. PICK l, c : l = saved.lastSeen /\ c = saved.recv.counter
    OBVIOUS
  <2>2. Mark(l, c)'
    BY <1>3, <2>1, ExcusedMark DEF SkipInv, FlashSide
  <2>3. QED
    BY <2>1, <2>2 DEF FlashSide
<1>5. ChatSide'
  <2> SUFFICES ASSUME screen # "peers" PROVE Mark(lastSeen, recv.counter)'
    BY DEF ChatSide
  <2>1. PICK l, c : l = lastSeen /\ c = recv.counter
    OBVIOUS
  <2>2. Mark(l, c)'
    BY <1>3, <2>1, ExcusedMark DEF SkipInv, ChatSide
  <2>3. QED
    BY <2>1, <2>2
<1>6. ClosedSide'
  BY <1>2 DEF ClosedSide, Items, In
<1>7. OpenSide'
  <2> SUFFICES ASSUME screen = "chat" PROVE Running' /\ Coming(Stream, Cursor)'
    BY DEF OpenSide
  <2>1. Running /\ Passed(Cursor)
    BY DEF SkipInv, OpenSide, Coming
  <2>2. Running' /\ Cursor' = Cursor
    BY <2>1 DEF Running, Cursor
  <2>3. Passed(Cursor)'
    <3>1. Cursor \in Nat
      BY <2>1 DEF Running, Cursor, RecvInv, RelaySide
    <3>2. Cursor' <= excused'
      BY <2>1, <2>2, <3>1 DEF Excusing
    <3>3. QED
      BY <3>2 DEF Passed
  <2>4. \A i \in 1 .. Len(Stream') : Stream'[i] \in Items'
    <3>1. queue' \in Seq(PeerEntries) /\ net'[netHandle'].batch \in Seq(PeerEntries)
      BY <2>2 DEF RecvInv, RelaySide, Running
    <3>2. PICK q, b : q = queue' /\ b = net'[netHandle'].batch
      OBVIOUS
    <3>3. \A i \in 1 .. Len(q \o b) : \/ i \in 1 .. Len(q) /\ (q \o b)[i] = q[i]
                                      \/ \E j \in 1 .. Len(b) : (q \o b)[i] = b[j]
      BY <3>1, <3>2, StreamEither
    <3>4. In(q) \subseteq Items' /\ In(b) \subseteq Items'
      BY <2>2, <3>2 DEF Items, In, Running
    <3>5. Stream' = q \o b
      BY <3>2 DEF Stream
    <3>6. QED
      BY <3>3, <3>4, <3>5 DEF In
  <2>5. Rising(Stream, Cursor)'
    BY <1>2, <2>4 DEF Rising
  <2>6. \A e \in In(inbox)' : ~Unread(e)'
    BY <1>2 DEF Items, In, Unread
  <2>7. QED
    BY <2>2, <2>3, <2>5, <2>6 DEF Coming
<1>8. QED
  BY <1>1, <1>4, <1>5, <1>6, <1>7 DEF SkipInv

(***************************************************************************)
(* The relay                                                               *)
(***************************************************************************)
LEMMA EncryptSkips == ASSUME RecvInv, SkipInv, PeerEncrypts PROVE SkipInv'
<1>1. /\ UNCHANGED <<recv, got, headId, inbox, pushed, excused, net, netRun, netHandle, queue,
                     screen, lastSeen, saved>>
  BY DEF PeerEncrypts, Encrypt, relayVars, netVars, screenVars
<1>2. Calm
  BY <1>1 DEF Calm, Items, In, Unread
<1>3. Stream' = Stream /\ Cursor' = Cursor
  BY <1>1 DEF Stream, Cursor
<1>4. QED
  BY <1>1, <1>2, <1>3, CalmNumbering, CalmFlash, CalmChat, CalmOpen
     DEF SkipInv, ClosedSide

LEMMA PushedInbox ==
    ASSUME RecvInv, Numbering, NEW p, Push(p),
           NEW e, e = [id |-> headId + 1, packet |-> p]
    PROVE  /\ InboxIds' /\ In(inbox)' \subseteq In(inbox) \cup {e}
           /\ Items' \subseteq Items \cup {e}
<1> USE ChatReceiveAssumption
<1> DEFINE s == Append(inbox, e)
           L == Len(inbox)
           M == Len(inbox')
<1>1. /\ p \in wire /\ headId' = headId + 1 /\ inbox' = Keep(s, MaxInbox)
      /\ UNCHANGED <<net, queue>>
  BY DEF Push, netVars
<1>2. /\ headId \in Nat /\ L \in Nat /\ L <= headId /\ inbox \in Seq(PeerEntries)
      /\ \A i \in 1 .. L : inbox[i].id = (headId - L) + i
  BY LenProperties DEF RecvInv, RelaySide, Numbering, InboxIds
<1>3. e \in PeerEntries
  BY <1>1, <1>2 DEF RecvInv, RatchetSide, TypeOK, PeerEntries
<1>4. /\ s \in Seq(PeerEntries) /\ Len(s) = L + 1 /\ s[L + 1] = e
      /\ \A i \in 1 .. L : s[i] = inbox[i]
  BY <1>2, <1>3, AppendProperties
<1> HIDE DEF s
<1>5. M = Min2(MaxInbox, L + 1) /\ \A i \in 1 .. M : inbox'[i] = s[((L + 1) - M) + i]
  <2>1. /\ Len(Keep(s, MaxInbox)) = Min2(MaxInbox, Len(s))
        /\ \A i \in 1 .. Len(Keep(s, MaxInbox)) :
              Keep(s, MaxInbox)[i] = s[Len(s) - Len(Keep(s, MaxInbox)) + i]
    BY <1>4, KeepProperties
  <2>2. QED
    BY <1>1, <1>4, <2>1
<1>6. M \in Nat /\ M <= L + 1
  BY <1>2, <1>5 DEF Min2
<1> HIDE DEF L, M
<1>7. \A i \in 1 .. L + 1 : s[i].id = (headId - L) + i /\ s[i] \in In(inbox) \cup {e}
  <2> SUFFICES ASSUME NEW i \in 1 .. L + 1
               PROVE  s[i].id = (headId - L) + i /\ s[i] \in In(inbox) \cup {e}
    OBVIOUS
  <2>1. CASE i = L + 1
    <3>1. e.id = headId + 1 /\ (headId - L) + (L + 1) = headId + 1
      BY <1>2
    <3>2. QED
      BY <1>4, <2>1, <3>1
  <2>2. CASE i # L + 1
    <3>1. i \in 1 .. L
      BY <1>2, <2>2
    <3>2. QED
      BY <1>2, <1>4, <3>1 DEF In, L
  <2>3. QED
    BY <2>1, <2>2
<1>8. \A i \in 1 .. M : inbox'[i].id = (headId' - M) + i /\ inbox'[i] \in In(inbox) \cup {e}
  <2> SUFFICES ASSUME NEW i \in 1 .. M
               PROVE  /\ inbox'[i].id = (headId' - M) + i
                      /\ inbox'[i] \in In(inbox) \cup {e}
    OBVIOUS
  <2>1. /\ ((L + 1) - M) + i \in 1 .. L + 1
        /\ (headId - L) + (((L + 1) - M) + i) = (headId' - M) + i
    BY <1>1, <1>2, <1>6
  <2>2. QED
    BY <1>5, <1>7, <2>1
<1>9. InboxIds' /\ In(inbox)' \subseteq In(inbox) \cup {e}
  <2>1. M <= headId'
    BY <1>1, <1>2, <1>6
  <2>2. QED
    BY <1>8, <2>1 DEF InboxIds, In, M
<1>10. Items' \subseteq Items \cup {e}
  BY <1>1, <1>9 DEF Items, In
<1>11. QED
  BY <1>9, <1>10

\* A packet pushed in its turn has the largest id and the largest counter.
LEMMA PushInTurn ==
    ASSUME RecvInv, RecvInv', SkipInv, NEW p, Push(p), ~Overtaken(p) PROVE SkipInv'
<1>0. PICK e : e = [id |-> headId + 1, packet |-> p]
  OBVIOUS
<1>1. /\ p \in wire /\ p.ctr \notin pushed /\ headId' = headId + 1
      /\ pushed' = pushed \cup {p.ctr}
      /\ UNCHANGED <<excused, recv, got, net, netRun, netHandle, queue, screen, lastSeen, saved>>
  BY DEF Push, vars, netVars, screenVars
<1>2. e.id = headId + 1 /\ e.packet = p
  BY <1>0
<1>3. /\ InboxIds' /\ In(inbox)' \subseteq In(inbox) \cup {e}
      /\ Items' \subseteq Items \cup {e}
  BY <1>0, PushedInbox DEF SkipInv
<1>4. /\ Items \subseteq PeerEntries
      /\ \A f \in PeerEntries : f.id \in Nat /\ f.packet.ctr \in Nat
      /\ headId \in Nat /\ excused \in Nat /\ pushed \subseteq Nat
      /\ In(inbox) \subseteq Items
  BY ItemsTyped
<1>5. p.ctr \in Nat /\ \A c \in pushed : c < p.ctr
  <2>1. p.ctr \in Nat
    BY <1>1, RatchetAssumption DEF RecvInv, RatchetSide, Genuine, SealedInRange, Packets, Counters
  <2>2. \A c \in pushed : c \in Nat /\ ~(c > p.ctr) /\ c # p.ctr
    BY <1>1, <1>4 DEF Overtaken
  <2>3. QED
    BY <2>1, <2>2
<1>6. \A n \in Nat : Passed(n) => Passed(n)' /\ (e.id > excused => n < e.id)
  BY <1>1, <1>2, <1>4 DEF Passed
<1>7. \A f \in Items : /\ Passed(f.id) /\ f.id \in Nat /\ f.packet.ctr \in Nat
                       /\ f.packet.ctr < e.packet.ctr
                       /\ e.id > excused => f.id < e.id
  BY <1>2, <1>4, <1>5, <1>6 DEF SkipInv, Numbering, ItemsPushed
<1>8. e.id \in Nat /\ e.packet.ctr \in Nat /\ e.packet.ctr \in pushed' /\ Passed(e.id)'
  BY <1>1, <1>2, <1>4, <1>5 DEF Passed
<1>9. ItemsPushed'
  <2>1. \A f \in Items : f.packet.ctr \in pushed' /\ Passed(f.id)'
    BY <1>1, <1>6, <1>7 DEF SkipInv, Numbering, ItemsPushed
  <2>2. QED
    BY <1>3, <1>8, <2>1 DEF ItemsPushed
<1>10. SameOrder'
  <2> SUFFICES ASSUME NEW f \in Items', NEW g \in Items', g.id > excused
               PROVE  /\ f.id < g.id <=> f.packet.ctr < g.packet.ctr
                      /\ f.id = g.id <=> f.packet.ctr = g.packet.ctr
    BY <1>1 DEF SameOrder
  <2>1. CASE f \in Items /\ g \in Items
    BY <2>1 DEF SkipInv, Numbering, SameOrder
  <2>2. CASE f \in Items /\ g = e
    BY <1>7, <1>8, <2>2
  <2>3. CASE f = e /\ g \in Items
    <3>1. g.id <= headId /\ g.id \in Nat
      <4>1. /\ g.id \in Nat /\ excused \in Nat /\ g.id > excused
            /\ g.id <= headId \/ g.id <= excused
        BY <1>4, <1>7, <2>3 DEF Passed
      <4>2. QED
        BY <4>1
    <3>2. g.id < e.id
      BY <1>2, <1>4, <3>1
    <3>3. QED
      BY <1>7, <1>8, <2>3, <3>2
  <2>4. CASE f = e /\ g = e
    BY <1>8, <2>4
  <2>5. QED
    BY <1>3, <2>1, <2>2, <2>3, <2>4
<1>11. ASSUME NEW l \in Nat, NEW c \in Nat, Mark(l, c) PROVE Mark(l, c)'
  <2>1. e.id > excused => l < e.id /\ c <= e.packet.ctr
    <3>1. Passed(l) /\ (c = 0 \/ c - 1 \in pushed)
      BY <1>11 DEF Mark
    <3>2. c <= p.ctr
      <4>1. CASE c = 0
        BY <1>5, <4>1
      <4>2. CASE c - 1 \in pushed
        <5>1. c - 1 < p.ctr
          BY <1>5, <4>2
        <5>2. QED
          BY <1>5, <5>1
      <4>3. QED
        BY <3>1, <4>1, <4>2
    <3>3. QED
      BY <1>2, <1>6, <3>1, <3>2
  <2>2. e.id > excused => /\ ~(e.id <= l) /\ ~(e.packet.ctr < c)
                          /\ e.id > l /\ e.packet.ctr >= c
    BY <1>8, <2>1
  <2>3. Passed(l)' /\ (c = 0 \/ c - 1 \in pushed')
    BY <1>1, <1>6, <1>11 DEF Mark
  <2>4. \A f \in Items' : f.id > excused => (f.id <= l <=> f.packet.ctr < c)
    BY <1>3, <1>11, <2>2 DEF Mark
  <2>5. \A f \in In(inbox)' : Unread(f) => f.id > l /\ f.packet.ctr >= c
    BY <1>3, <1>11, <2>2 DEF Mark, Unread
  <2>6. QED
    BY <1>1, <2>3, <2>4, <2>5 DEF Mark, Unread
<1>12. /\ saved.lastSeen \in Nat /\ saved.recv.counter \in Nat
       /\ lastSeen \in Nat /\ recv.counter \in Nat
  BY ItemsTyped
<1>13. FlashSide'
  <2>1. PICK l, c : l = saved.lastSeen /\ c = saved.recv.counter
    OBVIOUS
  <2>2. Mark(l, c)'
    BY <1>11, <1>12, <2>1 DEF SkipInv, FlashSide
  <2>3. QED
    BY <1>1, <2>1, <2>2 DEF FlashSide
<1>14. ChatSide'
  <2> SUFFICES ASSUME screen # "peers" PROVE Mark(lastSeen, recv.counter)'
    BY <1>1 DEF ChatSide
  <2>1. PICK l, c : l = lastSeen /\ c = recv.counter
    OBVIOUS
  <2>2. Mark(l, c)'
    BY <1>11, <1>12, <2>1 DEF SkipInv, ChatSide
  <2>3. QED
    BY <1>1, <2>1, <2>2
<1>15. ClosedSide'
  BY <1>1 DEF SkipInv, ClosedSide
<1>16. OpenSide'
  <2> SUFFICES ASSUME screen = "chat" PROVE Running' /\ Coming(Stream, Cursor)'
    BY <1>1 DEF OpenSide
  <2>1. PICK s, a : s = Stream /\ a = Cursor
    OBVIOUS
  <2>2. Running /\ Coming(s, a) /\ Running'
    BY <1>1, <2>1 DEF SkipInv, OpenSide, Running
  <2>3. a \in Nat /\ Passed(a)
    BY <2>1, <2>2 DEF Running, Cursor, RecvInv, RelaySide, Coming
  <2>4. Passed(a)' /\ (e.id > excused => ~(e.id <= a))
    BY <1>6, <1>8, <2>3
  <2>5. \A f \in In(inbox)' : Unread(f) /\ f.id <= a => Covers(s, f)
    BY <1>3, <2>2, <2>4 DEF Coming, Unread
  <2>6. Coming(s, a)'
    BY <1>1, <2>2, <2>4, <2>5 DEF Coming, Rising, Covers, Unread
  <2>7. Stream' = s /\ Cursor' = a
    BY <1>1, <2>1 DEF Stream, Cursor
  <2>8. QED
    BY <2>2, <2>6, <2>7
<1>17. QED
  BY <1>3, <1>9, <1>10, <1>13, <1>14, <1>15, <1>16 DEF SkipInv, Numbering

LEMMA PushOvertaken ==
    ASSUME RecvInv, RecvInv', SkipInv, NEW p, Push(p), Overtaken(p) PROVE SkipInv'
<1>0. PICK e : e = [id |-> headId + 1, packet |-> p]
  OBVIOUS
<1>1. /\ headId' = headId + 1 /\ pushed' = pushed \cup {p.ctr}
      /\ excused' = Larger(excused, headId + 1)
      /\ UNCHANGED <<recv, got, net, netRun, netHandle, queue, screen, lastSeen, saved>>
  BY DEF Push, Excuse, vars, netVars, screenVars
<1>2. InboxIds' /\ Items' \subseteq Items \cup {e}
  BY <1>0, PushedInbox DEF SkipInv
<1>3. headId \in Nat /\ excused \in Nat
  BY ItemsTyped
<1>4. excused <= excused' /\ headId + 1 <= excused' /\ excused' \in Nat
  BY <1>1, <1>3 DEF Larger
<1>5. \A n \in Nat : Passed(n) => n <= excused'
  BY <1>3, <1>4 DEF Passed
<1>6. e.id <= excused' /\ e.packet.ctr \in pushed'
  BY <1>0, <1>1, <1>4
<1>7. Excusing
  BY <1>1, <1>2, <1>5, <1>6 DEF Excusing
<1>8. QED
  BY <1>1, <1>7, ExcusedSkips

LEMMA RestartSkips ==
    ASSUME RecvInv, RecvInv', SkipInv, RelayRestart PROVE SkipInv'
<1>1. /\ headId' = 0 /\ inbox' = << >> /\ excused' = Larger(excused, headId)
      /\ UNCHANGED <<pushed, recv, got, net, netRun, netHandle, queue, screen, lastSeen, saved>>
  BY DEF RelayRestart, Excuse, vars, netVars, screenVars
<1>2. headId \in Nat /\ excused \in Nat
  BY ItemsTyped
<1>3. \A n \in Nat : Passed(n) => n <= excused'
  BY <1>1, <1>2 DEF Passed, Larger
<1>4. InboxIds'
  BY <1>1, EmptySeq DEF InboxIds
<1>5. Items' \subseteq Items
  <2>1. In(inbox') = {}
    BY <1>1, EmptyIn
  <2>2. QED
    BY <1>1, <2>1 DEF Items, In
<1>6. QED
  BY <1>1, <1>3, <1>4, <1>5, ExcusedSkips DEF Excusing

(***************************************************************************)
(* The network tasks                                                       *)
(***************************************************************************)

\* What a task's step other than a stray leaves to show: the messages are
\* those there were, and the open chat's stream goes on.
LEMMA TaskStep ==
    ASSUME RecvInv, SkipInv,
           UNCHANGED <<headId, inbox, pushed, excused, recv, got, screen, lastSeen, saved>>,
           Items' \subseteq Items, screen = "peers" => UNCHANGED queue, OpenSide'
    PROVE  SkipInv'
<1>1. Calm
  BY DEF Calm, Unread
<1>2. QED
  BY <1>1, CalmNumbering, CalmFlash, CalmChat DEF SkipInv, ClosedSide

\* A task ends only while no chat is open.
LEMMA ExitSkips ==
    ASSUME RecvInv, SkipInv, NEW t \in Tasks, TaskExits(t),
           UNCHANGED <<vars, relayVars, netRun, queue, screenVars, saved, excused>>
    PROVE  SkipInv'
<1>1. ~netRun /\ net' = [net EXCEPT ![t] = Stopped]
  BY DEF TaskExits
<1>2. \A u \in Tasks : net'[u] = IF u = t THEN Stopped ELSE net[u]
  BY <1>1 DEF RecvInv, RelaySide
<1>3. UNCHANGED <<headId, inbox, pushed, excused, recv, got, screen, lastSeen, saved, queue, netRun>>
  BY DEF vars, relayVars, screenVars
<1>4. Items' \subseteq Items
  <2>1. \A u \in Tasks : In(net'[u].batch) \subseteq In(net[u].batch)
    BY <1>2, EmptyIn DEF Stopped
  <2>2. QED
    BY <1>3, <2>1, ItemsTyped, ItemsShrink
<1>5. OpenSide'
  BY <1>1, <1>3 DEF SkipInv, OpenSide, Running
<1>6. QED
  BY <1>3, <1>4, <1>5, TaskStep

\* A step of a task other than the open chat's leaves its stream alone.
LEMMA OtherTask ==
    ASSUME RecvInv, SkipInv, Calm, NEW t \in Tasks, screen = "chat" => t # netHandle,
           NEW new, net' = [net EXCEPT ![t] = new], screen = "chat" => UNCHANGED queue,
           UNCHANGED <<recv, netRun, netHandle, screen>>
    PROVE  OpenSide'
<1> SUFFICES ASSUME screen = "chat" PROVE OpenSide'
  BY DEF OpenSide
<1>1. net'[netHandle] = net[netHandle]
  BY DEF RecvInv, RelaySide, SkipInv, OpenSide, Running
<1>2. Stream' = Stream /\ Cursor' = Cursor
  BY <1>1 DEF Stream, Cursor
<1>3. QED
  BY <1>1, <1>2, CalmOpen DEF SkipInv

\* fetch_after returns what the inbox holds beyond the cursor, without a gap.
LEMMA FetchedTail ==
    ASSUME RecvInv, Numbering, NEW a \in Nat
    PROVE  \E n \in 0 .. Len(inbox) :
              /\ FetchAfter(a) \in Seq(PeerEntries) /\ Len(FetchAfter(a)) = Len(inbox) - n
              /\ \A i \in 1 .. Len(inbox) - n : FetchAfter(a)[i] = inbox[n + i]
              /\ \A i \in 1 .. Len(inbox) : inbox[i].id <= a <=> i <= n
<1> DEFINE L == Len(inbox)
           h == headId - L
<1>1. /\ headId \in Nat /\ L \in Nat /\ h \in Nat /\ inbox \in Seq(PeerEntries)
      /\ \A i \in 1 .. L : inbox[i] \in PeerEntries /\ inbox[i].id = h + i
  BY LenProperties, ElementOfSeq DEF RecvInv, RelaySide, Numbering, InboxIds
<1>2. PICK n : n = IF a < h THEN 0 ELSE IF a > headId THEN L ELSE a - h
  OBVIOUS
<1>3. n \in 0 .. L /\ \A j \in 1 .. L : h + j <= a <=> j <= n
  BY <1>1, <1>2
<1> HIDE DEF h
<1>4. \A i \in 1 .. L : inbox[i].id <= a <=> i <= n
  BY <1>1, <1>3
<1>5. Cardinality({i \in 1 .. L : inbox[i].id <= a}) = n
  <2>1. {i \in 1 .. L : inbox[i].id <= a} = 1 .. n
    <3>1. 1 .. n \subseteq 1 .. L /\ \A i \in 1 .. L : i <= n => i \in 1 .. n
      BY <1>1, <1>3
    <3>2. \A i \in 1 .. n : i <= n
      BY <1>3
    <3>3. QED
      BY <1>4, <3>1, <3>2
  <2>2. Cardinality(1 .. n) = IF 1 > n THEN 0 ELSE n - 1 + 1
    BY <1>3, FS_Interval
  <2>3. (IF 1 > n THEN 0 ELSE n - 1 + 1) = n
    BY <1>3
  <2>4. QED
    BY <2>1, <2>2, <2>3
<1>6. FetchAfter(a) = SubSeq(inbox, n + 1, L)
  BY <1>5 DEF FetchAfter
<1> HIDE DEF L
<1>7. /\ SubSeq(inbox, n + 1, L) \in Seq(PeerEntries)
      /\ Len(SubSeq(inbox, n + 1, L)) = IF n + 1 <= L THEN L - (n + 1) + 1 ELSE 0
      /\ \A i \in 1 .. L - (n + 1) + 1 : SubSeq(inbox, n + 1, L)[i] = inbox[n + 1 + i - 1]
  <2>1. \A i \in n + 1 .. L : inbox[i] \in PeerEntries
    BY <1>1, <1>3
  <2>2. QED
    BY <1>1, <1>3, <2>1, SubSeqProperties
<1>8. Len(FetchAfter(a)) = L - n
  <2>1. (IF n + 1 <= L THEN L - (n + 1) + 1 ELSE 0) = L - n
    BY <1>1, <1>3
  <2>2. QED
    BY <1>6, <1>7, <2>1
<1>9. ASSUME NEW i \in 1 .. L - n PROVE FetchAfter(a)[i] = inbox[n + i]
  <2>1. i \in 1 .. L - (n + 1) + 1 /\ n + 1 + i - 1 = n + i
    BY <1>1, <1>3
  <2>2. QED
    BY <1>6, <1>7, <2>1
<1>10. QED
  BY <1>3, <1>4, <1>6, <1>7, <1>8, <1>9 DEF L

\* The messages tx_poll takes are the first of the inbox beyond the cursor.
Taken(b, a, next) ==
    /\ b \in Seq(PeerEntries)
    /\ In(b) \subseteq In(inbox)
    /\ \A i \in 1 .. Len(b) : b[i].id > a /\ b[i].id <= next
    /\ \A i, j \in 1 .. Len(b) : i < j => b[i].id < b[j].id
    /\ \A e \in In(inbox) : e.id > a /\ e.id <= next => e \in In(b)
    /\ next \in Nat /\ a <= next
    /\ next = a \/ Passed(next)

LEMMA FirstTaken ==
    ASSUME RecvInv, Numbering, NEW a \in Nat, NEW n \in 0 .. Len(inbox), NEW m \in Nat \ {0},
           NEW b \in Seq(PeerEntries), m <= Len(inbox) - n, Len(b) = m,
           \A i \in 1 .. m : b[i] = inbox[n + i],
           \A i \in 1 .. Len(inbox) : inbox[i].id <= a <=> i <= n
    PROVE  Taken(b, a, b[m].id)
<1>1. PICK L, h : L = Len(inbox) /\ h = headId - L
  OBVIOUS
<1>2. /\ headId \in Nat /\ L \in Nat /\ h \in Nat /\ headId = h + L
      /\ \A i \in 1 .. L : inbox[i].id = h + i
  BY <1>1, LenProperties DEF RecvInv, RelaySide, Numbering, InboxIds
<1>3. n \in Nat /\ m \in Nat /\ n + m <= L
  BY <1>1, <1>2
<1>4. \A i \in 1 .. m : /\ n + i \in 1 .. L /\ ~(n + i <= n)
                        /\ b[i] = inbox[n + i] /\ b[i].id = h + (n + i)
  <2> SUFFICES ASSUME NEW i \in 1 .. m
               PROVE  /\ n + i \in 1 .. L /\ ~(n + i <= n)
                      /\ b[i] = inbox[n + i] /\ b[i].id = h + (n + i)
    OBVIOUS
  <2>1. n + i \in 1 .. L /\ ~(n + i <= n)
    BY <1>2, <1>3
  <2>2. QED
    BY <1>2, <2>1
<1>5. PICK next : next = b[m].id
  OBVIOUS
<1>6. next = h + (n + m) /\ next \in Nat
  <2>1. m \in 1 .. m
    OBVIOUS
  <2>2. next = h + (n + m)
    BY <1>4, <1>5, <2>1
  <2>3. QED
    BY <1>2, <1>3, <2>2
<1>7. In(b) \subseteq In(inbox)
  <2>1. \A k \in 1 .. L : inbox[k] \in In(inbox)
    BY <1>1 DEF In
  <2>2. \A i \in 1 .. m : b[i] \in In(inbox)
    BY <1>4, <2>1
  <2>3. QED
    BY <2>2 DEF In
<1>8. \A i \in 1 .. m : b[i].id > a /\ b[i].id <= next
  <2> SUFFICES ASSUME NEW i \in 1 .. m PROVE b[i].id > a /\ b[i].id <= next
    OBVIOUS
  <2>1. PICK x : x = b[i].id
    OBVIOUS
  <2>2. x = h + (n + i) /\ ~(x <= a)
    BY <1>1, <1>4, <2>1
  <2>3. x > a /\ x <= next
    BY <1>2, <1>3, <1>6, <2>2
  <2>4. QED
    BY <2>1, <2>3
<1>9. \A i, j \in 1 .. m : i < j => b[i].id < b[j].id
  <2> SUFFICES ASSUME NEW i \in 1 .. m, NEW j \in 1 .. m, i < j PROVE b[i].id < b[j].id
    OBVIOUS
  <2>1. h + (n + i) < h + (n + j)
    BY <1>2, <1>3
  <2>2. QED
    BY <1>4, <2>1
<1>10. ASSUME NEW e \in In(inbox), e.id > a, e.id <= next PROVE e \in In(b)
  <2>1. PICK k \in 1 .. L : e = inbox[k]
    BY <1>1 DEF In
  <2>2. PICK x : x = e.id
    OBVIOUS
  <2>3. x = h + k /\ x > a /\ x <= next
    BY <1>2, <1>10, <2>1, <2>2
  <2>4. ~(x <= a)
    BY <1>2, <2>3
  <2>5. ~(k <= n)
    BY <1>1, <2>1, <2>2, <2>4
  <2>6. k - n \in 1 .. m /\ n + (k - n) = k
    BY <1>2, <1>3, <1>6, <2>3, <2>5
  <2>7. b[k - n] = e
    BY <1>4, <2>1, <2>6
  <2>8. QED
    BY <2>6, <2>7 DEF In
<1>11. a <= next /\ next <= headId
  <2>1. 1 \in 1 .. m
    OBVIOUS
  <2>2. PICK x : x = b[1].id
    OBVIOUS
  <2>3. x > a /\ x <= next /\ x = h + (n + 1)
    BY <1>4, <1>8, <2>1, <2>2
  <2>4. QED
    BY <1>2, <1>3, <1>6, <2>3
<1>12. Taken(b, a, next)
  BY <1>6, <1>7, <1>8, <1>9, <1>10, <1>11 DEF Taken, Passed
<1>13. QED
  BY <1>5, <1>12

LEMMA PollTakes ==
    ASSUME RecvInv, Numbering, NEW t \in Tasks, NEW got4, NEW next,
           got4 = IF Len(FetchAfter(net[t].after)) > RespCap THEN << >>
                  ELSE SubSeq(FetchAfter(net[t].after), 1,
                              Min2(PollCap, Len(FetchAfter(net[t].after)))),
           next = IF got4 = << >> THEN net[t].after ELSE got4[Len(got4)].id
    PROVE  Taken(got4, net[t].after, next)
<1>1. PICK a, found : a = net[t].after /\ found = FetchAfter(a)
  OBVIOUS
<1>2. a \in Nat
  BY <1>1 DEF RecvInv, RelaySide
<1>3. CASE got4 = << >>
  <2>1. got4 \in Seq(PeerEntries) /\ Len(got4) = 0 /\ In(got4) = {} /\ next = a
    BY <1>1, <1>3, EmptySeq, EmptyIn
  <2>2. \A e \in In(inbox) : e.id \in Nat
    BY ItemsTyped
  <2>3. QED
    BY <1>1, <1>2, <2>1, <2>2 DEF Taken
<1>4. CASE got4 # << >>
  <2>1. PICK n \in 0 .. Len(inbox) :
           /\ found \in Seq(PeerEntries) /\ Len(found) = Len(inbox) - n
           /\ \A i \in 1 .. Len(inbox) - n : found[i] = inbox[n + i]
           /\ \A i \in 1 .. Len(inbox) : inbox[i].id <= a <=> i <= n
    BY <1>1, <1>2, FetchedTail
  <2>2. PICK m : m = Min2(PollCap, Len(found))
    OBVIOUS
  <2>3. got4 = SubSeq(found, 1, m)
    BY <1>1, <1>4, <2>2
  <2>4. /\ got4 \in Seq(PeerEntries) /\ Len(got4) = m
        /\ \A i \in 1 .. m : got4[i] = found[i]
    <3>1. PollCap \in Nat /\ found \in Seq(PeerEntries)
      BY <2>1, ChatReceiveAssumption
    <3>2. /\ SubSeq(found, 1, Min2(PollCap, Len(found))) \in Seq(PeerEntries)
          /\ Len(SubSeq(found, 1, Min2(PollCap, Len(found)))) = Min2(PollCap, Len(found))
          /\ \A i \in 1 .. Min2(PollCap, Len(found)) :
                SubSeq(found, 1, Min2(PollCap, Len(found)))[i] = found[i]
      BY <3>1, FirstOf
    <3>3. QED
      BY <2>2, <2>3, <3>2
  <2>5. m \in Nat \ {0} /\ m <= Len(inbox) - n
    <3>1. Len(inbox) \in Nat
      BY LenProperties DEF RecvInv, RelaySide
    <3>2. m <= Len(inbox) - n
      BY <2>1, <2>2, <3>1, ChatReceiveAssumption DEF Min2
    <3>3. QED
      BY <1>4, <2>4, <3>2, EmptySeq
  <2>6. \A i \in 1 .. m : got4[i] = inbox[n + i]
    <3>1. Len(inbox) \in Nat
      BY LenProperties DEF RecvInv, RelaySide
    <3>2. \A i \in 1 .. m : i \in 1 .. Len(inbox) - n
      BY <2>5, <3>1
    <3>3. QED
      BY <2>1, <2>4, <3>2
  <2>7. PICK b : b = got4
    OBVIOUS
  <2>8. Taken(b, a, b[m].id)
    BY <1>2, <2>1, <2>4, <2>5, <2>6, <2>7, FirstTaken
  <2>9. next = b[m].id
    BY <1>4, <2>4, <2>7
  <2>10. QED
    BY <1>1, <2>7, <2>8, <2>9
<1>5. QED
  BY <1>3, <1>4

\* What a task takes follows the queue.
LEMMA PollComes ==
    ASSUME RecvInv, SkipInv, NEW q \in Seq(PeerEntries), NEW b, NEW a \in Nat, NEW next,
           Taken(b, a, next), Coming(q, a)
    PROVE  Coming(q \o b, next)
<1> DEFINE s == q \o b
<1>1. /\ b \in Seq(PeerEntries) /\ next \in Nat /\ a <= next
      /\ In(b) \subseteq In(inbox)
      /\ \A i \in 1 .. Len(b) : b[i].id > a /\ b[i].id <= next
      /\ \A i, j \in 1 .. Len(b) : i < j => b[i].id < b[j].id
      /\ \A e \in In(inbox) : e.id > a /\ e.id <= next => e \in In(b)
  BY DEF Taken
<1>2. \A i \in 1 .. Len(s) : \/ i \in 1 .. Len(q) /\ s[i] = q[i]
                             \/ \E j \in 1 .. Len(b) : i = Len(q) + j /\ s[i] = b[j]
  BY <1>1, StreamEither
<1>3. /\ Len(q) \in Nat /\ Len(b) \in Nat /\ Len(s) = Len(q) + Len(b)
      /\ \A i \in 1 .. Len(q) : s[i] = q[i]
      /\ \A i \in 1 .. Len(b) : s[Len(q) + i] = b[i]
  BY <1>1, StreamItems
<1> HIDE DEF s
<1>4. /\ \A i \in 1 .. Len(q) : q[i].id \in Nat
      /\ \A i \in 1 .. Len(b) : b[i].id \in Nat
      /\ \A e \in In(inbox) : e.id \in Nat
      /\ excused \in Nat
  <2>1. \A e \in PeerEntries : e.id \in Nat
    BY ItemsTyped
  <2>2. /\ \A i \in 1 .. Len(q) : q[i] \in PeerEntries
        /\ \A i \in 1 .. Len(b) : b[i] \in PeerEntries
    BY <1>1, ElementOfSeq
  <2>3. In(inbox) \subseteq PeerEntries /\ excused \in Nat
    BY ItemsTyped
  <2>4. QED
    BY <2>1, <2>2, <2>3
<1>5. Passed(next)
  BY <1>1 DEF Taken, Coming
<1>6. Rising(s, next)
  <2>1. ASSUME NEW i \in 1 .. Len(s) PROVE s[i].id <= next \/ s[i].id <= excused
    <3>1. CASE i \in 1 .. Len(q) /\ s[i] = q[i]
      <4>1. q[i].id <= a \/ q[i].id <= excused
        BY <3>1 DEF Coming, Rising
      <4>2. QED
        BY <1>1, <1>4, <3>1, <4>1
    <3>2. CASE \E j \in 1 .. Len(b) : i = Len(q) + j /\ s[i] = b[j]
      BY <1>1, <3>2
    <3>3. QED
      BY <1>2, <3>1, <3>2
  <2>2. ASSUME NEW i \in 1 .. Len(s), NEW j \in 1 .. Len(s), i < j, s[i].id > excused
        PROVE  s[i].id < s[j].id
    <3>1. CASE i \in 1 .. Len(q) /\ j \in 1 .. Len(q)
      BY <1>3, <2>2, <3>1 DEF Coming, Rising
    <3>2. CASE i \in 1 .. Len(q) /\ j \notin 1 .. Len(q)
      <4>1. PICK k \in 1 .. Len(b) : s[j] = b[k]
        BY <1>2, <3>2
      <4>2. q[i].id <= a \/ q[i].id <= excused
        BY <3>2 DEF Coming, Rising
      <4>3. q[i].id <= a /\ q[i].id \in Nat /\ s[i] = q[i]
        BY <1>3, <1>4, <2>2, <3>2, <4>2
      <4>4. b[k].id > a /\ b[k].id \in Nat
        BY <1>1, <1>4
      <4>5. QED
        BY <4>1, <4>3, <4>4
    <3>3. CASE i \notin 1 .. Len(q)
      <4>1. PICK k \in 1 .. Len(b) : i = Len(q) + k /\ s[i] = b[k]
        BY <1>2, <3>3
      <4>2. j \notin 1 .. Len(q)
        BY <1>3, <2>2, <3>3
      <4>3. PICK l \in 1 .. Len(b) : j = Len(q) + l /\ s[j] = b[l]
        BY <1>2, <4>2
      <4>4. k < l
        BY <1>3, <2>2, <4>1, <4>3
      <4>5. QED
        BY <1>1, <4>1, <4>3, <4>4
    <3>4. QED
      BY <3>1, <3>2, <3>3
  <2>3. QED
    BY <2>1, <2>2 DEF Rising
<1>7. ASSUME NEW e \in In(inbox), Unread(e), e.id <= next PROVE Covers(s, e)
  <2>1. In(q) \subseteq In(s) /\ In(b) \subseteq In(s)
    <3>1. \A i \in 1 .. Len(q) : i \in 1 .. Len(s)
      BY <1>3
    <3>2. \A i \in 1 .. Len(b) : Len(q) + i \in 1 .. Len(s)
      BY <1>3
    <3>3. QED
      BY <1>3, <3>1, <3>2 DEF In
  <2>2. CASE e.id > a
    BY <1>1, <1>7, <2>1, <2>2 DEF Covers
  <2>3. CASE e.id <= a
    <3>1. Covers(q, e)
      BY <1>7, <2>3 DEF Coming
    <3>2. CASE e \in In(q)
      BY <2>1, <3>2 DEF Covers
    <3>3. CASE /\ e.packet.ctr > recv.counter + MaxSkipLookahead
               /\ \A f \in In(q) : e.id < f.id
      <4>1. \A i \in 1 .. Len(b) : e.id < b[i].id
        BY <1>1, <1>4, <2>3
      <4>2. \A f \in In(s) : e.id < f.id
        BY <1>2, <3>3, <4>1 DEF In
      <4>3. QED
        BY <3>3, <4>2 DEF Covers
    <3>4. QED
      BY <3>1, <3>2, <3>3 DEF Covers
  <2>4. e.id \in Nat
    BY <1>4
  <2>5. QED
    BY <2>2, <2>3, <2>4
<1>8. QED
  BY <1>5, <1>6, <1>7 DEF Coming, s

LEMMA PollSkips ==
    ASSUME RecvInv, SkipInv, NEW t \in Tasks, PollReturns(t) PROVE SkipInv'
<1>1. PICK got4 : got4 = IF Len(FetchAfter(net[t].after)) > RespCap THEN << >>
                         ELSE SubSeq(FetchAfter(net[t].after), 1,
                                     Min2(PollCap, Len(FetchAfter(net[t].after))))
  OBVIOUS
<1>2. PICK next : next = IF got4 = << >> THEN net[t].after ELSE got4[Len(got4)].id
  OBVIOUS
<1>3. PICK new : new = [at    |-> IF got4 = << >> THEN "polling" ELSE "queueing",
                        after |-> next, batch |-> got4]
  OBVIOUS
<1>4. /\ net[t].at = "polling" /\ net[t].batch = << >>
      /\ UNCHANGED <<vars, relayVars, netRun, queue, screenVars, saved, cuts, excused>>
      /\ \/ netRun /\ net' = [net EXCEPT ![t] = new] /\ UNCHANGED netHandle
         \/ TaskExits(t)
  BY <1>1, <1>2, <1>3 DEF PollReturns, RecvInv, RelaySide
<1>5. CASE TaskExits(t)
  BY <1>4, <1>5, ExitSkips
<1>6. CASE netRun /\ net' = [net EXCEPT ![t] = new] /\ UNCHANGED netHandle
  <2>1. Taken(got4, net[t].after, next)
    BY <1>1, <1>2, PollTakes DEF SkipInv
  <2>2. \A u \in Tasks : net'[u] = IF u = t THEN new ELSE net[u]
    BY <1>6 DEF RecvInv, RelaySide
  <2>3. UNCHANGED <<headId, inbox, pushed, excused, recv, got, screen, lastSeen, saved, queue, netRun>>
    BY <1>4 DEF vars, relayVars, screenVars
  <2>4. Items' \subseteq Items
    <3>1. \A u \in Tasks : In(net'[u].batch) \subseteq Items
      BY <1>3, <2>1, <2>2, ItemsTyped DEF Taken
    <3>2. QED
      BY <2>3, <3>1, ItemsTyped, ItemsShrink
  <2>5. Calm
    BY <2>3, <2>4 DEF Calm, Unread
  <2>6. OpenSide'
    <3>1. CASE screen = "chat" => t # netHandle
      BY <1>6, <2>3, <2>5, <3>1, OtherTask
    <3>2. CASE screen = "chat" /\ t = netHandle
      <4>1. PICK a : a = net[t].after
        OBVIOUS
      <4>2. Coming(queue \o << >>, a) /\ a \in Nat /\ queue \in Seq(PeerEntries)
        BY <1>4, <3>2, <4>1 DEF SkipInv, OpenSide, Stream, Cursor, RecvInv, RelaySide
      <4>3. PICK q : q = queue
        OBVIOUS
      <4>4. Coming(q, a) /\ q \in Seq(PeerEntries)
        BY <4>2, <4>3, ConcatEmptySeq
      <4>5. Coming(q \o got4, next)
        BY <2>1, <4>1, <4>2, <4>4, PollComes
      <4>6. Coming(q \o got4, next)'
        BY <2>3, <4>5 DEF Coming, Passed, Rising, Covers, Unread, In
      <4>7. Stream' = q \o got4 /\ Cursor' = next
        BY <1>3, <1>6, <2>2, <2>3, <3>2, <4>3 DEF Stream, Cursor
      <4>8. Running'
        BY <1>3, <1>6, <2>2, <2>3, <3>2 DEF Running
      <4>9. QED
        BY <4>6, <4>7, <4>8 DEF OpenSide
    <3>3. QED
      BY <3>1, <3>2
  <2>7. QED
    BY <2>3, <2>4, <2>6, TaskStep
<1>7. QED
  BY <1>4, <1>5, <1>6

\* A task that hands a message over moves it from its batch to the queue.
LEMMA EnqueueSkips ==
    ASSUME RecvInv, RecvInv', SkipInv, NEW t \in Tasks, Enqueue(t) PROVE SkipInv'
<1>1. PICK b : b = net[t].batch
  OBVIOUS
<1>2. PICK new : new = [net[t] EXCEPT !.batch = Tail(b)]
  OBVIOUS
<1>3. /\ b # << >> /\ net[t].at = "queueing" /\ net' = [net EXCEPT ![t] = new]
      /\ queue' = IF Len(queue) < QueueLen THEN Append(queue, Head(b)) ELSE queue
      /\ IF Strays(t) THEN excused' = Larger(excused, headId) ELSE UNCHANGED excused
      /\ UNCHANGED <<headId, inbox, pushed, recv, got, screen, lastSeen, saved, netRun, netHandle>>
  BY <1>1, <1>2 DEF Enqueue, Excuse, vars, relayVars, screenVars, RecvInv, RelaySide
<1>4. b \in Seq(PeerEntries) /\ queue \in Seq(PeerEntries)
  BY <1>1 DEF RecvInv, RelaySide
<1>5. /\ new.batch = Tail(b) /\ new.after = net[t].after /\ new.at = "queueing"
      /\ \A u \in Tasks : net'[u] = IF u = t THEN new ELSE net[u]
  BY <1>2, <1>3 DEF RecvInv, RelaySide
<1>6. /\ Head(b) \in In(b) /\ In(Tail(b)) \subseteq In(b)
  <2>1. /\ Len(b) \in Nat \ {0} /\ Len(Tail(b)) = Len(b) - 1 /\ Head(b) = b[1]
        /\ \A i \in 1 .. Len(Tail(b)) : Tail(b)[i] = b[i + 1]
    BY <1>3, <1>4, HeadTailProperties, EmptySeq, LenProperties
  <2>2. 1 \in 1 .. Len(b) /\ \A i \in 1 .. Len(Tail(b)) : i + 1 \in 1 .. Len(b)
    BY <2>1
  <2>3. QED
    BY <2>1, <2>2 DEF In
<1>7. In(b) \subseteq Items /\ In(queue) \subseteq Items
  BY <1>1, ItemsTyped
<1>8. Items' \subseteq Items
  <2>1. In(queue') \subseteq Items
    <3>1. In(Append(queue, Head(b))) \subseteq In(queue) \cup {Head(b)}
      <4>1. Head(b) \in PeerEntries
        BY <1>3, <1>4, HeadTailProperties
      <4>2. /\ Len(queue) \in Nat /\ Len(Append(queue, Head(b))) = Len(queue) + 1
            /\ Append(queue, Head(b))[Len(queue) + 1] = Head(b)
            /\ \A i \in 1 .. Len(queue) : Append(queue, Head(b))[i] = queue[i]
        BY <1>4, <4>1, AppendProperties, LenProperties
      <4>3. \A i \in 1 .. Len(queue) + 1 : i \in 1 .. Len(queue) \/ i = Len(queue) + 1
        BY <4>2
      <4>4. QED
        BY <4>2, <4>3 DEF In
    <3>2. QED
      BY <1>3, <1>6, <1>7, <3>1
  <2>2. \A u \in Tasks : In(net'[u].batch) \subseteq Items
    BY <1>5, <1>6, <1>7, ItemsTyped
  <2>3. In(inbox') \subseteq Items
    BY <1>3, ItemsTyped
  <2>4. QED
    BY <2>1, <2>2, <2>3, ItemsShrink
<1>9. CASE Strays(t)
  <2>1. headId \in Nat /\ excused \in Nat
    BY ItemsTyped
  <2>2. \A n \in Nat : Passed(n) => n <= excused'
    BY <1>3, <1>9, <2>1 DEF Passed, Larger
  <2>3. Excusing
    BY <1>3, <1>8, <2>2 DEF Excusing, InboxIds, SkipInv, Numbering
  <2>4. QED
    BY <1>3, <1>5, <2>3, ExcusedSkips
<1>10. CASE ~Strays(t)
  <2>1. UNCHANGED excused /\ screen # "peers"
    BY <1>3, <1>10 DEF Strays
  <2>2. Calm
    BY <1>3, <1>8, <2>1 DEF Calm, Unread
  <2>3. OpenSide'
    <3> SUFFICES ASSUME screen = "chat" PROVE OpenSide'
      BY <1>3 DEF OpenSide
    <3>1. t = netHandle /\ Len(queue) # QueueLen
      BY <1>10 DEF Strays
    <3>2. Len(queue) < QueueLen
      BY <1>4, <3>1, LenProperties, ChatReceiveAssumption DEF RecvInv, RelaySide
    <3>3. Append(queue, Head(b)) \o Tail(b) = queue \o b
      BY <1>3, <1>4, StreamMoves
    <3>4. Stream' = Stream /\ Cursor' = Cursor /\ net'[netHandle].at # "none"
      BY <1>1, <1>3, <1>5, <3>1, <3>2, <3>3 DEF Stream, Cursor
    <3>5. QED
      BY <1>3, <2>2, <3>4, CalmOpen DEF SkipInv
  <2>4. QED
    BY <1>3, <1>8, <2>1, <2>3, TaskStep
<1>11. QED
  BY <1>9, <1>10

LEMMA LoopSkips ==
    ASSUME RecvInv, SkipInv, NEW t \in Tasks, LoopOrExit(t) PROVE SkipInv'
<1>1. PICK new : new = [net[t] EXCEPT !.at = "polling"]
  OBVIOUS
<1>2. /\ UNCHANGED <<vars, relayVars, netRun, queue, screenVars, saved, cuts, excused>>
      /\ \/ net' = [net EXCEPT ![t] = new] /\ UNCHANGED netHandle
         \/ TaskExits(t)
  BY <1>1 DEF LoopOrExit, RecvInv, RelaySide
<1>3. CASE TaskExits(t)
  BY <1>2, <1>3, ExitSkips
<1>4. CASE net' = [net EXCEPT ![t] = new] /\ UNCHANGED netHandle
  <2>1. /\ new.batch = net[t].batch /\ new.after = net[t].after /\ new.at = "polling"
        /\ \A u \in Tasks : net'[u] = IF u = t THEN new ELSE net[u]
    BY <1>1, <1>4 DEF RecvInv, RelaySide
  <2>2. UNCHANGED <<headId, inbox, pushed, excused, recv, got, screen, lastSeen, saved, queue, netRun>>
    BY <1>2 DEF vars, relayVars, screenVars
  <2>3. Items' \subseteq Items
    <3>1. \A u \in Tasks : In(net'[u].batch) \subseteq Items
      BY <2>1, ItemsTyped
    <3>2. QED
      BY <2>2, <3>1, ItemsTyped, ItemsShrink
  <2>4. Calm
    BY <2>2, <2>3 DEF Calm, Unread
  <2>5. OpenSide'
    <3>1. CASE screen = "chat"
      <4>1. netHandle \in Tasks
        BY <3>1 DEF SkipInv, OpenSide, Running
      <4>2. Stream' = Stream /\ Cursor' = Cursor /\ (net[netHandle].at # "none" => net'[netHandle].at # "none")
        BY <1>4, <2>1, <2>2, <4>1 DEF Stream, Cursor
      <4>3. QED
        BY <1>4, <2>2, <2>4, <4>2, CalmOpen DEF SkipInv
    <3>2. CASE screen # "chat"
      BY <2>2, <3>2 DEF OpenSide
    <3>3. QED
      BY <3>1, <3>2
  <2>6. QED
    BY <2>2, <2>3, <2>5, TaskStep
<1>5. QED
  BY <1>2, <1>3, <1>4

(***************************************************************************)
(* The screen                                                              *)
(***************************************************************************)

\* A chat that opens has cursor and chain from flash; what the queue holds was
\* excused when a task put it there.
LEMMA EnterSkips ==
    ASSUME RecvInv, SkipInv, NEW t \in Tasks, EnterChat(t) PROVE SkipInv'
<1>1. PICK new : new = [at |-> "polling", after |-> saved.lastSeen, batch |-> << >>]
  OBVIOUS
<1>2. /\ screen = "peers" /\ net' = [net EXCEPT ![t] = new] /\ netRun' = TRUE /\ netHandle' = t
      /\ recv' = saved.recv /\ lastSeen' = saved.lastSeen /\ screen' = "chat"
      /\ UNCHANGED <<got, headId, inbox, pushed, excused, queue, saved>>
  BY <1>1 DEF EnterChat, NetStarts, Resumed, SavedCursor, relayVars
<1>3. \A u \in Tasks : net'[u] = IF u = t THEN new ELSE net[u]
  BY <1>2 DEF RecvInv, RelaySide
<1>4. Items' \subseteq Items
  <2>1. \A u \in Tasks : In(net'[u].batch) \subseteq Items
    BY <1>1, <1>3, EmptyIn, ItemsTyped
  <2>2. QED
    BY <1>2, <2>1, ItemsTyped, ItemsShrink
<1>5. Calm
  BY <1>2, <1>4 DEF Calm, Unread
<1>6. PICK l, c : l = saved.lastSeen /\ c = saved.recv.counter
  OBVIOUS
<1>7. Mark(l, c) /\ Mark(l, c)' /\ l \in Nat /\ excused \in Nat
  BY <1>5, <1>6, CalmMark, ItemsTyped DEF SkipInv, FlashSide
<1>8. FlashSide' /\ ChatSide'
  BY <1>2, <1>6, <1>7 DEF FlashSide, ChatSide
<1>9. PICK q : q = queue
  OBVIOUS
<1>10. /\ q \in Seq(PeerEntries) /\ \A i \in 1 .. Len(q) : q[i].id <= excused /\ q[i].id \in Nat
  <2>1. q \in Seq(PeerEntries) /\ \A i \in 1 .. Len(q) : q[i] \in In(queue)
    BY <1>9 DEF RecvInv, RelaySide, In
  <2>2. \A e \in In(queue) : e.id <= excused /\ e.id \in Nat
    BY <1>2, ItemsTyped DEF SkipInv, ClosedSide
  <2>3. QED
    BY <2>1, <2>2
<1>11. Coming(q, l)
  <2>1. Rising(q, l)
    BY <1>7, <1>10 DEF Rising
  <2>2. \A e \in In(inbox) : Unread(e) /\ e.id <= l => FALSE
    <3> SUFFICES ASSUME NEW e \in In(inbox), Unread(e), e.id <= l PROVE FALSE
      OBVIOUS
    <3>1. e.id > l /\ e.id \in Nat
      BY <1>7, ItemsTyped DEF Mark
    <3>2. QED
      BY <1>7, <3>1
  <2>3. QED
    BY <1>7, <2>1, <2>2 DEF Coming, Mark
<1>12. Coming(q, l)'
  <2>1. Passed(l)' /\ Rising(q, l)'
    BY <1>2, <1>11 DEF Coming, Passed, Rising
  <2>2. \A e \in In(inbox) : ~(Unread(e) /\ e.id <= l)
    <3> SUFFICES ASSUME NEW e \in In(inbox), Unread(e), e.id <= l PROVE FALSE
      OBVIOUS
    <3>1. e.id > l /\ e.id \in Nat
      BY <1>7, ItemsTyped DEF Mark
    <3>2. QED
      BY <1>7, <3>1
  <2>3. \A e \in In(inbox)' : ~(Unread(e)' /\ e.id <= l)
    BY <1>2, <2>2 DEF Unread, In
  <2>4. QED
    BY <2>1, <2>3 DEF Coming
<1>13. Stream' = q /\ Cursor' = l /\ Running'
  <2>0. net'[netHandle'] = new /\ netHandle' \in Tasks
    BY <1>2, <1>3
  <2>1. new.batch = << >> /\ new.after = l /\ new.at = "polling"
    BY <1>1, <1>6
  <2>2. Stream' = q \o << >> /\ Cursor' = l
    BY <1>2, <1>9, <2>0, <2>1 DEF Stream, Cursor
  <2>3. Running'
    BY <1>2, <2>0, <2>1, Zenon DEF Running
  <2>4. q \o << >> = q
    BY <1>10, ConcatEmptySeq
  <2>5. QED
    BY <2>2, <2>3, <2>4
<1>14. OpenSide'
  BY <1>12, <1>13 DEF OpenSide
<1>15. QED
  BY <1>2, <1>5, <1>8, <1>14, CalmNumbering DEF SkipInv, ClosedSide

\* A message that opens takes the cursor and the chain to itself; nothing unread
\* is behind it, for that would have come first.
LEMMA OpenedMark ==
    ASSUME RecvInv, SkipInv, NEW l \in Nat, NEW c \in Nat, Mark(l, c), NEW a \in Nat,
           NEW s, Coming(s, a), c = recv.counter, NEW m, m \in Items, NEW x, x = m.packet.ctr,
           m.id <= a \/ m.id <= excused, m.id > excused => \A f \in In(s) : f # m => m.id < f.id,
           x <= c + MaxSkipLookahead, Calm, got'[x] > 0
    PROVE  Mark(Larger(l, m.id), IF c <= x THEN x + 1 ELSE c)'
<1> USE RatchetAssumption
<1>1. /\ excused \in Nat /\ m.id \in Nat /\ x \in Nat /\ x \in pushed
      /\ Passed(m.id) /\ Passed(l) /\ (c = 0 \/ c - 1 \in pushed)
  BY ItemsTyped DEF SkipInv, Numbering, ItemsPushed, Mark
<1>2. /\ \A e \in Items : e.id \in Nat /\ e.packet.ctr \in Nat /\ e.packet.text = e.packet.ctr
      /\ In(inbox) \subseteq Items
  BY ItemsTyped
<1>3. \A e \in Items : e.id > excused => /\ e.id <= l <=> e.packet.ctr < c
                                         /\ m.id < e.id <=> x < e.packet.ctr
                                         /\ m.id = e.id <=> x = e.packet.ctr
  BY DEF SkipInv, Numbering, SameOrder, Mark
<1>4. m.id > excused => m.id <= l <=> x < c
  BY DEF Mark
<1>5. PICK n, d : n = Larger(l, m.id) /\ d = IF c <= x THEN x + 1 ELSE c
  OBVIOUS
<1>6. /\ n \in Nat /\ d \in Nat /\ Passed(n) /\ (d = 0 \/ d - 1 \in pushed)
  <2>1. n = l \/ n = m.id
    BY <1>5 DEF Larger
  <2>2. d = 0 \/ d - 1 \in pushed
    <3>1. CASE c <= x
      <4>1. d - 1 = x
        BY <1>1, <1>5, <3>1
      <4>2. QED
        BY <1>1, <4>1
    <3>2. CASE ~(c <= x)
      BY <1>1, <1>5, <3>2
    <3>3. QED
      BY <3>1, <3>2
  <2>3. QED
    BY <1>1, <1>5, <2>1, <2>2
\* Cursor and counter still divide the messages in the same way.
<1>7. ASSUME NEW e \in Items, e.id > excused PROVE e.id <= n <=> e.packet.ctr < d
  <2>1. PICK i, k : i = e.id /\ k = e.packet.ctr
    OBVIOUS
  <2>2. /\ i \in Nat /\ k \in Nat /\ i > excused
        /\ i <= l <=> k < c
        /\ m.id < i <=> x < k
        /\ m.id = i <=> x = k
    BY <1>2, <1>3, <1>7, <2>1
  <2>3. PICK y : y = m.id
    OBVIOUS
  <2>4. /\ y \in Nat /\ n = IF l < y THEN y ELSE l
        /\ y > excused => (y <= l <=> x < c)
        /\ y < i <=> x < k
        /\ y = i <=> x = k
    BY <1>1, <1>4, <1>5, <2>2, <2>3 DEF Larger
  <2>5. i <= n <=> k < d
    BY <1>1, <1>5, <2>2, <2>4
  <2>6. QED
    BY <2>1, <2>5
<1>8. ASSUME NEW e \in In(inbox), Unread(e)' PROVE e.id > n /\ e.packet.ctr >= d
  <2>1. Unread(e) /\ e.id > excused /\ got'[e.packet.text] = 0
    BY <1>8 DEF Calm, Unread
  <2>2. PICK i, k : i = e.id /\ k = e.packet.ctr
    OBVIOUS
  <2>3. i \in Nat /\ k \in Nat /\ i > l /\ k >= c /\ k # x /\ e \in Items
    BY <1>2, <2>1, <2>2 DEF Mark
  <2>4. i <= n <=> k < d
    BY <1>7, <2>1, <2>2, <2>3
  <2>5. ~(k < d)
    <3> SUFFICES ASSUME k < d PROVE FALSE
      OBVIOUS
    <3>1. c <= x /\ k < x
      BY <1>1, <1>5, <2>3
    <3>2. i < m.id /\ m.id > excused
      <4>1. /\ m.id < i <=> x < k
            /\ m.id = i <=> x = k
        BY <1>3, <2>1, <2>2, <2>3
      <4>2. QED
        BY <1>1, <2>1, <2>2, <2>3, <3>1, <4>1
    <3>3. i <= a
      <4>1. m.id <= a
        BY <1>1, <3>2
      <4>2. QED
        BY <1>1, <2>3, <3>2, <4>1
    <3>4. Covers(s, e)
      BY <2>1, <2>2, <3>3 DEF Coming
    <3>5. CASE e \in In(s)
      <4>1. e # m
        BY <2>2, <2>3
      <4>2. m.id < i
        BY <2>2, <3>2, <3>5, <4>1
      <4>3. QED
        BY <1>1, <2>3, <3>2, <4>2
    <3>6. CASE k > c + MaxSkipLookahead
      BY <1>1, <2>3, <3>1, <3>6
    <3>7. QED
      BY <2>2, <3>4, <3>5, <3>6 DEF Covers
  <2>6. QED
    BY <1>6, <2>2, <2>3, <2>4, <2>5
<1>9. Passed(n)' /\ (d = 0 \/ d - 1 \in pushed')
  BY <1>6 DEF Calm, Passed
<1>10. Mark(n, d)'
  BY <1>7, <1>8, <1>9 DEF Mark, Calm, In
<1>11. QED
  BY <1>5, <1>10

\* What ratchet_decrypt does with a genuine packet: it refuses packets behind
\* the chain or too far ahead and opens the others, and the chain moves beyond
\* the packet it opened.
LEMMA GenuineDecrypt ==
    ASSUME RecvInv, NEW p, Genuine(p), Decrypt(p)
    PROVE  /\ p.ctr \in Nat /\ recv.counter \in Nat /\ got \in [Plaintexts -> Nat]
           /\ UNCHANGED <<send, calls, wire>>
           /\ \/ /\ result' # "opened" /\ UNCHANGED <<recv, got>>
                 /\ p.ctr < recv.counter \/ p.ctr > recv.counter + MaxSkipLookahead
              \/ /\ result' = "opened" /\ p.ctr \in Plaintexts
                 /\ got' = [got EXCEPT ![p.ctr] = @ + 1]
                 /\ p.ctr <= recv.counter + MaxSkipLookahead
                 /\ recv'.counter = IF recv.counter <= p.ctr THEN p.ctr + 1 ELSE recv.counter
<1> USE RatchetAssumption
<1>1. /\ SealedInRange(p) /\ p.ctr \in Nat /\ p.text = p.ctr /\ p.intact = TRUE
      /\ p.key = MsgKey(p.ctr) /\ p.ctr \in Plaintexts
  BY DEF Genuine, SealedInRange, Packets, Counters
<1>2. /\ CacheSound /\ recv.counter \in Nat /\ recv.chain = recv.counter
      /\ got \in [Plaintexts -> Nat] /\ MaxSkipLookahead \in Nat
  BY DEF RecvInv, RatchetSide, CacheSound, Step, Dirs, Counters, TypeOK
<1>3. CASE DecryptReplay(p)
  BY <1>1, <1>2, <1>3 DEF DecryptReplay, IsReplay
<1>4. CASE DecryptTooFar(p)
  BY <1>1, <1>2, <1>4 DEF DecryptTooFar, IsTooFar
<1>5. CASE DecryptAuthFail(p)
  <2>1. ScratchChain(p) = p.ctr
    BY <1>1, <1>2 DEF ScratchChain
  <2>2. OpensAhead(p)
    BY <1>1, <2>1 DEF OpensAhead, AeadOpens
  <2>3. QED
    BY <1>5, <2>2 DEF DecryptAuthFail
<1>6. CASE DecryptSkipped(p) \/ DecryptAhead(p)
  <2>1. /\ result' = "opened" /\ got' = [got EXCEPT ![p.ctr] = @ + 1]
        /\ UNCHANGED <<send, calls, wire>>
    BY <1>1, <1>6 DEF DecryptSkipped, DecryptAhead
  <2>2. /\ recv.counter <= recv'.counter /\ p.ctr < recv'.counter
        /\ recv'.counter \in {recv.counter, p.ctr + 1}
    BY <1>1, <1>2, <1>6, OpenedCache
  <2>3. p.ctr <= recv.counter + MaxSkipLookahead
    <3>1. CASE DecryptSkipped(p)
      BY <1>1, <1>2, <3>1 DEF DecryptSkipped, OpensFromCache, CacheSound
    <3>2. CASE DecryptAhead(p)
      BY <1>1, <1>2, <3>2 DEF DecryptAhead, IsTooFar
    <3>3. QED
      BY <1>6, <3>1, <3>2
  <2>4. recv'.counter = IF recv.counter <= p.ctr THEN p.ctr + 1 ELSE recv.counter
    BY <1>1, <1>2, <2>2
  <2>5. QED
    BY <1>1, <1>2, <2>1, <2>3, <2>4
<1>7. QED
  BY <1>3, <1>4, <1>5, <1>6 DEF Decrypt

\* A message that is shown takes the cursor and the chain to itself; one that is
\* refused was behind the chain already, or too far ahead like all that follow it.
LEMMA DrainSkips == ASSUME RecvInv, SkipInv, DrainOne PROVE SkipInv'
<1>1. PICK m, x : m = Head(queue) /\ x = m.packet.ctr
  OBVIOUS
<1>2. /\ screen = "chat" /\ queue # << >> /\ Decrypt(m.packet) /\ queue' = Tail(queue)
      /\ lastSeen' = IF result' = "opened" THEN Larger(lastSeen, m.id) ELSE lastSeen
      /\ UNCHANGED <<headId, inbox, pushed, excused, net, netRun, netHandle, screen, saved>>
  <2>1. lastSeen \in Nat /\ queue \in Seq(PeerEntries) /\ queue # << >>
    BY DEF DrainOne, RecvInv, RelaySide, ScreenSide
  <2>2. m \in PeerEntries
    BY <1>1, <2>1, HeadTailProperties
  <2>3. m.id \in Nat
    BY <2>2 DEF PeerEntries
  <2>4. QED
    BY <1>1, <2>1, <2>3 DEF DrainOne, DecodeIncoming, relayVars, netVars, Larger
<1>3. PICK q, b : q = queue /\ b = net[netHandle].batch
  OBVIOUS
<1>4. PICK s, a, z : s = Stream /\ a = Cursor /\ z = Stream'
  OBVIOUS
<1>5. Running /\ Coming(s, a) /\ ClosedSide' /\ Mark(lastSeen, recv.counter)
  BY <1>2, <1>4 DEF SkipInv, OpenSide, ChatSide, ClosedSide
<1>6. /\ q \in Seq(PeerEntries) /\ b \in Seq(PeerEntries) /\ q # << >> /\ m = Head(q)
      /\ s = q \o b /\ z = Tail(q) \o b /\ a \in Nat
  BY <1>1, <1>2, <1>3, <1>4, <1>5 DEF Running, Stream, Cursor, RecvInv, RelaySide
<1>7. /\ Len(s) \in Nat \ {0} /\ s[1] = m
      /\ Len(z) = Len(s) - 1 /\ \A i \in 1 .. Len(z) : z[i] = s[i + 1]
  BY <1>6, StreamDrains
<1>8. /\ m \in PeerEntries /\ m \in In(q) /\ In(Tail(q)) \subseteq In(q)
  <2>1. /\ Len(q) \in Nat \ {0} /\ Len(Tail(q)) = Len(q) - 1 /\ Head(q) = q[1]
        /\ Head(q) \in PeerEntries /\ \A i \in 1 .. Len(Tail(q)) : Tail(q)[i] = q[i + 1]
    BY <1>6, HeadTailProperties, EmptySeq, LenProperties
  <2>2. 1 \in 1 .. Len(q) /\ \A i \in 1 .. Len(Tail(q)) : i + 1 \in 1 .. Len(q)
    BY <2>1
  <2>3. QED
    BY <1>6, <2>1, <2>2 DEF In
<1>9. Items' \subseteq Items /\ m \in Items
  <2>1. In(queue') \subseteq Items /\ m \in Items
    BY <1>2, <1>3, <1>8, ItemsTyped
  <2>2. QED
    BY <1>2, <2>1, ItemsTyped, ItemsShrink
<1>10. /\ x \in Nat /\ recv.counter \in Nat /\ got \in [Plaintexts -> Nat]
       /\ \/ /\ result' # "opened" /\ UNCHANGED <<recv, got>>
             /\ x < recv.counter \/ x > recv.counter + MaxSkipLookahead
          \/ /\ result' = "opened" /\ x \in Plaintexts
             /\ got' = [got EXCEPT ![x] = @ + 1]
             /\ x <= recv.counter + MaxSkipLookahead
             /\ recv'.counter = IF recv.counter <= x THEN x + 1 ELSE recv.counter
  BY <1>1, <1>2, <1>8, GenuineDecrypt DEF PeerEntries
<1>11. Calm
  <2>1. \A k \in Plaintexts : got'[k] = 0 => got[k] = 0
    BY <1>10
  <2>2. \A e \in In(inbox) : e.packet.text \in Plaintexts
    BY ItemsTyped DEF PeerEntries, Genuine, SealedInRange, Packets, Counters
  <2>3. QED
    BY <1>2, <1>9, <2>1, <2>2 DEF Calm, Unread
<1>12. Numbering' /\ FlashSide'
  BY <1>2, <1>11, CalmNumbering, CalmFlash DEF SkipInv
\* What follows the message in the stream.
<1>13. /\ In(z) \subseteq In(s) /\ \A f \in In(s) : f = m \/ f \in In(z)
       /\ m.id > excused => \A f \in In(z) : m.id < f.id
       /\ m.id <= a \/ m.id <= excused
  <2>1. /\ \A i \in 1 .. Len(z) : i + 1 \in 1 .. Len(s) /\ 1 < i + 1
        /\ \A i \in 1 .. Len(s) : i = 1 \/ (i - 1 \in 1 .. Len(z) /\ (i - 1) + 1 = i)
        /\ 1 \in 1 .. Len(s)
    BY <1>7
  <2>2. In(z) \subseteq In(s)
    BY <1>7, <2>1 DEF In
  <2>3. \A f \in In(s) : f = m \/ f \in In(z)
    <3>1. \A i \in 1 .. Len(s) : s[i] = m \/ \E k \in 1 .. Len(z) : s[i] = z[k]
      BY <1>7, <2>1
    <3>2. QED
      BY <3>1 DEF In
  <2>4. m.id > excused => \A i \in 1 .. Len(z) : m.id < z[i].id
    BY <1>5, <1>7, <2>1 DEF Coming, Rising
  <2>5. m.id <= a \/ m.id <= excused
    BY <1>5, <1>7, <2>1 DEF Coming, Rising
  <2>6. QED
    BY <2>2, <2>3, <2>4, <2>5 DEF In
<1>14. Rising(z, a)
  <2>1. \A i \in 1 .. Len(z) : i + 1 \in 1 .. Len(s)
    BY <1>7
  <2>2. \A i, j \in 1 .. Len(z) : i < j => i + 1 < j + 1
    BY <1>7
  <2>3. QED
    BY <1>5, <1>7, <2>1, <2>2 DEF Coming, Rising
<1>15. CASE result' # "opened"
  <2>1. UNCHANGED <<recv, got, lastSeen>> /\ (x < recv.counter \/ x > recv.counter + MaxSkipLookahead)
    BY <1>2, <1>10, <1>15
  <2>2. ChatSide'
    BY <1>2, <1>11, <2>1, CalmChat DEF SkipInv
  <2>3. ASSUME NEW e \in In(inbox), Unread(e), e.id <= a PROVE Covers(z, e)
    <3>1. Covers(s, e)
      BY <1>5, <2>3 DEF Coming
    <3>2. CASE e \in In(s) /\ e # m
      BY <1>13, <3>2 DEF Covers
    <3>3. CASE e = m
      <4>1. x >= recv.counter /\ m.id > excused
        BY <1>1, <1>5, <2>3, <3>3 DEF Mark, Unread
      <4>2. x > recv.counter + MaxSkipLookahead
        BY <1>10, <2>1, <4>1
      <4>3. QED
        BY <1>1, <1>13, <3>3, <4>1, <4>2 DEF Covers
    <3>4. CASE /\ e.packet.ctr > recv.counter + MaxSkipLookahead
               /\ \A f \in In(s) : e.id < f.id
      BY <1>13, <3>4 DEF Covers
    <3>5. QED
      BY <3>1, <3>2, <3>3, <3>4 DEF Covers
  <2>4. Coming(z, a)
    BY <1>5, <1>14, <2>3 DEF Coming
  <2>5. Coming(z, a)'
    BY <1>2, <2>1, <2>4 DEF Coming, Passed, Rising, Covers, Unread, In
  <2>6. OpenSide'
    BY <1>2, <1>4, <1>5, <2>5 DEF OpenSide, Cursor, Running
  <2>7. QED
    BY <1>5, <1>12, <2>2, <2>6 DEF SkipInv
<1>16. CASE result' = "opened"
  <2>1. /\ x \in Plaintexts /\ got' = [got EXCEPT ![x] = @ + 1]
        /\ x <= recv.counter + MaxSkipLookahead
        /\ recv'.counter = IF recv.counter <= x THEN x + 1 ELSE recv.counter
        /\ lastSeen' = Larger(lastSeen, m.id)
    BY <1>2, <1>10, <1>16
  <2>2. got'[x] > 0
    BY <1>10, <2>1
  <2>3. PICK l, c : l = lastSeen /\ c = recv.counter
    OBVIOUS
  <2>4. l \in Nat /\ c \in Nat /\ Mark(l, c)
    BY <1>5, <2>3, ItemsTyped
  <2>5. m.id > excused => \A f \in In(s) : f # m => m.id < f.id
    BY <1>13
  <2>6. Mark(Larger(l, m.id), IF c <= x THEN x + 1 ELSE c)'
    <3>1. c = recv.counter /\ x = m.packet.ctr /\ x <= c + MaxSkipLookahead /\ m \in Items
      BY <1>1, <1>9, <2>1, <2>3
    <3>2. Coming(s, a) /\ a \in Nat /\ (m.id <= a \/ m.id <= excused)
      BY <1>5, <1>6, <1>13
    <3>3. QED
      BY <1>11, <2>2, <2>4, <2>5, <3>1, <3>2, OpenedMark
  <2>7. lastSeen' = Larger(l, m.id) /\ recv'.counter = IF c <= x THEN x + 1 ELSE c
    BY <2>1, <2>3
  <2>8. ChatSide'
    <3>1. PICK n, d : n = Larger(l, m.id) /\ d = IF c <= x THEN x + 1 ELSE c
      OBVIOUS
    <3>2. Mark(n, d)'
      BY <2>6, <3>1
    <3>3. lastSeen' = n /\ recv'.counter = d
      BY <2>7, <3>1
    <3>4. QED
      BY <3>2, <3>3 DEF ChatSide
  <2>9. ASSUME NEW e \in In(inbox), Unread(e)', e.id <= a
        PROVE  \/ e \in In(z)
               \/ /\ e.packet.ctr > recv'.counter + MaxSkipLookahead
                  /\ \A f \in In(z) : e.id < f.id
    <3>1. Unread(e) /\ e.id > excused /\ got'[e.packet.text] = 0
      BY <2>9, <1>2, <1>11 DEF Calm, Unread
    <3>2. Covers(s, e) /\ e \in Items /\ e.packet.text = e.packet.ctr
      BY <1>5, <2>9, <3>1, ItemsTyped DEF Coming
    <3>3. e # m
      BY <1>1, <2>2, <3>1, <3>2
    <3>4. CASE e \in In(s)
      BY <1>13, <3>3, <3>4
    <3>5. CASE /\ e.packet.ctr > recv.counter + MaxSkipLookahead
               /\ \A f \in In(s) : e.id < f.id
      <4>1. e.packet.ctr \in Nat /\ MaxSkipLookahead \in Nat /\ e.id \in Nat /\ m.id \in Nat /\ excused \in Nat
        BY <1>8, <3>2, ItemsTyped, RatchetAssumption
      <4>2. x < e.packet.ctr
        BY <1>10, <2>1, <3>5, <4>1
      <4>3. CASE recv.counter <= x
        <5>1. e.id < m.id /\ m.id > excused
          <6>1. m \in In(s)
            <7>1. 1 \in 1 .. Len(s) /\ s[1] = m
              BY <1>7
            <7>2. QED
              BY <7>1 DEF In
          <6>2. e.id < m.id
            BY <3>5, <6>1
          <6>3. QED
            BY <3>1, <4>1, <6>2
        <5>2. e.packet.ctr < x
          BY <1>1, <1>9, <3>2, <5>1 DEF SkipInv, Numbering, SameOrder
        <5>3. QED
          BY <1>10, <4>1, <4>2, <5>2
      <4>4. CASE ~(recv.counter <= x)
        BY <1>13, <2>1, <3>5, <4>4
      <4>5. QED
        BY <4>3, <4>4
    <3>6. QED
      BY <3>2, <3>4, <3>5 DEF Covers
  <2>10. Coming(z, a)'
    <3>1. Passed(a)' /\ Rising(z, a)'
      BY <1>2, <1>5, <1>14 DEF Coming, Passed, Rising
    <3>2. \A e \in In(inbox)' : Unread(e)' /\ e.id <= a => Covers(z, e)'
      BY <1>2, <2>9 DEF Covers, In
    <3>3. QED
      BY <3>1, <3>2 DEF Coming
  <2>11. OpenSide'
    BY <1>2, <1>4, <1>5, <2>10 DEF OpenSide, Cursor, Running
  <2>12. QED
    BY <1>5, <1>12, <2>8, <2>11 DEF SkipInv
<1>17. QED
  BY <1>15, <1>16

\* Saves, stops and power cuts: what is on its way to a closed chat is still in
\* the inbox, if it is anywhere.
LEMMA ScreenSkips ==
    ASSUME RecvInv, SkipInv, PersistDrained \/ LeaveScreen \/ StopReturns \/ PowerCut
    PROVE  SkipInv'
<1>1. /\ UNCHANGED <<headId, inbox, pushed, excused, recv, got, lastSeen>>
      /\ saved' = saved \/ (saved' = Blob /\ screen # "peers")
      /\ screen' # "peers" => screen # "peers"
      /\ screen' = "chat" => PersistDrained
      /\ queue' = queue \/ queue' = << >>
      /\ screen' = "peers" => screen = "peers" \/ queue' = << >>
      /\ net' = net \/ net' = [t \in Tasks |-> Stopped]
  BY DEF PersistDrained, LeaveScreen, StopReturns, PowerCut, vars, relayVars, netVars
<1>2. Items' \subseteq Items
  <2>1. \A t \in Tasks : net'[t].batch = net[t].batch \/ net'[t].batch = << >>
    BY <1>1 DEF Stopped
  <2>2. \A t \in Tasks : In(net'[t].batch) \subseteq Items
    BY <2>1, EmptyIn, ItemsTyped
  <2>3. In(queue') \subseteq Items /\ In(inbox') \subseteq Items
    BY <1>1, EmptyIn, ItemsTyped
  <2>4. QED
    BY <2>2, <2>3, ItemsShrink
<1>3. Calm
  BY <1>1, <1>2 DEF Calm, Unread
<1>4. FlashSide'
  <2>1. CASE saved' = saved
    BY <1>3, <2>1, CalmFlash DEF SkipInv
  <2>2. CASE saved' = Blob /\ screen # "peers"
    <3>1. PICK l, c : l = lastSeen /\ c = recv.counter
      OBVIOUS
    <3>2. Mark(l, c)'
      BY <1>3, <2>2, <3>1, CalmMark DEF SkipInv, ChatSide
    <3>3. saved'.lastSeen = l /\ saved'.recv.counter = c
      BY <2>2, <3>1 DEF Blob
    <3>4. QED
      BY <3>2, <3>3 DEF FlashSide
  <2>3. QED
    BY <1>1, <2>1, <2>2
<1>5. ClosedSide'
  <2> SUFFICES ASSUME screen' = "peers" PROVE \A e \in In(queue)' : e.id <= excused'
    BY DEF ClosedSide
  <2>1. CASE queue' = << >>
    <3>1. In(queue') = {}
      BY <2>1, EmptyIn
    <3>2. QED
      BY <3>1 DEF In
  <2>2. CASE screen = "peers" /\ queue' = queue
    BY <1>1, <2>2 DEF SkipInv, ClosedSide, In
  <2>3. QED
    BY <1>1, <2>1, <2>2
<1>6. OpenSide'
  <2> SUFFICES ASSUME screen' = "chat" PROVE OpenSide'
    BY DEF OpenSide
  <2>1. UNCHANGED <<recv, net, netRun, netHandle, queue, screen>>
    BY <1>1 DEF PersistDrained, vars, netVars
  <2>2. Stream' = Stream /\ Cursor' = Cursor
    BY <2>1 DEF Stream, Cursor
  <2>3. QED
    BY <1>3, <2>1, <2>2, CalmOpen DEF SkipInv
<1>7. QED
  BY <1>1, <1>3, <1>4, <1>5, <1>6, CalmNumbering, CalmChat DEF SkipInv

LEMMA NextSkipInv ==
    ASSUME RecvInv, RecvInv', SkipInv, [RecvNext]_recvVars PROVE SkipInv'
<1>1. CASE PeerEncrypts
  BY <1>1, EncryptSkips
<1>2. ASSUME NEW p \in wire, Push(p) PROVE SkipInv'
  BY <1>2, PushInTurn, PushOvertaken
<1>3. CASE RelayRestart
  BY <1>3, RestartSkips
<1>4. ASSUME NEW t \in Tasks, NetNext(t) \/ EnterChat(t) PROVE SkipInv'
  BY <1>4, PollSkips, EnqueueSkips, LoopSkips, EnterSkips DEF NetNext
<1>5. CASE DrainOne
  BY <1>5, DrainSkips
<1>6. CASE PersistDrained \/ LeaveScreen \/ StopReturns \/ PowerCut
  BY <1>6, ScreenSkips
<1>7. CASE UNCHANGED recvVars
  <2>1. UNCHANGED <<headId, inbox, pushed, excused, recv, got, screen, lastSeen, saved,
                    net, netRun, netHandle, queue>>
    BY <1>7 DEF recvVars, vars, relayVars, netVars, screenVars
  <2>2. Items' \subseteq Items
    BY <2>1 DEF Items, In
  <2>3. Calm /\ Stream' = Stream /\ Cursor' = Cursor
    BY <2>1, <2>2 DEF Calm, Unread, Stream, Cursor
  <2>4. OpenSide'
    BY <2>1, <2>3, CalmOpen DEF SkipInv
  <2>5. QED
    BY <2>1, <2>2, <2>4, TaskStep
<1>8. QED
  BY <1>1, <1>2, <1>3, <1>4, <1>5, <1>6, <1>7 DEF RecvNext

LEMMA SkipInvariance == RecvSpec => [](RecvInv /\ SkipInv)
<1>1. RecvInv /\ SkipInv /\ [RecvNext]_recvVars => SkipInv'
  BY NextRecvInv, NextSkipInv
<1>2. QED
  BY InitRecvInv, NextRecvInv, InitSkipInv, <1>1, PTL DEF RecvSpec

\* A message in the inbox that was never shown is beyond the saved cursor, and
\* the saved ratchet still opens it: power cuts, left chats, polls cut short, a
\* full response and a relay that fails sends lose nothing, whatever the order,
\* and a relay that reorders or restarts, a second task or a full queue nothing
\* but messages that it had numbered by then.
THEOREM NothingIsSkipped == RecvSpec => []NothingSkipped
<1>1. SkipInv => NothingSkipped
  BY DEF SkipInv, FlashSide, Mark, NothingSkipped, In
<1>2. QED
  BY SkipInvariance, <1>1, PTL

\* While the chat is open such a message is never stuck: the task whose cursor
\* the chat started has yet to fetch it, or it is in the queue or in the task's
\* hands and the chain has not passed it, or it is too far ahead of the chain
\* (EventuallyShown adds that the task and the drain loop go on).
UnreadOnItsWay ==
    screen = "chat" =>
        /\ netHandle \in Tasks
        /\ \A e \in In(inbox) : Unread(e) =>
              /\ e.packet.ctr >= recv.counter
              /\ \/ e.id > Cursor
                 \/ e \in In(Stream)
                 \/ e.packet.ctr > recv.counter + MaxSkipLookahead

\* The cursor of the task never moves beyond a message it did not hand over,
\* and the receive chain never beyond one the screen did not show.
THEOREM UnreadComing == RecvSpec => []UnreadOnItsWay
<1>1. RecvInv /\ SkipInv => UnreadOnItsWay
  <2> SUFFICES ASSUME RecvInv, SkipInv, screen = "chat" PROVE UnreadOnItsWay
    BY DEF UnreadOnItsWay
  <2>1. Running /\ Coming(Stream, Cursor) /\ Mark(lastSeen, recv.counter)
    BY DEF SkipInv, OpenSide, ChatSide
  <2>2. Cursor \in Nat /\ \A e \in In(inbox) : e.id \in Nat
    BY <2>1, ItemsTyped DEF Running, Cursor, RecvInv, RelaySide
  <2>3. ASSUME NEW e \in In(inbox), Unread(e)
        PROVE  /\ e.packet.ctr >= recv.counter
               /\ \/ e.id > Cursor
                  \/ e \in In(Stream)
                  \/ e.packet.ctr > recv.counter + MaxSkipLookahead
    <3>1. e.packet.ctr >= recv.counter
      BY <2>1, <2>3 DEF Mark
    <3>2. CASE e.id <= Cursor
      BY <2>1, <2>3, <3>1, <3>2 DEF Coming, Covers
    <3>3. CASE ~(e.id <= Cursor)
      BY <2>2, <3>1, <3>3
    <3>4. QED
      BY <3>2, <3>3
  <2>4. QED
    BY <2>1, <2>3 DEF UnreadOnItsWay, Running
<1>2. QED
  BY SkipInvariance, <1>1, PTL

==============================================================================
