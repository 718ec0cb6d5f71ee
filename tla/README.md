# noisebox: formal models

noisebox is an end-to-end encrypted messenger for an ESP32 handheld (the
Cardputer). Two devices talk through Telegram: each user gives a bot a
*business connection*, the bot (the *relay*, `relay/bot.py`) sends texts in the
user's name and keeps an inbox per user, and the device (`firmware/main/`) polls
that inbox over HTTPS, pairs with the peer's device (X25519, five words compared
by voice) and seals every text with a symmetric ratchet.

This directory holds TLA+ modules of that system, TLC configurations that check
them on small instances, and proofs that TLAPS checks for every value of the
constants. Paths in this file and in the modules are relative to the
repository's sources; `bot.py` is `relay/bot.py`, a `.c` file is in
`firmware/main/`.

    tlc -workers 2 -config MCRatchet.cfg MCRatchet.tla
    tlapm RatchetChatProofs.tla

## 1. The system and its parts

| part | code | state | operations | modelled by |
|---|---|---|---|---|
| Ratchet | `ratchet.c` | two directions (chain key, 32-bit counter), 64 cached keys of skipped packets | encrypt, decrypt | `Ratchet`, `AuthChannel` |
| Chat sending | `main.c` screen_chat (Enter), `session.c` | the peer record in flash | encrypt, save, send, resume | `ChatSend` |
| Chat receiving | `main.c` screen_chat, chat_net_task, `transport.c`, `bot.py` UserInbox | relay inbox, poll cursor, queue of 8, cursor in flash | push, poll, enqueue, drain, save, leave | `ChatReceive` |
| Handshake | `pairing.c`, `sas.c`, `session.c`, `main.c` screen_handshake and app_main | identity in flash, ephemeral key, HELLO taken, words, record in flash | begin, send and take HELLO, finalise, confirm, persist, resume, wipe | `Handshake` |
| Device binding | `bot.py` cmd_pair, cmd_unbind, bind_poll; `main.c` screen_bind | codes, tokens, state file; user id and token in flash | /pair, /unbind, poll, write, forget | `RelayBinding` |
| Peering | `bot.py` cmd_accept and friends, update loop | peers, open requests, offset, state file | /pairnoise, /accept, /reject, /unpeer, getUpdates, save, restart | `RelayPeering` |
| Business connections and delivery | `bot.py` handle_business_connection, handle_business_message, send | two connection tables, peers, offset, inboxes, state file | connect, change id, end, message, /send, save, restart | `Delivery`, `ChatReceive` |
| Keyboard | `keyboard.c` | the chip's FIFO and interrupt bit, the interrupt flag, three modifiers | key event, interrupt, poll | `Keyboard` |
| Menus and text input | `ui.c` | cursor and first row of a menu, the text typed | key | `Screens` |
| Boot, setup and settings screens | `main.c`, `storage.c` | relay id, host, user id, token, identity, records in flash, and their copies in RAM | boot, set up, bind, re-setup, unbind, wipe | `Setup` |
| Wi-Fi manager | `wifi.c`, `main.c` screen_wifi | event bits, retry counter, connected flag, saved credentials | connect, handle an event, save, forget | `Wifi` |
| Flash storage | `storage.c` | NVS keys | load, save, forget | in the modules of its callers |
| Transport | `transport.c` | response buffer | poll, send, head id, bind poll, peers | by what its calls return, in the modules of its callers |
| Crypto primitives | `crypto.c`, `sas.c`, `base64.c` | none | X25519, HKDF, AEAD, words | symbolically |
| Display and font | `display.cpp`, `font8x16.c` | pixels | | not modelled |
| Authorisation, rate limit, admin endpoint; bot texts and lookups | `bot.py` | a time window per address | | not modelled |
| Test peer; web flasher, docs, deployment | `peer_ghost.py`, `docs/`, CI | | | not modelled |

How they interact: the device's main task runs the screens and calls the
session, which calls the ratchet; a second task (`chat_net_task`, on the other
core) polls and hands messages over through a FreeRTOS queue and two global
flags; the Wi-Fi events come in on a third; keys come from a chip with a FIFO and
an interrupt. Device and relay exchange HTTP requests, each with a timeout. The
relay is one asyncio loop: a handler runs alone between two awaits. It shares its
tables between the Telegram update loop and the HTTP handlers and writes them to
one JSON file, and it reads Telegram's updates in batches by an offset it keeps
in that same file. Telegram drops an update once a getUpdates passes beyond it.

What is hard in it:

- *crashes*: power cuts of the device between encrypting, saving and sending,
  between draining messages and saving the cursor, between the two, three or six
  flash writes of a binding, a re-setup or a wipe; a restart of the relay between
  a change and its save, in the middle of a batch, or while a name is fetched or
  a user greeted;
- *messages* that are repeated, overtaken, damaged, lost, or pushed long after
  the sender gave up; an end of a connection told after the start of the next;
- *interleavings* of the network task with the chat screen, of two network tasks
  when the old one outlives a 5 s wait, of two devices and two users with one
  code, of the update loop with handlers that save, of `/send` awaiting Telegram
  with everything else, of Wi-Fi events with an attempt that started after them,
  of a key press with the I2C transfers of a poll;
- *boundaries*: the 32-bit counter, the 64 cached keys and the lookahead of 64,
  the queue of 8, four messages per poll, the 16 KB response, the inbox of 256,
  the keyboard's FIFO of 10, four rows of a menu, the four reconnects of Wi-Fi;
- *staleness*: HELLOs of abandoned attempts, cursors older than the relay's
  memory, requests an hour old, entries that come back from the state file,
  connection ids that changed, an interrupt flag read before it is cleared.

`PROJECT.json` lists each of them at its line, with the properties that speak of
it or the reason why none does.

What makes each part correct:

- Ratchet: a key seals one text; each packet opens once; no junk, repeat or
  reordering within the lookahead makes a genuine packet unreadable.
- Chat sending: no counter is sent twice, power cuts included.
- Chat receiving: what is in the inbox is shown once, and not lost by leaving
  the chat or by a power cut.
- Handshake: devices whose users confirmed hold mirrored keys; a record is never
  replaced silently.
- Binding: one token per user, one device per token, token and user id belong
  together, and only the owner detaches a device.
- Peering: peers are mutual, they are exactly those who both accepted, and no
  restart makes or loses an agreement.
- Delivery: the tables are those of a relay that handled each update once, and an
  inbox holds the messages of its user's peers, each once and in order.
- Keyboard: a key is what was printed on it under the modifiers held when it was
  pressed; no modifier sticks; no event stays in the chip.
- Menus and setup: what is highlighted can be seen; a device runs with the id,
  host and token of one relay and with records of its own identity.
- Wi-Fi: the connected flag is true to the link; credentials that are saved work;
  a link that is lost is joined again.

## 2. Modules

`Ratchet`, `ChatSend` and `ChatReceive` share one ratchet: the chat modules
EXTEND `Ratchet` and add their half of the screen. `Setup` EXTENDS `Screens` and
runs its menus and inputs key by key. The others stand alone; they touch each
other through the peer record, the token, the peer tables and the keys, which
each of them takes as given: `Delivery` takes peers as sets of two, which
`RelayPeering` shows to be right, and assumes that what the file does not have is
handed over again, which is `RelayPeering`'s too; `Setup` takes a binding as one
that succeeds or not, which is `RelayBinding`'s. The MC modules add symmetry sets
and small tables; the `.cfg` files give the constants their values.

### Ratchet, AuthChannel

One direction from one device to another. `Encrypt`, `EncryptExhausted` are
`ratchet_encrypt`; `Decrypt(p)` is `ratchet_decrypt`, one disjunct per way out,
in the code's order: `DecryptSkipped` (a cached key opens it), `DecryptReplay`
(behind the chain), `DecryptTooFar`, `DecryptAuthFail` (nothing is committed),
`DecryptAhead` (the walked keys are stashed by `Stash`, the chain moves).
`Arriving` is what can reach the device: every packet sent so far, any number of
times in any order, and a damaged packet with any counter. A chain key is the
number of HKDF steps since the start; a message key is named by the chain it
comes from. `AuthChannel` is what a direction promises: what is delivered was
sent, once. `ImplementsChannel` maps `sent` to the calls of `ratchet_encrypt`
and `delivered` to the texts `ratchet_decrypt` returned.

### ChatSend

The Enter handler of `screen_chat` with `session_encrypt_b64`,
`session_persist`, `tx_send`, then `session_resume`. `pc` is how far a text has
come: `typing`, `encrypted`, `persisted`, `away`. `TxSend` leaves it open whether
the relay has the packet, whatever the device was told. `PersistInbound` is the
save of the receive loop, which writes the send direction too. `PowerLoss` may
come at every step. With `NvsMayFail` a write of the peer record may fail, which
the code does not look at. The other device runs `Receive`.

### ChatReceive

The path of a message from the relay to the screen. `Push` is the copy the relay
puts in an inbox, `RelayRestart` loses inboxes and ids. `PollReturns` is
`tx_poll`: nothing or an error when the response does not fit, else at most
`PollCap` messages with the cursor on the last. `Enqueue` is `xQueueSend` with
its unread result, `LoopOrExit` the loop's test of `s_chat_net_run`. `EnterChat`
is `session_resume` and `chat_net_start`; `DrainOne`, `PersistDrained` the drain
loop; `LeaveScreen`, `StopReturns` are `chat_net_stop` (which gives up after 5 s)
and the save that follows; `PowerCut` is a cut at any step. `saved` is the part
of the peer record this module needs: the receive direction and the cursor.
`excused` is a history variable for `NothingSkipped`: the last message id the relay had
given out when a packet overtook another (`Overtaken`), when the relay restarted, or when
a message was put in the queue by a task the open screen did not start, in the queue of a
closed screen, or nowhere because the queue was full (`Strays`). One
peer only: the messages other peers leave in the inbox, and HELLOs in a chat
(`Handshake` has those), are left out.

### Handshake

Two devices, their users, their flash, and the two inboxes HELLOs go through.
`pc` is the screen. `Begin` is `session_begin` (`PairInit`) and the head id
(`HeadIds`; it stays 0 when the request fails); `SendHello`/`SendFails`/
`LatePush` are `tx_send`, which gives up after 8 s while the relay may push
later; `Poll` is a turn of the waiting loop with `pair_feed_hello`; `Finalise`
is `pair_finalise` and the words; `ConfirmSas`/`RefuseSas` the user's key;
`PersistBaseline` the first save; `Resume`, `ChatHello`, `LeaveChat` the chat as
far as HELLOs matter; `PowerLoss` and `Wipe`. Secrets are symbolic: a
Diffie-Hellman secret is the set of its two keys, HKDF and the hash under the
words are injective. A user presses y only when the other one reads out the same
words; that is the one assumption about users.

### RelayBinding

The six-digit code from a device to a token. `mem` holds the relay's three
tables, `disk` the state file. `CmdPair`, `CmdUnbind`, `PrunePending`,
`OtherSave`, `Restart` are the relay alone; `Boot`, `SaveUid`, `SaveToken`,
`ForgetBinding`, `PowerLoss` the device alone; `PollBound`, `PollExpired`,
`PollBoundUnsaved` are `bind_poll` with the device's side of it, and the response
may be lost. `EraseBinding` erases both values (`BothErased`) or is cut in between
(`CutBetweenErases`); the history variable `tokenLeft` has the devices on which such a cut
left the token and nothing has replaced or erased it since. `Expire` is the clock. The `claimed` branch of `bind_poll` is not
there: claiming and popping the entry are one step, so no entry in the table is
ever claimed (`AUDIT.md:71-72` speaks of a `410 already_claimed`, which for that
reason is never sent).

### RelayPeering

The tables of peers and open requests, and the way commands get there. `log` is
every update Telegram ever had, `confirmed` how far it has dropped them, `batch`
the end of the batch in hand. `HandleUpdate` moves the offset and runs one
handler (`Handled`: `Pairnoise`, `Accept`, `Reject`, `Unpeer`), with the save of
a handler that changed something. `AskNames`, `NamesArrive`, `NamesFail` are a
`/pairnoise` that awaits `getChat` with the offset already moved. `SaveState` is
the save after a batch and those of `bind_poll` and other handlers, `Expire` and
`PrunePending` the hour of a request, `Restart` the process coming back from the
file. The argument of a command is taken as resolved to a user, writes succeed.
`lost` are the requests that were dropped between the await and the handler:
`bot.py:62-64` promises less for those, and `AgreementKept` excepts them.

### Delivery

What reaches an inbox. Telegram's side is `log` (its updates) and `actual` (the id
of each user's connection): `Attach`, `Detach`, `Rotate` (the id changes; the end
of the old one is told late or not at all), `Write`, `Command`. `HandleUpdate` is
one update: `Connected` and `Disconnected` are the two branches of
`handle_business_connection`, `Receivers` the checks of
`handle_business_message`. A first connection is greeted before it is saved:
`saving` until `GreetingEnds`. `SaveState` is any other save. `/send` is `Send`
(its checks, with the connection id it takes along), `Posts` (Telegram has the
text), `Answered` (the answer, and the copy) or `Refused`. `Pushed` is `UserInbox.push`: a
full inbox drops its oldest entry. `Restart` brings back
the file and empties the inboxes. `Replay` is the reference: the tables after the
first i updates, each handled once. That a device gets what an inbox holds is
`ChatReceive`.

### Keyboard

The scanner chip and `kbd_poll`. `fifo`, `kint` (the bit that holds the line low)
and `down` are the chip; `flag` is `s_int_flag`; `mods` the driver's modifiers.
`KeyEvent` puts an event in the FIFO, pushing out the oldest of a full one, and
fires the interrupt if the bit was clear. A call is `PollStart` (which reads
INT_STAT), `ReadEvent` up to `PerCall` times, `ReadNothing`, `Acknowledge`,
`Check`, `ClearFlag`, with key events between any two and transfers that fail.
Two ghosts serve the properties: each event has the modifiers `held` before it,
and `lost` are the modifiers whose last change was pushed out or came before
boot. `Position` is `remap_raw`; the legends are a table of values.

### Screens, Setup

`Screens` is `ui.c`: `MenuKey` with `Window` is a key in `ui_menu`, `TextKey` one
in `ui_text_input`. `Setup` is `app_main` from the splash screen to the peer list
and the settings. `at` is the screen, or the flash write that comes next. `Boot`
reads id and host, `AskId` and `AskHost` are `screen_relay_setup`, `Saves` its two
writes and the two of a binding, `Start` decides on `screen_bind`, `Bind` ends it,
`Fetch` is `screen_peer_list`. `Move` and `Choose` are keys in a menu,
`TypeConfirm` and `EndConfirm` the typed WIPE, `Forgets` every erase of re-setup,
unbinding and wiping, `Dismiss` the key that ends a message, `PowerCut` a cut at
any point. A write may be lost, which no caller looks at. The ghost `torn` says
which part, the settings or the records, such a fault has left half done: a write
of the setup screen or an erase of re-setup or wipe that was lost, or a cut between
those erases. The properties speak of devices without that; the next boot that
finds nothing of the part in flash ends it.

### Wifi

`screen_wifi` and `wifi_connect` in the main task, `evt_handler` in the event task,
and the driver. `link` and `conf` are the driver, `GetIp`, `JoinFails`, `LinkLost`
what it does, and each posts an event; `Handle` handles the oldest (`OnStart`,
`OnDisconnected`, `OnGotIp`). `wifi_connect` is `Reset`, `ClearBits`, `SetConfig`
(or `SetConfigRefused`), `Disconnect`, `Connect`, `WaitEnds`; around it `Load`,
`Pick`, `Joined` (which saves), `Failed`. `Reboot` comes at any time, or after
credentials were forgotten. Events of one attempt may be handled in the next: the
ghost `crossed` marks an attempt during which an IP of an earlier one can come in
after the bits were cleared, and `trusted` says that what is saved was not saved by
such an attempt.

## 3. Runs

Counters are bounded by `MaxCtr`, which stands for `UINT32_MAX`: the code refuses
to encrypt there, so the bound is the code's, only smaller. The lookahead and the
cache are both 64 in the code (`ratchet.c:9`, `ratchet.h:33`), and the modules
assume only that the cache is no smaller than the lookahead.

| run | bounds | checks | shows |
|---|---|---|---|
| `ratchet` | MaxCtr 8, lookahead and cache 3 | `TypeOK`, `KeysSingleUse`, `WindowRetained`, `GenuineAccepted`, `ImplementsChannel` | exhaustion, eviction, packets before, inside and beyond the window, repeats and junk |
| `chat_send` | MaxCtr 5, lookahead 2 | `CounterNeverReused`, `GenuineAccepted` | five texts with a cut at each step, saves by the receive loop, resumes |
| `receive` | 4 packets in order, inbox 3, response 3, 2 per poll, queue 4, 2 cuts | `EventuallyShown` | over polls, departures and cuts, a message that stays in the inbox of an open chat is shown |
| `receive_repeats` | 3 packets in any order, 2 network tasks, queue 2, inbox 3, 1 relay restart, 1 cut | `RecvTypeOK`, `ShownOnce`, `NothingSkipped` | two tasks with different cursors, drops, reuse of ids: no text twice, and no unread message lost but those such a fault excuses |
| `handshake` | 3 identities, 4 attempts, 2 per poll, failing head ids, late HELLOs | `HandshakeTypeOK`, `KeysAgree`, `NoSilentRekey` | retries, wipes, cuts and stray HELLOs in any order, up to a whole second pairing |
| `handshake_skip` | 2 identities, 2 attempts | `HelloReachable`: violated | the second device skips the first one's HELLO as backlog |
| `binding` | 2 users, devices and codes, 3 tokens, failing saves | `BindTypeOK`, `TokenNamesItsUser`, `TokenOnOneDevice`, `OneTokenPerUser`, `OnlyOwnerDetaches` | shared codes, re-binding, lost responses, restarts, cuts between any two writes or erases |
| `peering` | 2 users, 4 updates, 1 restart | `PeeringTypeOK`, `PeersSymmetric`, `PeersAgreed`, `AgreementKept` | every sequence of four commands, with half-saved batches and repeats |
| `delivery` | 2 users with 2 ids each, inboxes of 2, 3 updates, 2 requests to /send, 1 restart | `TablesInverse`, `StateIsReplay`, `ConnectionsCurrent`, `InboxIsReplay`, `CopyWasPosted` | connections that start, change and end late, messages by either side, pairs made and undone, /send across all of it |
| `keyboard` | a key with three legends, shift, Fn and a code off the keymap, FIFO 3, 2 events per call, 6 key events, 1 failed transfer | `KeyboardTypeOK`, `TypedAsHeld`, `NoStuckModifier`, `NoStranding` | presses and releases between any two steps of a call, overflow, interrupts lost to a cleared flag |
| `setup` | 4 rows, 2 relays, a word of one character in a buffer of 3, up to 4 peers, 2 identities, 2 cuts, writes that fail | `SetupTypeOK`, `HighlightShown`, `IdAndHostMatch`, `TokenOfRelay`, `RecordsOfIdentity` | setups, bindings, re-setups, unbindings and wipes, cut or half written |
| `wifi` | 2 networks, 1 works, 2 attempts, 4 reconnects, 3 waiting events, 3 failures in a row, 2 losses, 1 reboot | `ConnectedIsTrue`, `SavedCredentialsWork`, `Rejoins` | slow joins torn down by the next attempt, late events, outages, forgetting |

Why the bounds are enough: the ratchet's behaviour depends on differences of
counters, and 8 counters over a window of 3 give packets before, at and beyond
both edges, two evictions in a row, and exhaustion. Two users, devices and codes
are the smallest instance in which a code, a token or a name can go to the wrong
one; three tokens allow a re-binding of a user who was bound while another holds
one. Four HELLO attempts are a pairing, a wipe and a second pairing, or two that
are abandoned and stale before one goes through; three identities allow a wipe on
one side. Four updates are the four it takes to make and end a peering; three are
those it takes to change a connection's id and have the old end told after a
message; one restart suffices to hand a batch over twice. A FIFO of 3 overflows
within 6 events with a press and release of a modifier among them, and 2 per call
leave events for the next. Menus of 2 to 6 items over 4 rows scroll and do not. Two
cuts reach a boot in the middle of a recovery from the first. Three queued events
are an IP, a loss and another IP across two attempts, and two losses use up and
reset the reconnects. Nearly all of it is then proved without bounds (section 5).
An inbox of 2 is full before the third message. The `receive` run keeps packets in
order and a queue longer than two polls; what happens without that is in section 6.

Deadlock is checked except in the `handshake*`, `peering`, `delivery` and `wifi`
runs. In the first four the bounds (`MaxEph`, `MaxUpdates`, `MaxSends`,
`MaxRestarts`) stop the model; in `wifi` a device that is up, or one that has given
up after its reconnects, has nothing left to do until a reboot.

*Fairness.* `ChatReceive!Fairness` is weak fairness of each network task, of the
drain loop and of its save: every HTTP request has a timeout, the task loops on a
core of its own, and the screen's loop blocks on nothing but such requests. No
fairness is assumed of users, of power, of the relay's restarts or of senders, and
`EventuallyShown` speaks of the time in which the user stays in the chat and the
message in the inbox. `Keyboard` has weak fairness of `PollStep`, since every screen
calls `kbd_poll` in its loop; `NoStranding` needs nothing of the keys or of the
chip's interrupt. `Wifi` has weak fairness of the driver (a join ends one way or
the other), of the event task and of the main task, whose waits have timeouts; a
join may fail, but only `MaxFails` times in a row where the credentials are right,
which is what `Rejoins` says of the network rather than of the program: an outage
of at most as many failures as the handler has reconnects.

## 4. Disagreements between code and documentation

One run is a counterexample, which `PROJECT.json` quotes:

1. `main.c:370`: the backlog that is skipped includes the peer's HELLO for this
   handshake, against `main.c:367-368`. The device that started second waits for it in
   vain; the first one takes the HELLO of the second and goes on to the words.
   (`handshake_skip`)

Others were met while modelling. They follow from a line, or show when a constant
is changed:

2. `main.c:631`: the result of the save before a send is not looked at, though the
   comment rests on it (`main.c:629-630`). With `NvsMayFail = TRUE` in `MCChatSend.cfg`
   `CounterNeverReused` fails; so does the premise of `NoCounterReuse`.
3. `bot.py:101`: message ids start from 1 again after a restart, while devices keep
   their cursors; `bot.py:60-61` says clients catch up. With `MaxRestarts = 1` in
   `MCReceive.cfg` `EventuallyShown` fails, and `NothingSkipped` excuses what the relay
   had numbered.
4. `main.c:758`: a chat starts at cursor 0 and takes the HELLO it paired with for a
   reset of the peer; and `main.c:748`: nothing forgets a record but a factory reset,
   so the notice that asks to re-pair cannot be followed.
5. `main.c:194-196`: `screen_relay_setup` says that both values are saved and looks at
   neither result. A boot asks again unless both are there, so the harm is a device
   whose flash has the id of one relay and the host of another, after a second fault.
6. `main.c:736`: with a mistyped relay the bind screen polls for ever and ESC leads
   back to it; the comment at `main.c:243-246` promises the way to the settings, but
   gives it in the peer list only, behind a binding.
7. `main.c:561`: a task whose poll outlives the 5 s of `chat_net_stop` goes on when the
   same chat is opened again (`main.c:550` sets the flag it reads) and hands over what
   follows the messages that were just discarded, before the new task has fetched those.
   `main.c:593-595` discards what a stale task brings by its peer, and here the peer is
   right. The cursor jumps, and a power cut before the new task catches up loses the
   messages between, against `main.c:581-583`. `NothingSkipped` excuses the messages
   numbered by then (`Strays`); without that it fails.

What the models show of the code beyond that, without a text that says otherwise:
an IP of the attempt before, handled after `ClearBits`, makes `wifi_connect` report
success for credentials it never tried, and they may be saved (the exception
`crossed`); after five losses without an IP between them nothing reconnects until a
reboot; `wifi_disconnect` and `wifi_is_connected` have no callers. The end of an old
connection, told after the start of the new one, removes the new one (`bot.py:738`),
and the user has none until the next update about it. A copy of `/send` may be queued
after an `/unpeer` that came during the call of Telegram. An unbind that is cut
between its two erases (`storage.c:196-197`) leaves the token, and a second cut between
the two writes of the next binding (`main.c:169-170`) makes a device that boots with the
id of one user and the token of another: `TokenNamesItsUser` excepts the devices in
`tokenLeft`, and fails without that.

## 5. Proofs

Proved for every value of the constants, from the named assumptions of the modules.
Every invariant and action property of a passing run is a theorem. `CounterNeverReused`
and `GenuineAccepted` over `ChatSend` have a premise that the run has too, a flash that
accepts writes. The others have none: what a fault of the code does break is excepted in
the property itself, by a history variable (`excused`, `tokenLeft`, `lost`, `crossed`,
`torn`), and the cases that remain are those of the whole specification.

**RatchetChatProofs, the ratchet** (from `RatchetAssumption`: the cache is no smaller
than the lookahead). `IInv` is `TypeOK` and `ChainsInStep` (chain and counter of a
direction move together; this is what makes a key a function of a counter),
`WireGenuine` (every packet was sealed with the key of its counter, below the
sender's), `CacheGenuine` (every cached key belongs to its counter, is behind the
chain, and its text was not returned), `CacheSorted` (the cache is ordered by counter,
so eviction drops the oldest), `AtMostOnce` (nothing was returned twice, or beyond the
chain), `WindowRetained`. The last two need each other: that the cache still has a key
follows from order and size, that a key is used once follows from its removal. From
`Invariance`: `TypeCorrect`, `KeysUsedOnce`, `WindowNeverEvicted`,
`NeverDesynchronised`, and `Refinement`: every step is a step of `AuthChannel` or a
stutter.

**RatchetChatProofs, sending.** `SendInv`: `SavedBeyondWire` (the saved counter is
beyond every packet the relay has), `RamNotBehind` (RAM is not behind flash while the
screen is up), `PacketInHand` (an unsent packet is below the counter in RAM, and in
flash once persisted). `NoCounterReuse` is `CounterNeverReused` under `~NvsMayFail`;
section 4 says what happens without the premise. `ChatTypes` needs that chain and
counter move together in RAM, in flash and at the receiver. With chain and counter in step
that gives `CutsNeverReuseKeys`, `KeysSingleUse` over cuts. `CutsNeverDesynchronise` is
`GenuineAccepted` here. `IInv` does not hold over cuts (a counter that was used up and
never sent has no text, and `calls` runs ahead of the counter), so `ReadInv` states the
reading side by packets: a text is sealed once (`TextsSealedOnce`), a
text that was returned is that of a packet behind the chain whose key is gone
(`OpenedOnce`), and each counter within the window behind the chain has its key in the
cache or its packet was opened (`CountersHeld`). What skipping and taking keys do to the
cache is stated once for both modules (`WalkFillsCache`, `CachedKeyGoes`,
`OpenedCache`). `ChatRefinement` maps every step of `ChatSpec`, saves, cuts and resumes
included, to a step of `AuthChannel` or a stutter.

**RatchetChatProofs, receiving.** `RecvInv` has three sides: the ratchet (types, chains
in step, genuine packets; a text that was shown is behind the chain and has no key in
the cache), the relay and its tasks, and the screen. `TextsShownOnce` and `RecvTypes`
follow for any number of tasks, any reordering, drops, restarts and cuts: `EnterChat`
brings the ratchet back to the saved one and clears the screen, so what was shown on
this screen is always behind the chain of this session.

`NothingIsSkipped` is `NothingSkipped` over every behaviour of `RecvSpec`: any number of
tasks, an inbox that drops its oldest, polls that return a part, responses that do not
fit, a queue that overflows, packets overtaken, restarts, cuts and departures at every
point. The code does lose messages, and section 2 says how: `excused` is the last id the
relay had given out at the last such fault, and the property is about the messages after
it. Each of the five faults is needed: without any one of them TLC finds
`NothingSkipped` violated. The theorem therefore says two things: without these faults
nothing puts a message that the inbox holds out of reach, and a fault does that at most to
the messages numbered by then: what comes after it is safe again, though it may have left
cursor and ratchet apart.

The invariant `SkipInv` divides messages by ids and by counters alike. `Numbering`: the
ids of an inbox are consecutive, and a message that is not excused stands to every other
message in the inbox, the queue or a batch as its packet does (`SameOrder`). `Mark` says
of a cursor and a chain counter that they divide those messages in the same place with
nothing unread behind; it holds of the flash (`FlashSide`) and of the open screen
(`ChatSide`), whatever stray tasks hold. `OpenSide` is about the task of the open chat:
what its cursor has passed and the chain has not is in the queue or in the task's hands
(`Stream`), ids rising, or so far beyond the lookahead that everything in the stream will
be refused and the cursor of the screen stays (`Covers`). `ClosedSide`: what the queue holds
while no chat is open is excused. Steps that add no message and excuse none (`Calm`), and
those that excuse all there are (`Excusing`), are treated once. `UnreadComing` reads from
`OpenSide` what `EventuallyShown` rests on.

**HandshakeProofs.** `PairInv`: `Domains`, `IdentitiesDiffer`, `WordsBindChains`
(chains and words in hand come from one transcript, and so do words and record),
`SecondHadTheWords` (who confirmed second had the words of the one who confirmed
first, and still has them while both records exist). `Agreement` follows: equal words
are equal transcripts, and `MirroredChains` shows that the two ends of a transcript
derive the same secret with the halves swapped. `RecordsStay` is `NoSilentRekey`, by
cases over the actions; `HandshakeTypesHold` from what each screen implies.

**RelayBindingProofs.** The argument is about where a token is. `BindTypes` are the
types, `PlaceInv` is: the tables of the process and of the file are sane, a token is on
one device at most (`OneHolder`), and one on a device was handed out, so that no table
has it as pending (`HeldHanded`). From these `TokenHeldOnce`, `SingleToken` and
`LoggedOutByOwner`. `TokenNamesUser` adds `OneUser` (every place that mentions a token
names the same user) and what the flash of a device may hold between its two writes, or
after a cut between its two erases: a token without an id is in `tokenLeft` or will be
replaced before the device is bound.

**RelayPeeringProofs.** `PeersMutual` from `PeersInv`: peers are symmetric in the
process and in the file, each handler keeping that for any update. `PeeringTypeCorrect`
with `Naming`, what is known of a request that waits for its name. `PeersAreAgreed` from
`AgreedInv`: each pair of peers and each acceptance in a table is *justified* by updates
at or below that table's offset. `AgreementsKept` from `KeptInv`: as long as no request
ran out of time, what two acceptances made is in the process, and in the file once the
offset there has passed them; a request that is waiting for its name counts with those
that were lost.

**DeliveryProofs.** `DeliveryInv` holds types, the order of the offsets, and that
both connection tables name each other and ids name their user; `ConnectionsInverse`
and `DeliveryTypes` follow. `StateReplayed` needs that `Replay` is what its recursive
definition says. TLAPS cannot apply the library's induction principles, which take an
operator, but the well-foundedness of finite sets under inclusion is a first-order
fact: `LeastNatural` takes from it a least element of any set of numbers, and
`ReplayExists` and `ReplaysAlike` are inductions by a least counterexample.
`InboxReplayed` adds the copies of an inbox to that, with what a full one has dropped
(`Kept`), `CopiesPosted` that a request
under way has no copy yet, and `ConnectionsStayCurrent` that a table agrees with the
last of the updates below its offset that is about the user, and Telegram with the
last of the log.

**KeyboardProofs.** `KeyboardInv`: each event in the FIFO was made under the modifiers
that the one before it left (`Chained`), the last one leaves those held now
(`UpToNow`), and the driver's modifiers, but for those in `lost`, are those before the
oldest event (`Follows`). `KeysTypedAsHeld`, `ModifiersNeverStick`, `KeyboardTypes`
follow for every FIFO; `RemapInjective` is about the keymap alone. `EventsAreSeen` is the
safety part of `NoStranding`: K_INT is set while events wait (`LineStaysLow`), so
a call that reads it goes to the FIFO whatever became of the flag, and leaves the FIFO
for a failed read or because it is empty.

**WifiProofs.** `WifiInv`: an IP in the queue is of a link that is up or whose loss
follows it in the queue (`IpBacked`), an IP is of a working network (`IpWorks`), and in
an attempt that was not crossed every IP and the bit are the attempt's own (`Attempt`).
`ConnectedFlagIsTrue`, `SavedAfterIp`, `WifiTypes`. `RejoinUnderWay` is the safety part
of `Rejoins`, for `MaxFails < Retries`: a device in use whose link is idle has a loss in
the queue that finds a retry left. `RetryInv` counts: behind the last IP in the queue
there are losses only, and the retries used up, with those the waiting losses will use,
are at most one more than the joins that failed since that IP, which gave all back.

**SetupProofs.** `Highlight` for every menu and number of rows. `ConfigInv` says, for
each screen and each write that is to come, what flash and RAM agree on while the
settings are not torn; `OneRelay` and `OwnToken` follow. `RecordsInv` does the same for
the identity and the records (`OwnRecords`), `IdsInv` for `SetupTypes`.

Only model-checked: `EventuallyShown`, `NoStranding` and `Rejoins` themselves, as
liveness under fairness is out of the prover's reach, and the violation of
`HelloReachable`. Where the proofs repeat what a run checks, the run came first and stays:
it shows on small instances that the theorem's cases happen. No module uses a RECURSIVE
operator.

## 6. Limits and assumptions

- Cryptography is symbolic and perfect: a damaged packet never opens, different
  inputs never give equal keys or words. Bytes, base64 and JSON are left out.
- Telegram does not echo what a business connection sends (`bot.py:49`), so an inbox
  gets one copy of a text.
- Flash writes fail in `ChatSend` (by a constant) and `Setup`, the state file in
  `RelayBinding`; elsewhere writes succeed. Power cuts fall between writes, not inside
  one.
- `excused` is coarse: a fault excuses all the messages numbered by then, also those it
  did not touch. An overtaken packet is lost if the chat was resumed after its successor
  (`session.c:151` does not save keys of skipped packets), a message that finds the
  queue full is gone (`main.c:538`), a restarted relay gives out ids that cursors have
  passed (`bot.py:101`), and a stray task moves the cursor over what others hold
  (`main.c:561`).
- `receive`, for `EventuallyShown`, keeps packets in order, a long queue, and an inbox no
  longer than a response: a longer one stays unread (`transport.c:47`, `transport.c:62`).
- `StopReturns` takes a wait of 5 s that ran out to have found the old task in a request:
  handing over four messages takes 0.2 s at most.
- A device has one peer at a time in the models, as the chat screen has.
- An exception inside a handler of the relay, other than a failing call of Telegram or
  a failing save of the state file, is left out.
- The networks a scan finds are a free choice; the time of an attempt is a choice
  between the bits and a timeout.

Not modelled, and why: drawing and the font, and the texts of the bot, have no state of
the messaging system; authorisation, the rate limit and the admin endpoint look at one
table or one counter per request; `peer_ghost.py` is a client for tests; the web flasher,
the documents and the deployment run outside the system. URL building, JSON and
`tx_get_peers` of `transport.c` format and parse without state of their own.

## 7. Plan

Done: the ratchet with its abstract channel; sending over crashes; receiving; the
handshake; binding; peering; delivery; keyboard; menus and setup; Wi-Fi; and proofs of
their safety properties.

Left, in order:

1. `Chat`: `ChatSend` and `ChatReceive` of both devices composed, for a bound on how
   far a sender may get ahead of a receiver (`main.c:635`), and HELLOs among messages.
2. Liveness of binding: a user who types the code a device shows gets it bound, a lost
   response included.
3. `Response`: the buffer of `transport.c` with its cap, and what each caller makes of
   a response that was cut.
4. What a fault of the relay costs exactly: `excused` as the set of the messages that
   were overtaken, dropped or jumped over.
