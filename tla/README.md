# A verification of ScreenLink

ScreenLink lets one computer (the *host*) drive another (the *client*) with its
own keyboard and mouse: push the cursor over a screen edge and it appears on the
other machine. The program is a Rust workspace (`crates/`): an async session task
per peer, several plain threads around it, UDP for input and video, TCP under TLS
for control.

This directory holds TLA+ modules for its stateful parts, the TLC configurations
that check them, and TLAPS proofs about ten of them. Line numbers below and in
the modules refer to the sources under `crates/`.

- [The system](#the-system)
- [Modules, and how they correspond to the code](#modules-and-how-they-correspond-to-the-code)
- [Runs](#runs)
- [Bounds](#bounds)
- [Fairness](#fairness)
- [Proofs](#proofs)
- [Where code and documents disagree](#where-code-and-documents-disagree)
- [What is not modelled](#what-is-not-modelled)
- [Plan](#plan)

## The system

| Component | Source | State it keeps | Operations | Talks to |
|---|---|---|---|---|
| Capture hooks | `input/src/win_capture.rs`, `unix.rs`, `lib.rs` | `SUPPRESS` flag, bounded event queue | hook callbacks, `poll`, `set_suppress` | input loop (queue, flag) |
| Edge detector | `input/src/edge.rs` | site, edge, pressure against the seam | `update_local`, `update_remote`, `set_edge`, `force_home` | called by the loop |
| Host input loop | `app/src/inputloop.rs` | virtual cursor, held modifiers, `held_remote`, chord flags; shares `snap_home`, `edge`, `stop` | one turn: snap home, poll, motion, key, stop | hooks, session task (shared flags), peer (UDP, and TCP for edges) |
| Realtime channel | `core/src/realtime.rs`, `app/src/net.rs` | sequence numbers, replay window, shared `inbound_rt` slot | `seal`, `open`, UDP listener, teardown | every session, injector |
| Session | `app/src/net.rs`, `core/src/pairing.rs` | pairing state, peer name, tasks, queues | Hello, trust check, pairing, control messages, ping, disconnect, teardown | peer, dispatcher, trust store, window |
| Dispatcher | `app/src/net.rs` `run`, `route`, `broadcast` | list of session handles, the command being handed out | `Connect`, routing of the window's commands | window, sessions |
| Trust store | `core/src/trust.rs` | map of devices, a file | `load`, `trust`, `revoke`, `save` | sessions, window |
| Clipboard sync | `app/src/clipboardsync.rs`, `clipboard/src/lib.rs` | last text seen | apply the peer's text, poll local changes, stop | session (both ways), operating system |
| Video transport | `video/src/transport.rs` | frame in assembly | `split_frame`, `push` | mirror threads |
| Screen mirror | `app/src/mirror.rs`, `net.rs` | stop flags, video port, shared frame slot | start, stop, send, receive | session, window, peer (UDP) |
| Discovery | `discovery/src/lib.rs` | table of peers, list of manual ones | announced, moved, removed | window, mDNS library |
| Window | `app/src/ui.rs` | rows of peers, pairing prompt, set of shares | buttons, which become commands; draining events | dispatcher, trust store |
| Key maps | `input/src/keymap_win.rs`, `unix.rs` | none | to and from native codes | hooks, injectors |
| Stateless | framing, TLS and PIN, codec, configuration, self-test, logging | | | |

What makes it hard:

- **Threads that outlive their owner.** A session ends while its input loop,
  mirror threads, clipboard thread, reader and writer are between two looks at a
  stop flag or inside a blocking call.
- **State shared without an owner.** `inbound_rt`, `video_frame`, the capturer,
  the `SUPPRESS` flag and the trust store belong to the process, not to a session.
- **Two transports.** Keys and motions travel over UDP, where they are lost,
  duplicated and reordered; control travels over TCP, in order but cut at any point.
- **Queues with a limit.** The window drops a command that finds the dispatcher's queue
  full, the dispatcher waits for a session whose queue is full, and the handles of ended
  sessions stay in its list.
- **Two humans.** Confirm, cancel, unpair and disconnect cross each other and the
  messages they cause.
- **Partial failure.** Saving, capturing, binding a port and setting the clipboard
  all fail on their own, mostly after other state was changed.

What makes each component correct: no captured packet is injected twice and no
fresh one is dropped (channel); local input is suppressed exactly while control is
remote, and what the peer was told is pressed is always known (loop); control does
not flap (detector); trust takes both users and revocation is final (session, trust
store); the two ends of a connection end together (session); a command reaches every session it
is meant for, and what the window shows is true of them (dispatcher, window); the table
lists who is there (discovery); every key arrives as itself (key maps); clipboards agree and do
not ping-pong; frames are whole and move forward (transport); sharing a screen can
always be stopped and no picture outlives its stream (mirror).

## Modules, and how they correspond to the code

| Module | Models | State | One action is |
|---|---|---|---|
| `ReplayWindow` | `ReplayWindow::accept`: shift, mask and bit test | (operators) | |
| `AtMostOnce` | abstract promise of the channel: each packet is delivered at most once | delivered packets | a delivery |
| `RealtimeChannel` | `RealtimeCrypto`, `handle_inbound`'s `RealtimeOpen`, teardown, `spawn_udp_listener` | per session its phase and next number; the shared slot and window; the packet between decryption and injection | a critical section of the listener, a message handled, a teardown |
| `EdgeDetector` | `EdgeDetector`, `entry_point`, the loop's cursor arithmetic | (operators on the detector record) | |
| `HostInput` | the body of `inputloop::spawn` with the hooks, the user, and the session task's flags | event queue, suppress flag, detector, cursor, `held_mods_local`, `held_remote`, chord, shared flags, the session's queue to the peer (`outbox`: room, full or closed) | a hook callback; a turn of the loop is cut where others can change what it reads: at its top, at `poll`, and at each `blocking_send` of `EdgeEnter` and `EdgeLeave`, where it waits (`HandleCrossing`, then `Entered`; `HandleRemoteMove`, then `Left`; `LoopSnapHome`, then `SnappedHome`) |
| `Handover` | abstract promise of the loop: relayed keys are recorded, crossing tells of the modifiers, coming home leaves nothing recorded | site, modifiers held, keys the peer was told of | a key at home, a key on the remote, leaving, returning |
| `KeyMaps` | `vk_for`, `key_for_vk`, `to_enigo_key`, `from_rdev_key` | (tables) | |
| `KeyDelivery` | the datagrams of key events: which are repeated, which are not, and what the injector makes of them | datagrams in flight, native keys pressed on the peer | a send of the loop, a loss, an overtaking, a delivery |
| `Session` | both ends' `run_session` with `PairingState`, dispatcher and window | trust, phase, messages on their way, confirmations, command queues | a message handled, a command handled, a task ending |
| `Console` | `ui.rs`'s buttons and `drain_events`, `net.rs` `run`, `route`, `broadcast`, `accept_loop`, and the command and event side of `run_session` | queues of commands and events, the command being handed out, per session phase and peer, rows, prompt, shares | a click, an event drained, one hand-over of a command, one `await` of a session |
| `Discovery` | `start_mdns` and its browse thread | services on the network, events to be read, table of peers | a change on the network with the event it causes, an event read |
| `TrustStore` | `TrustStore` under several threads and restarts | memory, file, each thread's copy | a lock's critical section, a truncation, a write |
| `Clipboard` | both ends' `clipboardsync` threads and managers | clipboards, last text seen, channels | draining the channel, a poll, a user's copy, of a text (`UserCopy`) or of something else (`UserClears`) |
| `Reassembler` | `split_frame`, `Reassembler::push`, `is_newer` | frame in assembly, chunks in flight | a frame sent, a chunk delivered |
| `Mirror` | `mirror.rs`'s threads and the mirror commands and messages of both sessions | flags held, flags set, thread positions, port, frame slot | a step between two looks at a flag |

`HostInput` uses `EdgeDetector`, `RealtimeChannel` uses `ReplayWindow` and is shown to
implement `AtMostOnce`. `KeyDelivery` is `HostInput`'s output side with a network
under it and `KeyMaps`' table at its end; both implement `Handover`, which is what they
have in common: `HostInput` from the events that come in, `KeyDelivery`, which crosses
and returns whenever it likes, to the datagrams that go out. `Console` is `Session` seen
from inside one program: all its sessions, and none of their messages. `Mirror` treats as one picture what `Reassembler` takes apart. `MC*` modules
give the constants small values; `*Proofs` modules hold theorems.

Abstractions worth knowing:

- A packet is a pair of session and sequence number, and opens only in the session it
  was sealed for. This is the assumption on the cipher.
- The replay bitmap is a function from distance to Boolean rather than a `u64`; shifting
  and testing follow the code, and `Width` is a parameter.
- A screen is a small square, a motion one event with the position the hook reports; the
  position is not tied to earlier motions, as with a user who moves the mouse while the
  cursor is pinned. Wheel events, which touch no state of the loop, are left out.
- `told` in `HostInput` is what the peer has been told is pressed, were nothing lost;
  `streak` is how far the user has pushed away without interruption. Both are history
  variables: no action reads them.
- Of the session's queue to the peer `HostInput` knows whether it has room. It fills up and
  empties at any moment (`Jam`, `Flow`), and closes with the session (`Hangup`); the loop's
  two or three messages are never what fills it.
- In `Session`, `net[p]` is everything on its way to `p`, from the other end's writer
  queue to `p`'s own. A task that goes away takes an arbitrary part of it along.
- In `Console`, `SetEdge` and `SnapHome` are one command `Poke`, which changes nothing there
  but takes its place in the queues. A session whose writer queue is full is `jammed`: the
  peer reads nothing, and the task is inside a `send`. A `Connect` is given a session at
  once, as `run` does; rows of connection attempts, whose fingerprint is empty, matter only
  in that *Apply to connected* sends to them too.
- In `Discovery`, a service is a full name; which names are part of which full names is a
  constant. The daemon of `mdns_sd` is taken to report every announcement, goodbye and
  expiry, in order.
- In `KeyMaps`, a table is a set of runs, each in the order in which Windows numbers it.
- In `TrustStore`, `fs::write` is a truncation followed by a write, either of which may
  be the last thing the process does; a torn file loads as empty, as in `load`.
- In `Reassembler`, a chunk carries the true number of its frame as history; the code
  sees it modulo `Wrap`.

Operators introduced by "Mutant of X" are X with a plausible bug. No specification uses
them. They show that the properties below can fail: replacing X by its mutant makes
the property named for it in `PROJECT.json` false in its run.

## Runs

`tlc -config <cfg> <module>`; `PROJECT.json` has the pairs.

| Run | What it asks | Properties |
|---|---|---|
| `channel` | two sessions that overlap or replace each other, any loss, duplication and reordering | `ChannelInv` (no packet injected twice, the slot is live, only what was sealed is opened), `WindowExact` (a bit is set iff the number was opened), `FreshIsAccepted`, `ImplementsAtMostOnce` |
| `host_keyboard` | the keys of the chord across crossings and homecomings, with a peer that may stop reading | `LoopInv`, `ModifiersTracked` (the loop's lists plus the queue are the user's hands), `RemoteMirrorsKeyboard`, `SnapHomeObeyed` (request and chord bring control home), `ImplementsHandover` |
| `host_pointer` | three edges, corners, changes of arrangement, snap home, stop, with a peer that may stop reading | `ReturnNeedsPush` (no flapping), `StopObeyed` |
| `key_delivery` | do the copies make up for losses, on a client that has one key for both sides of a modifier, and do the tables agree? | `HomeReleases`, `PeerFollows`, `TablesAgree`, `ImplementsHandover` |
| `session` | connection, pairing, control, unpairing, break and restart in every order | `SessionInv`, `RevocationReachesSession`, `DrivenOnlyByTrusted`, `PairingIsInStep`, `TrustNeedsBothUsers`, `EndsTogether`, `DisconnectObeyed` |
| `console` | window, dispatcher and two sessions of one peer, queues at their limits | `RevocationRouted`, `ConnectedIsTrue`, `SharingIsKnown`, `UnpairEndsSession` |
| `discovery` | services that are renamed, move, leave with and without a word | `TableIsCurrent` (who left is forgotten), `OwnNameStaysListed` (who stays is not) |
| `trust_store` | three threads, failing saves, restarts | `StoreInv`, `SerialSavesPersist` |
| `clipboard` | do the clipboards agree, and do they stop talking? | `EchoIsBounded`, `AgreeAtRest`, `ComesToRest` |
| `reassembler` | are frames whole and unmixed across a wrap-around? | `FramesAreWhole`, `AssemblyIsPure`, `NewerFramesOnly` |
| `mirror` | can sharing always be stopped, and does the screen end up empty? | `MirrorInv`, `SharingIsStoppable`, `PictureHasReceiver`, `QuietAfterStop` |
| `session_pair_again` (violated) | can a device that unpaired pair again? | `CanPairAgain` |

What they show beyond a yes:

- `channel`: the gap between decrypting under the lock and injecting outside it
  (`net.rs:794-809`) delivers a packet of a session that has just been torn down, never
  one twice.
- `host_keyboard`: the lists stay right because the loop updates `held_mods_local` in both
  sites. Both mirror properties are conditional on no event having been dropped by the full
  queue: after a drop they are false by design of the queue.
  `SnapHomeObeyed` counts the chord from the moment its last key is in the queue, whatever
  else is queued before and behind it; when the hooks drop that key, there is no chord. It has
  one exception, which the code has too: local input is suppressed before `EdgeEnter` is sent
  by `blocking_send` (`inputloop.rs:147, 157`), and while the session's queue of 256 is full the loop
  looks at neither flag nor event. If the peer never reads again, only the end of the session
  brings control home (`Stranded`; without the exception, `SnapHomeAlways` is refuted).
- `host_pointer`: `StopObeyed` has no such exception: the teardown that sets `stop` closes
  the queue (`net.rs:666, 680`), and the wait ends in an error that the loop ignores. `ReturnNeedsPush` holds
  although `edge` may change at any time.
- `session`: the property that needs most of the model is `RevocationReachesSession`:
  unpairing removes trust first and queues the Disconnect afterwards, and the trust check
  of a connection being set up falls anywhere in between. It holds because the fingerprint
  is in the routing slot before trust is looked up. `Session` assumes that the window's
  command reaches the dispatcher; `Console` does not.
- `console`: `RevocationRouted` is the same promise with every queue at its true behaviour
  and several sessions with the peer, one of which may be waiting to be greeted when the
  command passes. It holds until the window drops a command, and no longer.
  `SharingIsKnown` holds because a `Stop` is handed to the same sessions, in the same order,
  as the `Start` before it.
- `discovery`: a renamed device comes back under the key it had while the record of its old
  name is still to lapse. The table is right as long as no name is part of another's.
- `key_delivery`: the two sides of a modifier share a key of a Unix client, so that a late
  copy of one's release undoes the press of the other; `overtaken` counts such pairs too.
  `TablesAgree` compares the tables on the whole keyboard; it would be an assumption, were
  it not that an error in a table shows as a violated property this way.
- `trust_store`: saves that overlap may lose each other's changes; the strongest thing that
  holds is that an operation that ran alone and did not fail is durable.
- `clipboard`: agreement needs the exemption of texts that cross: the code then swaps them. A
  user who copies an image, or empties the clipboard, keeps that to this side: `poll_local_change`
  ignores it, and `cleared` is the exemption for it until the next text arrives.
- `mirror`: a thread may store a picture after its session cleared the screen; it is the
  final clearing of the thread itself, before it gives up the port, that makes the screen
  end up empty. A mirror restarted within the read timeout finds the port bound and shows
  nothing; `Bind` contains this.

Deadlock is checked except where the system stops: in `channel` (sessions and sequence
numbers run out), `clipboard` (both threads stop), `console` (every session
has ended and the user stops clicking), `reassembler` (frames run out).

## Bounds

| Run | Bound | Why it is enough |
|---|---|---|
| `channel` | 2 sessions, `Width` 3, numbers 0 to 5 | jumps below, at and beyond the width; one session replaced by another in every order. The proofs lift all three. |
| `host_keyboard` | queue of 2; 3 keys, which are the chord; 1 edge, 1 motion, screen of 1 step, `Hysteresis` 1 | the chord is three events and its last one waits behind another, or behind a crossing; the one motion crosses at home and pushes home on the remote. 745,884 states. The safety properties are proved for any values, mouse buttons included, which this run leaves to `MCHostStuckButton.cfg`. |
| `host_pointer` | queue of 1; no keys; 3 edges, 8 motions, screen of 2 x 2, `Hysteresis` 2 | a pair of opposite edges and one across, and corners at two edges at once; two steps of pressure make accumulation visible. `ReturnNeedsPush` is proved for any values. |
| `key_delivery` | 2 copies, 1 loss, 1 overtaking, 4 datagrams in flight; 3 keys, of which 2 are sides of one modifier | one loss fewer than copies, as with 3 and 2; two bursts fit in flight. Proved for any values with fewer losses than copies. The tables are complete. |
| `session` | one connection at a time; one ping and its answer in flight | connections are unbounded in number. Every message type and every order of the two ends occurs. There are no constants to lift but the names of the two. |
| `console` | 1 peer, 2 sessions, 3 clicks; 2 commands for the dispatcher, 1 per session, 2 events | two sessions of one peer are what the properties are about, since sessions of different peers meet only in the queues; with one more click than the queue has room the window drops one. `RevocationRouted`, `ConnectedIsTrue` and `SharingIsKnown` are proved for any values. |
| `discovery` | 5 services of 4 devices, 2 addresses, 2 events to be read | a renamed device, one whose name is its own, one without a fingerprint, and this one. Proved for any values. |
| `trust_store` | 3 threads, 2 devices | a save can be overlapped twice; a revoked and a kept device. Proved for any values. |
| `clipboard` | 3 texts, 2 copies and 1 failure per end | two texts in flight each way. `EchoIsBounded` and `AgreeAtRest` are proved for any values. |
| `reassembler` | `Wrap` 12, `Lag` 2, 14 frames of 1 to 3 chunks | one wrap-around; the assumption `2 * Lag < (Wrap - 1) \div 2` keeps the ratio of delay to number space that 2^32 has in practice. Proved for any values that satisfy it. |
| `mirror` | 2 mirrors, 2 messages in flight, any number of sessions | an old and a new thread at each end. The proofs lift both. |

`Copies`, `Width`, `Wrap`, `RawHysteresis`, `QueueCap` and `InboxCap` (of `Console`) stand for
3, 64, 2^32, 25, 64 and 16 in the code; every
other number above is a bound of the model.

## Fairness

Only what a scheduler gives is assumed; never that a user acts, that the network
delivers a datagram, or that a connection breaks.

- `HostInput`: strong fairness of the loop. `poll` has a timeout of its own
  (`inputloop.rs:131`), so that the loop turns without input; while it waits for room in the
  queue to the peer, it is enabled whenever there is room, and the queue serves those who
  wait in the order they came (tokio's semaphore), so that room which comes again and again is
  enough. That there is room is not assumed: nothing makes the peer read. Weak fairness of
  `Hangup` once `stop` is set: the teardown waits for nothing between the two (`net.rs:664-681`).
- `Session`: weak fairness, per end, of the session's tasks, the ping timer, the end of the
  session on EOF or command, and the dispatcher. `tokio::select!` picks among ready
  branches at random, hence the separate conjunct for commands.
- `Console`: weak fairness of the window's draining of events (it repaints every 200 ms,
  `ui.rs:316`), of the dispatcher, and of what each session does by itself. `UnpairEndsSession`
  is about behaviours in which, from some point on, no peer is silent and nothing was dropped.
- `Clipboard`: weak fairness of each thread, which sleeps 400 ms between turns.
- `Mirror`: weak fairness of each thread, and of the viewing session's handling of messages.
- `RealtimeChannel`, `KeyDelivery`, `TrustStore`, `Reassembler`, `Discovery` have safety properties only.

## Proofs

`tlapm <module>`. Every theorem holds for all values of the constants under the `ASSUME`s
of the modules, which TLC evaluates in the runs above.

**`RealtimeChannelProofs`**: `ChannelInvariant` (`Spec => []ChannelInv`),
`WindowIsExact`, `FreshPacketsAreAccepted`, `ChannelImplementsAtMostOnce`. The invariant
needs `WindowExact` for `NoDoubleInjection`, `OnlySealed` to know that a session whose slot
is newly filled has opened nothing, and `SlotIsLive` to know that its window starts afresh.
The lemmas on `Accepts` and `Accepted` carry the arithmetic of the shift. Assumed:
`Width` is positive, sequence numbers are bounded by any natural.

**`HostInputProofs`**: `LoopInvariant` (`Spec => []LoopInv`), and from it
`SuppressionIsExact` (suppressed iff remote, and not after the end), `NoKeyIsForgotten`
(`held_remote` is what the peer was told), `ReturnIsSustained` and `LoopImplementsHandover`
(`Spec => ImplementsHandover`: each step maps to a step of `Handover` or a stutter, where control
counts as remote once the loop has told the peer; the crossing itself is a stutter). `LoopInv` is inductive as
it stands: a type invariant and three conjuncts, each of which an action disturbs only
together with what it relates to; they say of each place where the loop waits what it has done
already and what it has still to do. `ModifiersAreTracked` and `RemoteKeyboardIsTrue` compare
the loop's lists with the user's hands, and between the two is a queue of any length. Their
invariant (`KeyboardInv`) needs no induction along it: of each key, either the last event in
the queue is true, or there is none and what the loop knows is true. An event read, be it the
last word or not, hands its truth over to the lists. Assumed: the edges and motions are those
of their types, the queue has room for one event.

**`KeyDeliveryProofs`**: `KeysFollowHandover` (`Spec => ImplementsHandover`), `PeerLetsGo`
(`HomeReleases`) and `PeerHoldsWhatIsHeld` (`PeerFollows`). The invariant (`KeyInv`) says of every native key
that the network was fair to that the wire's last word on it agrees with the loop's list, and
that this word cannot be silenced: the run of datagrams that ends the wire and says it has one
that was sent once, which the network may not lose without being called unfair to that key; or
it has more datagrams than losses are left; or there is nothing
else about the key on the wire and the peer already does as it says (`Backed`). A loss takes one
from the run and one from the losses; an overtaking is unfair, or exchanges datagrams about
different native keys, and leaves every run as it was; a delivery shortens a run only when
nothing else is in front of it, and then the peer does as it says. The lemmas on `Run` state
this, those on `Burst` that a transition sends each key `Copies` times. Both theorems on the peer have
the hypothesis `MaxLosses < Copies`. It is the point of sending copies, not a convenience:
with as many losses as copies `HomeReleases` is false. The code sends 3 copies, and the run has 1 loss
for 2. Nothing is assumed of the keys but that they are finitely many, nor of the table, the
number of overtakings and the room on the wire.

**`SessionProofs`**: `SessionInvariant` (`Spec => []SessionInv`), `RevocationIsHeard`,
`NoActionBeforeTrust`, `TrustTakesBoth`, `PairingStaysInStep`. `ConfirmationsAreReal` is what
makes `TrustTakesBoth` inductive: a confirmation that has been received or is on its way
belongs to the sender's user and to this connection. `PairingStaysInStep`
(`PairingIsInStep`) needs the shape of both streams (`InStepInv`): whatever an end that took
part in the pairing sends once it is active has that end's confirmation in front of it, and
goes to an end that has itself confirmed. Assumed: the two devices differ.

**`PeersProofs`**: `StoreInvariant`, `SavesPersist` of `TrustStore`. `SerialSave` is the
strengthening: while an operation runs alone, its copy is the memory. `TableStaysCurrent`,
`OwnNamesStay` of `Discovery`. The strengthening for the first
speaks of every position of the queue: what is listed, or is yet to be, is true or will be
contradicted by an event behind it (`Fresh`). For the second, a
service that is there is listed, or its announcement is queued, with nothing behind that
displaces it (`ListedBy`): what could would be of the same device, or of one whose name
contains its own; but a device runs one service, and what runs does not lapse (`Apart`).
Assumed: a name is part of its own full name.

**`CarriedProofs`**: `MirrorInvariant`, `SharingCanBeStopped`, `PicturesAreOwned` of `Mirror`. The
invariant adds that one thread at a time holds the port (`ThreadsKeepApart`) and that a
`StartMirror` on its way is for a thread that does not exist yet (`StartsAreFresh`), without
which a new thread could be taken for one that shows a picture. `EchoesAreBounded`,
`ClipboardsAgreeAtRest` of `Clipboard`. Agreement is about two ends at
rest, and so says nothing of the way there. `ClipInv` adds that as long as no texts have
crossed only one direction carries any, that the newest of these is what its sender
saw last, and that with none on its way both ends saw the same last (`Follows`); and that a clipboard
that had a text has one, unless setting it failed or its user took it away (`KeepsText`). Assumed: the two
ends differ, and the bounds are naturals.

**`ConsoleProofs`**: `TypeCorrect`, `RevocationIsRouted`, `ConnectedRowsAreTrue`,
`SharingIsAlwaysKnown`.
`RevocationRouted` alone is not inductive: a session past its peer's Hello must have its
slot set (`Slotted`), or a Disconnect could pass it by. `ConnectedRowsAreTrue` rests on `ConnectedIsTrue` being inductive over that, by lemmas on
what appending an event makes the window say. `SharingIsAlwaysKnown` follows a word, a
`Start` or a `Stop`, from the window's queue through the dispatcher's hands to the inbox of each session
(`ShareInv`): the toggle is the last word of its queue (`ToggleSaid`), and a session to which
no more words are coming will share only if the toggle says so (`SharesAsSaid`). That a word is in
hand only for sessions of the peer it is about (`WordsOf`) makes this inductive. Assumed: peers are finitely many, a session's
inbox has room for one command.

**`ReassemblerProofs`**: `CompletedFramesAreWhole`, `FramesNeverMix`, `NewerDisplaces`. The
invariant (`RInv`) keeps the chunks on the way and the frame in assembly within `Lag` of the
newest frame, hence within `2 * Lag` of each other, and there the numbers modulo `Wrap` tell
frames apart and put them in order (`IdsTell`). Assumed: `2 * Lag < (Wrap - 1) \div 2`, and
that a frame has a chunk.

Two components share a module of proofs where they are of one kind and neither takes many:
`PeersProofs` is what this machine knows of others, `CarriedProofs` what a session carries besides
input. One of each pair therefore names its specification after itself: `StoreSpec`,
`ClipboardSpec`. All in all there are 36 theorems and 246 lemmas.

Every safety property of a passing run is thus a theorem, but one. Model-checked only are:

- liveness (`SnapHomeObeyed`, `StopObeyed`, `EndsTogether`, `DisconnectObeyed`,
  `ComesToRest`, `QuietAfterStop`, `UnpairEndsSession`): the proof system does not reason about fairness here;
- `TablesAgree`, which is about two fixed tables: TLC looks at every row of them, and a proof
  would do no more.

## Where code and documents disagree

One disagreement is a run of its own, with the counterexample TLC finds:

- **`session_pair_again`**: one side unpairs, the other still trusts it. On reconnection the
  other skips pairing, and its `SetMode`, `RealtimeOpen` or `Ping` ends this side's pairing as
  unexpected (`net.rs:491`). `SECURITY.md:47-48` says the device must pair again to reconnect, which
  takes for granted that it can.

The following were met on the way. Each is stated in its module, under "What the
documents and comments say", and TLC refutes it with the configuration in the second
column, where "in" means: with the statement put in place of its properties (an
`INVARIANT`, or a `PROPERTY` where the statement is temporal).

| Statement | Configuration | What happens |
|---|---|---|
| `NoKeyStuckAfterStop` | `MCHostStuckKey.cfg` | a session that stops while control is remote lifts the suppression and exits; `held_remote` is not released (`inputloop.rs:252-255`). `docs/manual-test-checklist.md:43-44` says a dropped connection leaves no input stuck |
| `RevocationPersists` | `MCTrustRevoke.cfg` | `save` copies under the lock and writes outside it (`trust.rs:96-99`), so a slower save of an older copy puts a revoked device back |
| `LiveSessionCanInject` | `MCRealtimeSlot.cfg` | the teardown of an old controlled session clears the slot a newer one has filled (`net.rs:677`) |
| `NothingStuckAtHome` | `MCHostStuckButton.cfg` | a mouse button held while control comes home stays pressed: `held_remote` tracks keys only (`inputloop.rs:239`) |
| `SnapHomeAlways` | in `MCHostKeyboard.cfg` | a crossing suppresses local input and then waits for room in the queue to the peer; while the peer reads nothing, neither the chord nor the window's request is looked at (`inputloop.rs:147, 157`). `docs/manual-test-checklist.md:29` says snapping home instantly returns control |
| `WindowShowsSite` | in `MCHostPointer.cfg` | snap home and stop send no `ControlOnRemote(false)` (`inputloop.rs:127, 254`) |
| `LandsOnOneSide` | in `MCHostKeyboard.cfg` | an event queued behind the crossing motion is seen by both machines (`win_capture.rs:422`) |
| `ReturnsWhereEntered` | in `MCHostPointer.cfg` | changing the arrangement while remote moves the seam (`inputloop.rs:190`) |
| `EntersOppositeSide` | in `MCHostPointer.cfg` | the arrangement is read twice in one turn (`inputloop.rs:146`) |
| `OneLossStrandsNoModifier` | `MCKeyLoss.cfg` | a relayed release has one copy and leaves `held_remote` at once (`inputloop.rs:248`) |
| `HeldIsPressed` | `MCKeySides.cfg` | with both Shifts held, releasing one lifts the only one a Unix client has (`unix.rs:238`) |
| `RawNeverForeign` | `MCKeyRaw.cfg` | a raw code, "same-OS fallback only" (`protocol.rs:236`), is pressed as the virtual key of that number (`keymap_win.rs:135`) |
| `UnpairNeverLost` | in `MCConsole.cfg` | the window drops the Disconnect of an unpairing when the queue is full, and the session goes on (`ui.rs:119`) |
| `CommandsFlow` | in `MCConsole.cfg` | `route` waits for a session whose peer is silent, and with it the commands of all others (`net.rs:269`) |
| `DeadHandlesPruned` | in `MCConsole.cfg` | `route` "prunes dead handles" (`net.rs:255`) says the comment; it sends to them (`net.rs:269`) |
| `PromptShown` | in `MCConsole.cfg`, two peers | a second prompt overwrites the first (`ui.rs:156`) |
| `PromptIsCurrent` | in `MCConsole.cfg` | a peer that breaks off leaves its prompt standing (`net.rs:491`) |
| `ToggleOffered` | in `MCConsole.cfg` | the end of one of two sessions hides the share toggle of the other (`ui.rs:148`) |
| `SharingIsTrue` | in `MCConsole.cfg` | the set of shares is not told of a session's end (`ui.rs:453`) |
| `EachAppears` | in `MCDiscovery.cfg` | the departure of "PC2" removes "PC" (`discovery/src/lib.rs:146`); `docs/manual-test-checklist.md:15` says each device appears |
| `CancelLeavesUnpaired` | `MCSessionCancel.cfg` | a cancellation crosses the confirmation that completes the other side (`net.rs:510`) |
| `ReconnectControls` | `MCSessionReconnect.cfg` | a process can start its capturer once (`win_capture.rs:70-72`, `unix.rs:288-290`) |
| `ReaderEnds` | `MCSessionReader.cfg` | the reader of a cancelled pairing waits as long as the peer says nothing (`net.rs:447`) |
| `RestartKeepsTrust` | `MCTrustRestart.cfg` | a process that ends between truncation and write loses every pairing (`trust.rs:97`) |
| `NeverEchoes` | `MCClipboardEcho.cfg` | `last_seen` is set before `set_text`, which may fail (`clipboard/src/lib.rs:41`) |
| `ShowsForward` | `MCReassemblerStale.cfg` | between frames any chunk starts one, also an old one (`transport.rs:77`) |

## What is not modelled

- **Queue capacities** between session, reader and writer (256 messages each):
  `Console` lets a session be stuck for want of room there, and `HostInput` its input loop, but
  neither says why there is none. The window's and the dispatcher's queues are modelled.
- **More than one session at a time** as far as their messages go: `Console` has the sessions
  of one program, `RealtimeChannel` the slot they share, `Session` one connection.
- **Silence without an error**: neither pairing nor ping has a timeout; the models let a
  broken connection be noticed.
- **The cursor on the peer**: `EdgeEnter` over TCP against motions over UDP.
- **The host's own view of a key** that is pressed at home and released while suppressed.
- **Left and right control keys** share one flag in the chord detector; the configurations
  have one of each. A frame of more than 65535 chunks, whose count is cut to a `u16`.
- **The list of manual peers**: `set_manual_peers` has no caller, the list stays empty. The
  comment of `peers` (`discovery/src/lib.rs:161`) says that manual peers win on an address
  collision; the code keeps the discovered one. No run can show it, since the program
  does not get there.
- **The self-test**, a command that reaches no session, and the round-trip times.
- Framing, certificates, hashing, codecs, drawing, configuration: stateless, or glue to
  libraries and operating systems.

## Plan

Done, in this order: realtime channel and its proof; input loop and its proof; key
delivery; session and its proof; trust store and its proof; clipboard; reassembler; mirror and
its proof; `Handover` and its two implementations; the key maps; window and dispatcher
(`Console`) and their proof; discovery and its proof; the
reassembler's proof; the proofs of what a queue stands between: the loop's lists and the user's
hands, the two ends of a pairing, the window's toggle and the sessions, the clipboards, the
datagrams and the peer's keys.

Next:

1. `Queues`: the 256-message queues between the tasks of two sessions, for the
   deadlock of two ends that send while neither receives.
2. `Cursor`: placement on the peer with two transports.
3. `Session` with several connections at once, as the far side of `Console`.
4. A composition of `HostInput` and `KeyDelivery`, whose theorems meet at the loop's lists, into
   one statement about the user's hands and the peer's keys; likewise `Session` under `Console`.
