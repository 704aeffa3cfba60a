# A verification project for WaylandWithoutBorders

`src/` is a Linux client of Mouse Without Borders (MWB): one keyboard and mouse
drive a Linux and a Windows machine over an encrypted TCP link, in both
directions, and the clipboard follows. These modules model the parts of it in
which several goroutines, two machines and two windowing systems must agree on
small pieces of state. TLC checks them on small instances; TLAPS proves their
safety properties for every value of the constants.

To repeat a run: `tlc -workers 2 -config CaptureX11_race.cfg MCCaptureX11.tla`;
to repeat a proof: `tlapm CaptureX11_proofs.tla`. `PROJECT.json` lists the
runs, a mutant for each property (a plausible bug that breaks it), the source
lines behind every definition, and the hazards the properties are for.

## 1. The system

### Parts

| part | source | state | operations |
|---|---|---|---|
| Connection loop | `cmd/mwb/main.go` 113-268 | one connection, one capturer, one clipboard manager at a time; a handler that outlives them | race outbound and inbound connections, start the managers, `ReceiveLoop`, tear down, repeat; exit on a signal |
| Connection | `network/client.go`, `protocol/stream.go` | packet counter, `sendMu`, both CBC chains | handshake, `SendPacket`, `SendPackets`, `Close`, listener |
| Liveness watch | `network/receiver.go`, `sendq_*.go` | time of the last packet received, the send queue at the last tick | heartbeat tick, the two half-open detectors, receive loop |
| Inbound handler | `network/handler.go` | the Ctrl held back for AltGr, the tracker of the remote's cursor; it outlives connections | one method per packet type |
| Virtual devices | `input/uinput.go` | the keys held (`pressed`) | `KeyDown`, `KeyUp`, `ReleaseAll`, mouse motion and buttons |
| Capturer, X11 | `capture/capture_linux.go` | who owns the pointer, the remote cursor, both return gates, the cache of disabled devices, the hotkey's flags | edge poller, one goroutine per device, hand-backs, `Stop` |
| Capturer, Wayland | `capture/portal_wayland.go`, `ei_cgo.go` | the portal session, activation id, the modifier state | signal loop, libei loop, one goroutine per gated activation, `stop` |
| Clipboard | `clipboard/clipboard_linux.go` | hash of the last content of each kind, echo window, receive buffers, local file | poller, senders, `OnPacket`, `Stop` |
| File transfer | `clipboard/filetransfer_linux.go` | a listener per connection, the file that is offered | serve, pull, push |
| Key maps, wire format, configuration, GUI, macOS input, packaging | the rest | constant tables and files | pure conversions and I/O |

### How they interact

`ReceiveLoop` reads a packet and calls the `Handler`, which writes to the
virtual devices, or calls back into the capturer (`ShouldReclaim`,
`ShouldActivate`, `OnActivated`, `OnReclaimed`), or the clipboard manager. The
capturer, the clipboard poller and the heartbeat all send on the same
connection. When the loop ends, main releases the held keys, stops the
capturer, stops the clipboard, closes the connection, in that order, and starts
over; each `Stop` must leave nobody behind who still sends.

### What is hard about it

* The ownership of the pointer is one Boolean that the poller, every device
  goroutine and the receive loop test in one critical section and act upon in a
  later one. Under X11 it is coupled to devices switched on and off by an
  external command; under Wayland to a capture that the compositor holds.
* The local pointer sits at the shared edge after each hand-back, so a crossing
  must be gated; the virtual remote cursor lags behind the real one, so the way
  home must be gated too, by two gates with different margins.
* CBC makes the order of encryption and the order on the wire one obligation.
* A dead peer does not close its connection, and a peer that reads nothing
  still sends.
* What arrives from the remote's clipboard changes the local clipboard, which
  the poller would take for a local copy and send back.
* AltGr arrives as two packets and other packets may come in between; keys and
  buttons go down here and their releases may go elsewhere.
* The two machines dial each other at the same time; the attempt that loses the
  race is still under way when its turn is over.
* A file stream is made of cipher blocks, its size of bytes, and the file may
  change, or be pulled twice, while it is sent.

For each part, the properties that make it correct are in section 3; the
hazards of `PROJECT.json` give each of these its line.

## 2. The plan

Order: the virtual cursor, because both capturers stand on it; then the X11
capturer; then what shares the connection with it; then the second capturer,
composed with the first module; then what makes and ends connections, the other
half of the handler, and the files.

| | module | model | proofs |
|---|---|---|---|
| 1 | `RemoteCursor` | done | done |
| 2 | `CaptureX11`, refines `RemoteCursor` | done | done |
| 3 | `InboundKeyboard`, `InboundMouse`, composed by `Inbound` | done | done |
| 4 | `SendPath` | done | done |
| 5 | `Heartbeat` | done | done |
| 6 | `ClipboardSync` | done | done |
| 7 | `CaptureWayland`, composes and refines `RemoteCursor` | done | done, `NoFrozenPointer` and `StopNotStuck` in a form without `ENABLED` |
| 8 | `Link`: connection set-up and the connection loop | done | done |
| 9 | `FileTransfer` | done | done (`Clipboard_proofs`, with those of `ClipboardSync`) |

Abstract specifications: `RemoteCursor` is that of `CaptureX11` and of
`CaptureWayland` (`ImplementsRemoteCursor`), and `InboundKeyboard` that of `Inbound` as far as keys
go (`ImplementsKeyboard`). Worth stating next: one owner per pointer for both
capturers.

## 3. The modules

In every module a definition marked `mutant` is a plausible bug that no other
definition uses; it takes the place of the one after it in a mutant run.

### RemoteCursor: the virtual cursor of the capturer

State: `active` (Linux owns the pointer), `activeEdge`, `remoteX/Y`, the carry
`accX/Y`, `canReturn`, all of `Capturer`, plus histories of the visit. Units are
grid units of the remote's 0..65535 and `Frac` sub-units, the carry's
resolution; the code's `float64` scaling of a motion into grid units is
abstracted to the number of sub-units. Actions are the critical sections of
`Capturer.mu`: `EnterRemoteEdge` (also the end of `pollCursorEdge`), `Motion`
(`addMotionLocked`, `clampRemoteLocked`, `afterMotionLocked`) and `SetActive`, which
every way home ends in. The gates `AcceptsActivation` and `ReturnArmed` are
operators of their own.

Run `cursor` (four edges, `NormMax = 7`, margins 3 and 1, `Frac = 2`; motions
that stop short of, on and past each margin, both signs, and fractions that
leave a carry). The margins keep the order the code's constants have, and 7
leaves room for positions inside both margins, between them and outside, on
both sides, which is all the guards tell apart.

* `NoMomentumBounce`: the momentum of a crossing does not bring control straight
  home, and no visit uses a gate armed in another. It rests on
  `ArmedOnlyWhenFar`, which is proved (`ArmedFar`).
* `EdgeIsNeverDeaf`: at the return edge, whenever motion did not bring control
  home, the remote's hand-back would be accepted. The gates use
  different margins and the high edges are hit one unit early, so this is a
  matter of off-by-ones.
* `HandBackNeedsTravel`: the gate for hand-backs opens only after the user moved
  back the distance between the margins.
* `NoMotionLost`: position and carry add up to what was moved, through
  truncation toward zero and changes of sign, until something is clipped.

### CaptureX11: the X11 capturer

`Poll` is `pollCursorEdge`, a member of `Devs` is one `monitorDevice`, `Main` is
the receive loop and then `Stop` and `Close`. One action is one
critical section of `mu`, one `xinput` command, or one packet sent; `mu` is a
variable only where it is held across a send (`sendMouseLocked`). What the X
server has disabled (`xoff`) and the cache `disabledXinputIDs` (`disabledIDs`) are
separate variables: that they diverge is the hazard. A capturer may start with devices
that an earlier one left off (`LeftOff`), which its cache does not name. A listing may
fail or leave devices out; the commands that switch one device are taken to succeed.
The local pointer is not modelled: a poll reads any position.

Runs. `x11_race` has two devices that share an X id, motion and wheel, listings
that may fail, poller, hand-backs and teardown: two device goroutines are the
least that race with each other for a hand-back, and one X id already separates
list, store and disable. A listing that leaves out a floating slave is, with one
id, one that fails. `x11_live` is one device with buttons, the wheel and the
hotkey's keys under fairness, whose device may have been left off before. One axis
with `NormMax = 5` is enough here: `RemoteCursor` covers the arithmetic.

* `DevicesFollowOwnership`: while nobody is switching devices, none is off if Linux
  owns the pointer or `Stop` is done, and the cache names exactly those that are
  off, whatever the listings left out. Excused (`astray`): devices that were left off
  before, and an activation that ran into a crossing. If listings are complete, as in
  `x11_live`, the next crossing that no activation runs into ends the excuse, and its
  hand-back or `Stop` has to bring everything back.
* `CrossNeedsAway`: a crossing happens only after the pointer was read away from
  the edge since control came home, whoever brought it.
* `AtMostOneLateEvent`: no device forwards more than one event after control
  came home: the ownership test and the send are separate critical sections.
* `DrainedBeforeClose`: no poller and no device goroutine outlives `Stop`.
* `StopTerminates`: `Stop` ends, whatever crossing or hand-back it meets.
* `ImplementsRemoteCursor`: every step is a step or a stutter of `RemoteCursor`'s
  `CursorSpec` with one edge, no carry and one axis: whatever the goroutines do
  between their critical sections, the cursor takes no other steps.
* `TeardownAlwaysRestores` (run `x11_teardown`) is what `Stop`'s comment says and
  does not hold; see section 6.

Fairness: strong for the poller, each device and the teardown. Each competes
for `mu` and for a `select` of several ready cases; Go's mutex hands over to a
starved waiter after 1 ms and its `select` chooses at random. No packet, event or
hand-back has to come.

### Inbound: handler, virtual keyboard and virtual mouse

`InboundKeyboard` has the keys, `InboundMouse` the mouse, and `Inbound` composes
them as `HandlePacket` does: one stream of packets, one session, and a Ctrl held
back is flushed by every packet that is no key.

Keys: `Plain` keys and the four modifiers arrive as down, up and repeat. State:
the handler's `pendingCtrl`, `pendingCtrlCode` and `suppressCtrlUp`; of the device,
the map `pressed` of `VirtualKeyboard` and what the kernel has down (`kernel`); and
the remote: whether its cursor is here, the keys its user holds, the packets of
a stroke still to come.

Mouse: one axis of the remote's absolute positions; the other axis enters the
test for a jump, so each packet says whether it jumped. State: the tracker (`inX`,
`lastInX`, `inSeeded`), the device's position and buttons, the buttons the remote's
user holds. A write may fail, and a move that fails takes its button with it.
The wheel has no state: it is a packet that flushes.

Sessions: an accepted `MachineSwitched` starts one, a rejected one does not; a
`HideMouse` and the end of the link end one. The handler is the same for the next
connection.

Run `inbound` lets each behaviour have one of several users: one of five keys
(one plain, both Ctrls, right Alt, AltGr), one who uses Ctrl, a key and two
buttons, and one who moves everywhere at gain 1 or 3/2. A full product would
multiply states and show no other interaction: what the devices share is the
flush and the session. Seven positions and a threshold of two have room for
motion below, at and above the threshold and for clamping at both ends. A
second plain key would be treated as the first.

* `TrackedKeys`: `pressed` is what the kernel holds, whatever writes fail, until
  a release itself fails (`ReleaseAll` forgets before it writes).
* `NothingHeldAway`: with the cursor elsewhere or the link down, no key is down
  and no chord is half built.
* `NoStuckKey`: between strokes, a key is down only if the remote user holds a key
  that produces it. Excused: failed writes, and a Ctrl that was down while the
  release of a Ctrl was about to be dropped, which may then be the wrong one.
* `CtrlGoesFirst`: a Ctrl that is held back is down before any other key or any
  button goes down.
* `ButtonsFollow`: a button is down only if the remote user holds it. Excused
  (`stranded`): buttons that were down when a session ended, which nothing
  releases, and releases that were not written.
* `EntrySnaps`: each session starts where the remote's cursor enters, whatever an
  earlier one left in the tracker.
* `NeverFlies`: the pointer stays on the screen, and a packet moves it to where the
  remote reports its cursor or by no more than the scaled threshold.

### SendPath: one encrypted connection

Threads take packet numbers (an atomic load, store and add), take `sendMu`,
encrypt (which moves the chain), write, and unlock; a batch does it for all its
packets under one lock; `Close` races with them. State: `nextID`, `sendMu`, the
CBC chain as a count of encryptions, and the wire. Run `sendpath`: one sender, one batch of three,
one closer, with the wrap-around one packet away and writes that may fail. A
batch of three shows an interruption at the start and in the middle.

* `ChainIntact`: packets are on the wire in the order they were encrypted,
  until a write fails.
* `BatchContiguous`: nothing falls between the packets of one batch.
* `IdsPositive`: a packet number is positive, though the wrap-around races.
* `CallsReturn`: each send ends. Fairness: strong per thread, as the mutex is not
  starved and a write has a deadline of 500 ms.

### Heartbeat: receive loop and half-open detectors

Discrete time. The heartbeat ticks each `Interval`, up to `MaxDelay` late; a peer
may fall silent, stop reading, or both, at any time. Run `heartbeat`: interval 2,
timeout 6 (the code's ratio of 5 s to 15 s), delay 1, a queue of 8: with less, a
queue that nobody empties is full, and the heartbeat's own send fails, before
the tracker's timeout, and the tracker would never decide anything.

* `SilentPeerCaught`, `StalledPeerCaught`: a watched connection was never silent,
  or its queue never left untaken, for longer than the timeout plus one
  interval, or two, and their delays.
* `NoHungLink`: once the heartbeat goroutine gives up, the receive loop returns.
  Fairness: weak for each step of the program and for time; none for the peer.

### ClipboardSync: the clipboard manager

Contents are model values with a hash, a kind and a number of chunks. The poller
reads, hashes, confirms and starts a sender; `OnPacket` collects chunks, decodes,
sets the clipboard and marks it as set; files are pulled; an ask is answered;
`Stop` waits. A local user copies at any time. The history `last` is the content that
`lastHash` stands for, and its fate: the remote has it, it is due to be sent, or its
only send was refused for its size or failed (`dropped`).

Run `clipboard`: a local user with a text, an image and a file, a remote one with two
texts, an image and a file. The local text has the hash of one of the remote's, and
the local image that of the tail of a remote stream, as the code's hashes keep a
length and at most 100 bytes. A receive buffer of one chunk takes one of the remote's
texts whole, and not the other text or the image. Two copies and two arrivals are the
least for an arrival to meet another and a copy in between.

* `NoEcho`: what came from the remote is not sent back, unless it met a poll or
  another arrival under way (`dirty`).
* `CopyIsSent`: what the local user copied and left alone gets to the remote. The code
  breaks this in two ways, which the property names: the copy has the hash of another
  content and looks unchanged (`Mistaken`), or its only send was dropped (`Dropped`).
* `NeverForgotten`: a copy that the remote lacks and that looks unchanged to the poller
  is in the hands of a goroutine about to send it, or is one of those two.
* `SendsDrained`: once `Stop` returned, the poller and the senders it started are gone.
  The goroutine that answers an ask is in no wait group and may still be sending.

Fairness: weak for the poller, senders, pulls, the end of the echo window and
the wait of `Stop`; strong for the poller's exit, which is one case of a `select`.

### CaptureWayland: portal and libei

The composition of `RemoteCursor`'s operators (instance `RC`) with the portal:
`sig` is `signalLoop`, `ei` is `eiLoop`, `Gates` are the `gatedEnter` goroutines, one
per activation, `main` is the receive loop and then `stop`. The compositor is
external: it captures (`Activate`), forwards input, ends a capture, disables the
session, and libei may disconnect. Signals and events are two queues, so their
order is not that of the compositor. Run `wayland`: one edge, two activations
(the second makes the first one's id, gate and signal stale), one event in
flight, gated or not, D-Bus calls that may fail. Four edges would multiply the
states and not the interleavings: `RemoteCursor` has them.

* `NoFrozenPointer`: at rest, what the compositor captures is forwarded and not
  dropped, except after the hotkey and after a failed `Release`.
* `StopNotStuck`: at rest, the teardown is complete, except after a disconnect.
* `DrainedBeforeClose`: neither loop outlives `stop`.
* `ImplementsRemoteCursor`: the cursor's fields follow `RemoteCursor`'s
  `CursorSpec`, on all its edges and with the carry. Proved (section 5), for any
  number of overlapping gates, and left out of the run.
* `StopAlwaysReturns` (run `wayland_disconnect`): the latter exception; see
  section 6.

"At rest" is `~ENABLED Program`: nothing goes on until the compositor, the
remote or the user acts. It takes the place of liveness, which two activations
put out of TLC's reach; with the fairness of `FairSpec` (weak per goroutine,
strong for the `select` case of a closed `stopCh`) rest is what the program comes
to, since no goroutine loops without input. The violation run uses `FairSpec`
and one activation.

### Link: making, using and leaving connections

`pc` is the loop of `main.go`; `Slots` are the goroutines that dial out, `Listener`
the one that accepts. Each of these attempts goes through the stages of
`setupConn` (`at`): the peer's IV block, which is read without a deadline, then up
to 20 packets in search of the acknowledgement, with one. An inbound connection
goes through a channel of one place (`queue`). A connection is known by its peer:
live, silent or dead. `Start` and `Stop` are what the loop starts and stops around
`ReceiveLoop`: a capturer that may fail to start, and the handler's `callbacks`,
which outlive it. `Signal` ends the process anywhere; `Restart` is systemd's. Inside
a connection only whether the capturer gave the pointer away is modelled: how it does
so, and which devices a `Stop` or a killed process leaves off, is in `CaptureX11`.

Run `link`: two slots (the second is the attempt of the next turn while the first
is still dialling), a limit of two packets, all three ways of capturing. At most
one outbound peer is silent at a time, a bound on the number of attempts that
stay for ever.

* `AttemptOwned`: every attempt that dials or has connected is awaited by the loop
  or by a reaper, so no connection is leaked.
* `HandBackWired`: while the pointer is away and packets are handled, the remote's
  hand-backs reach the capturer that gave it away.
* `SelectMovesOn`: the loop does not wait for ever for a peer that fails in any
  way; excused is one that connects and stays silent.
* `InboundTaken`: while there is no connection, one that comes in is taken.

Fairness: weak for the loop and for each attempt (a dial and a handshake have
deadlines), strong for the `select` case of an inbound connection, as `select`
chooses at random and the loop keeps coming back to it. None for peers, users,
signals and restarts.

### FileTransfer: files over the clipboard channel

Both ends run this program: `out` is the serving end of a pull, `in` the pulling
end, `pipe` the bytes between them after decryption, `dest` the file that is
written. A byte is the version of the file it was read from, 0 is padding or a
hole: enough to tell a right byte from any wrong one. Writes are refused unless
they are whole blocks; a read takes whole blocks from the stream and hands over
what was asked for. The user may rewrite the file in place; pulls may overlap,
since each beat starts one; deadlines may expire at either end. `server` is the
file server of each manager: opened and closed by goroutines `Stop` does not wait
for.

Run `filetransfer`: two pulls, blocks of 2, buffers of 4, sizes 3 to 6: below a
buffer and off a block, a buffer exactly, above a buffer and off a block, and above
the largest size accepted (5); two versions, two managers. The
sending buffer is not larger than the receiving one here, in the code it is
twice as large, which divides the stream at the same places.

* `ReceivedIntact`: a file that was received is the file that was sent, to the
  byte. Excused: it was rewritten while it was sent, or pulls overlapped.
* `NoNeedlessFailure`: a transfer fails only for a reason outside of it.
* `PullEnds`: no pull waits for bytes the other end does not have, deadline or not.
* `PortGivenBack`: a manager that was stopped gives the port back, even if it came
  to listen after its stop.

Fairness: weak for each goroutine; none for deadlines, users, and beats.

## 4. What each run shows

| run | module | states | question |
|---|---|---|---|
| `cursor` | RemoteCursor | small | are both gates right on every edge? |
| `x11_race` | CaptureX11 | 2.4 million | devices, gates and drain under all interleavings; refinement |
| `x11_live` | CaptureX11 | 380,000 | does `Stop` always end, and do devices that were left off come back? |
| `inbound` | Inbound | 638,000 | can a key or a button stick, does the pointer follow? |
| `sendpath` | SendPath | 10,165 | is the stream readable and does every call return? |
| `heartbeat` | Heartbeat | 953,000 | is a dead peer found in time? |
| `clipboard` | ClipboardSync | 1.5 million | echo, loss, drain |
| `wayland` | CaptureWayland | 1.9 million | do program and compositor agree in the end? |
| `link` | Link | 216,000 | is a connection always made, none leaked, and do hand-backs arrive? |
| `filetransfer` | FileTransfer | 274,000 | does the file arrive, does every pull end? |
| `x11_teardown`, `wayland_disconnect` | | | violations, section 6 |

Symmetry is used in `x11_race` only, over the devices, which checks no liveness.
Deadlock is checked except where the program really ends: each cfg that turns it
off says why.

## 5. What is proved

The proofs are for every grid size, margin, number of goroutines, devices,
contents and arrivals, from the named assumptions of each module
(`CursorAssumption`, `CaptureAssumption`, `KeyboardAssumption`,
`MouseAssumption`, `UsersAssumption`, `SendAssumption`, `HeartbeatAssumption`,
`ClipboardAssumption`, `FileAssumption`, `WaylandAssumption`, `GridAssumption`,
`LinkAssumption`).
They follow one scheme: an inductive strengthening of the property, which TLC
checked first, the step that preserves it split by actor and action, and the
property as its consequence.

| module | theorems | argument |
|---|---|---|
| `RemoteCursor_proofs` | `CursorTypes`, `CursorNeverDeaf`, `TypeCorrect`, `ArmedFar`, `NoBounce`, `NeverDeaf`, `MotionConserved`, `HandBackGate` | lemmas on clamping and on truncating division carry the arithmetic; the gates need that the history of the farthest point bounds the position. `CursorTypes` and `CursorNeverDeaf` speak of `CursorSpec`, the cursor without histories, which both drivers implement |
| `CaptureX11_proofs` | `CrossAway`, `OneLateEvent`, `Drained`, `RefinesCursor`, `EdgeNeverDeaf`, `DevicesFollow`, `StopNeverHangs`, `CrossingNeverHangs`, `CrossingMovesOn` | `Points` first: which program points each goroutine can be at. The gate is set by each way home, so a poller beyond its test has seen the pointer away; a device beyond its ownership test accounts for the one late event. `RefinesCursor`: the critical sections are `RemoteCursor`'s actions on one axis without a carry, and no other step touches the cursor; `EdgeNeverDeaf` is `CursorNeverDeaf` on that axis. `DevicesFollow` (`SwitchInv`): while the crossing lists, stores and disables, what is off is in its hands or in the cache; at any other time a device that is off is in the cache or in the hands of a goroutine that is about to enable it, unless devices are `astray`. `StopNeverHangs` (`StopInv`): `mu` is held only by a goroutine at its send, and a file is closed before Main waits, so who cannot go on waits for one who can; the same invariant gives `CrossingNeverHangs`, and what a crossing has still to disable only shrinks |
| `Inbound_proofs` | `ImplementsKeyboard`, `Tracked`, `HeldNowhere`, `NothingStuck`, `NoKeyLost`, `CtrlFirst`, `Snaps`, `PointerBounded`, `NoButtonStuck` | every packet is a step or a stutter of the keyboard's own specification, so its theorems carry over; there the map and the device change in one step until a failed release, and leaving and dropping both clear the chord. `NothingStuck` (`StrokeInv`): within a stroke, a key that is down is explained by a key the remote user holds or by a release still on the wire, and so is the Ctrl that is held back; a release of a Ctrl is only swallowed when none is down. A Ctrl that is held back is pressed by the flush or by the ordinary key. A session that starts forgets its seed; scaling keeps the order of distances and clamping lengthens no step; a button that goes down is held, and one that stays down when its holder cannot lift it is stranded |
| `SendPath_proofs` | `Mutex`, `ChainOrder`, `Contiguous`, `PositiveIDs`, `NeverLeftLocked`, `CallsAdvance` | the goroutine between encryption and write holds `sendMu`, so at most one packet is encrypted but unwritten; the counter is bounded by the wrap mark plus the goroutines that passed its test. `NeverLeftLocked`: whoever holds `sendMu` is inside its critical section, where nothing makes it wait. `CallsAdvance`: a natural number that every step of a call lowers (`ToGo`), which the packets left dominate |
| `Heartbeat_proofs` | `TypeCorrect`, `SilentCaught`, `StalledCaught`, `WatchNeverLeft` | while watching, the age seen at the last tick plus the time since bounds the true age; a queue that did not shrink between ticks was not taken from; the goroutine ends only with the connection closed or the loop over |
| `Clipboard_proofs`: `ClipboardSync` | `EchoFree`, `Drained`, `CopyAccounted` | unless `dirty`, an arrival is alone, and what it wrote is either still guarded by the window or recorded as the last content; the stream's contents are of its kind. `CopyAccounted` (`Accounted`): `lastHash` is always the hash of the content `last` names; what is due is in a sender's hands or is the beat that comes next. A copy that looks unchanged therefore is that content, or has its hash |
| `Clipboard_proofs`: `FileTransfer` | `Intact`, `NoneFails`, `NoneWaits`, `PullsAdvance` | `PullInv`, of each pull that nothing spoiled: both ends stand between two blocks of the file or at its end, and the pipe holds the bytes in between, the last block padded (`FlowOf`); only one such pull writes the file, and it wrote what it got. That a write (`FlowWrite`) and a read (`FlowRead`) keep this is arithmetic of whole blocks: buffers are made of blocks, so only the last write is padded and only the last read takes more than it hands over; a closed stream then holds all of the file. `NoneWaits` needs only that a header comes before its bytes, and that a read takes at most the buffer below which the sender goes on writing; `PullsAdvance`, that no read and no write is empty, and that the header stays while a pull copies |
| `CaptureWayland_proofs` | `Drained`, `NeverFrozen`, `NeverStuck`, `RefinesCursor`, `EdgeNeverDeaf` | a queued signal names an activation that happened, so it starts a gate and no loop; nobody is past `wg.Wait` before both loops returned. `NeverFrozen` is the safety form of `NoFrozenPointer`: while a capture lasts, its `Activated` is the last signal queued, or all are handled and `activeID` names it, so a release that is under way ends the right capture. `NeverStuck` is that of `StopNotStuck`: who won `stopOnce` is inside `stop` or past it, and a loop that has not returned is at a point it can leave. `RefinesCursor`: gates cross, events move and hand-backs activate by `RemoteCursor`'s own actions, over the edges that activations name |
| `Link_proofs` | `NoneForgotten`, `HandBacksReach`, `SelectNeverHangs`, `SelectMoves` | an attempt leaves "idle" only when main starts to wait for it, and main leaves it only when it ended or got a reaper; a capturer is on only between `Start` and `Stop`, and then the callbacks are its own. `SelectNeverHangs` (`Staged`): what is known of an attempt's peer in each stage, and that a reaper never has the attempt main waits for |

What `CursorTypes` and `CursorNeverDeaf` say of `CursorSpec` holds of both drivers
by their `RefinesCursor`; the prover does not carry theorems through `INSTANCE`, so
each driver proves its own `EdgeNeverDeaf`: X11 on its one axis, Wayland on every
edge an activation may name and with the carry of motion.

Only model-checked: every liveness property (`StopTerminates`,
`CallsReturn`, `NoHungLink`, `CopyIsSent`, `SelectMovesOn`,
`InboundTaken`, `PullEnds`, `PortGivenBack`), which is beyond the prover, as is
`ENABLED`. Theorems prove the safety halves of most of them: that something can
always go on, with the guards of the steps written out, and, where the way is
finite, that each step shortens it.

| checked by TLC | something can go on | each step gets nearer |
|---|---|---|
| `NoFrozenPointer`, `StopNotStuck` (use `ENABLED`) | `NeverFrozen`, `NeverStuck` | |
| `StopTerminates`, which waits for the poller | `StopNeverHangs`, `CrossingNeverHangs` | `CrossingMovesOn`, of the poller |
| `CallsReturn` | `NeverLeftLocked` | `CallsAdvance` |
| `NoHungLink` | `WatchNeverLeft` | |
| `CopyIsSent` | `CopyAccounted`: nothing is lost sight of | |
| `SelectMovesOn` | `SelectNeverHangs` | `SelectMoves` |
| `PullEnds` | `NoneWaits` | `PullsAdvance` |
| `InboundTaken`, `PortGivenBack` | none: a single action of main, or of the goroutine that closes the listener, is left | |

That the guards imply that the steps are enabled TLC confirmed on the instances of
the runs (for `SendPath` that they are equivalent); that the steps then lead where
they should, under the fairness, is what the runs check.
Nothing is proved about recursive definitions: the modules have none.

## 6. What the runs found

1. **Teardown may leave devices disabled** (`x11_teardown`). A hand-back that runs
   while the crossing is between listing devices and disabling them empties the
   cache first; the late `xinput disable` then leaves devices off and `Stop`
   finds nothing to restore, although its comment says it always does
   (`capture_linux.go` 307-308, 685).
2. **A libei disconnect blocks the teardown for ever** (`wayland_disconnect`).
   `stop`, called from `eiLoop`, waits for `eiLoop` (`portal_wayland.go` 643).

Also seen while modelling; no run is about them:

* Under Wayland the hotkey Ctrl+Alt+Right makes Linux the owner and does not
  release the capture (`capture_linux.go` 1001-1008): the pointer stays captured
  and its events are dropped. `NoFrozenPointer` excuses it (`chorded`).

* The burst goroutine can send after the hand-back and after the close
  (`capture_linux.go` 469); `gatedEnter` likewise (`portal_wayland.go` 570).
* The hotkey's flags follow keys only while the remote owns the pointer and are
  cleared by auto-repeat, so they may be stale (`capture_linux.go` 996).
* A hand-back that was accepted may be carried out after another crossing and
  undo it (`handler.go` 78).
* A peer that connects and stays silent blocks the outbound attempt, and the
  listener, until it goes away (`client.go` 86).
* After a signal X11 devices stay disabled until, in the next process, the pointer
  has crossed and come back, and the listing of the way back names them
  (`main.go` 255, `capture_linux.go` 709). `x11_live` starts from there.
* A local copy that has the hash of what was sent or received last is never sent:
  an image of the same length, a text of the same length and first 100 bytes
  (`clipboard_linux.go` 172, 195). `README.md` 49 names no such limit.
* A copy over the size limit, or whose send fails, is not tried again, though
  `lastHash` says it went out (`clipboard_linux.go` 321, 326, 545, 550).
* An inbound connection that came while another was up is used next, however
  old (`client.go` 186).
* When `RunWayland` fails, the handler keeps the callbacks of the last capturer,
  whose portal is stopped; they change nothing that still matters.
* Buttons that are down when a session ends are not released, and a release is
  lost with its position (`handler.go` 134-183).
* With a gain below 1 slow motion is lost: each packet is truncated on its own,
  without a carry (`handler.go` 228).
* `capture_linux.go` 1027-1030 sends the X-button's number in the high half of the
  word, `handler.go` 168 expects it in the low half.
* A pull that fails, or overlaps another of the same name, leaves a partial or
  mixed file where an earlier one was, which `localFile` may still offer
  (`filetransfer_linux.go` 143-150).
* A file server that finds the port taken does not try again: that connection
  serves no files (`filetransfer_linux.go` 159-163).
* An empty file is sent, and refused by this program's own pull
  (`filetransfer_linux.go` 135).
* Between the packets of one AltGr stroke another packet flushes the Ctrl, and a
  real Ctrl just before is taken for the synthetic one (`handler.go` 67).
* The send queue is sampled at ticks only: one that is drained and refilled in
  between never shrinks at a tick, and a busy healthy peer is taken for a
  stalled one (`receiver.go` 21-32).
* `localFile` is never cleared, so an ask is answered with a file that is no longer
  on the clipboard (`clipboard_linux.go` 116-120).
* A stream over the limit is dropped, and its remaining chunks form a stream of
  their own (`clipboard_linux.go` 343).
* Two goroutines at the wrap-around may use one packet number (`client.go` 278).

## 7. What is not modelled

* Inside a module that is modelled: the contents of the handshake's challenge and
  the derivation of keys (`Link`); names, paths and the receiving header's type
  (`FileTransfer`; a push is its sending end over a connection that is dialled the
  other way round, see `ClipboardSync`); the size of a wheel step (`Inbound`); the
  goroutine that repeats the entry position to the remote (`CaptureX11`), which
  sends and touches nothing else.
* Left out for good: key maps and layouts (constant tables that unit tests
  compare entry by entry), the wire format and its encryption as functions
  (pure; the order they depend on is in `SendPath`), configuration, its GUI,
  screen probing and packaging (I/O without interleaving), macOS input (pure
  calls), the set-up of the portal session (a straight sequence of requests).
* Abstracted: pixels and acceleration to grid units, time to "within a window or
  after it" (except in `Heartbeat`), contents to model values, the X server and
  the compositor to what the code can see of them.
