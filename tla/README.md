# remote-steer in TLA+

TLA+ models of [remote-steer](../src/README.md), the bridge between a physical
Thrustmaster T150 on a Windows machine and a virtual T150 on a Linux gaming
machine: TLC configurations that check them, and TLAPS proofs of every safety
property these check. `PROJECT.json` lists every run with its properties, the lines each
definition models, the hazards and the findings.

Run a check with `tlc -config MCInputPath.cfg MCInputPath.tla`, proofs with
`tlapm InputPathProofs.tla`; the longest run takes a few minutes.

## The system

```
 game ── evdev/uinput ── client (Linux) ══ UDP ══ server (Windows) ── DirectInput ── wheel
          FFB requests →   poll_ffb      FfbCommand →   apply_ffb
          events        ←  inject_input  ← Input        poll_input (4 ms)
                           hello 1 s     ⇄ Hello, HelloAck, FfbReply
 test tool (run_remote_test_ffb) ═══════════╛
 start / stop / status ── record file, background process        config file
```

| Component | State | Operations | Source |
| --- | --- | --- | --- |
| server loop | session_ready, InputSendState, UdpPeer.remote | packet arm, 4 ms input tick | `main.rs` `run_physical` |
| client loop | InputStaleDrop, hello buffer | packet arm, 1 ms FFB tick, 1 s hello tick | `main.rs` `run_virtual` |
| test tool | command id, menu | upload, play, sleep, stop, erase with 3 s timeouts | `main.rs` `run_remote_test_force` |
| transport | remote, next_seq, digest | send_to_remote, recv, encode, decode | `udp.rs`, `packet.rs` |
| filters | last_seq; pending retries (unused) | accept; track_sent, apply_reply, due_retries | `reliability.rs` |
| physical backend | effect table, master_gain, seq | poll_input, apply_ffb | `windows_backend.rs` |
| device setup | device, data format, ranges, acquisition | open_t150, configure_device, reacquisition | `windows_backend.rs` |
| virtual backend | pending_commands, next_command_seq, last_axes, last_buttons | inject_input, poll_ffb, complete_ffb | `linux.rs` |
| background processes | record file, the child | start_managed, stop_managed, status | `main.rs` |
| saved defaults | config file | load, resolve, remember | `main.rs` |
| profile, capabilities | static | lookups | `remote-steer-core` |
| diagnostics | none | probe, monitor, dump | `main.rs`, backends |

Two loops of two processes interact only by datagrams, which may be lost,
duplicated and reordered; neither side retries a command, only hellos and
snapshots are repeated. (`FfbReliability`, which would, is constructed nowhere.) The client's loop is single-threaded: its queue, the
kernel's event queue and the network are three queues in a row. The test tools
share the server's one socket with the clients. The CLI commands share two
files without locks. `PROJECT.json`'s hazards name each place where this bites.

What makes each part correct:

- input: a game sees whole frames, in the order they were read, never an older
  one again, and in the end the wheel's position, whatever is lost;
- session: an answer reaches its requester, a stream comes back, a hello gets
  through;
- force feedback: requests are executed in order, at most once; no effect is
  left playing, what plays was asked for last; the game is never held;
- effects: what is accepted is created, as what it was, at the game's gain;
- retries: no command is forgotten, repetitions do no harm;
- setup: every call when DirectInput accepts it, idle motors, each control in its
  field;
- tests: "done" means played, and every force ends;
- processes: one per role, reachable by stop, stop stops it, status is true;
- defaults: the file holds what last worked and can be read when none writes it.

## Modules

| Module | Models | Checked by |
| --- | --- | --- |
| `VirtualWheel` | the promise of the input path: frames in order, whole | `InOrder` of `InputPath` |
| `InputPath` | poll_input, should_send, the network, accept, inject_input, restarts | `MCInputPath*`, `InputPathProofs` |
| `Session` | both loops' packet arms, hellos, UdpPeer.remote, refusals | `MCSession`, `SessionProofs` |
| `PhysicalBackend` | the DirectInput effect table as operators on a device | its users |
| `CommandLog` | the promise of the FFB path: requests in order, once, all but the lost | `InRequestOrder` of `FfbPath` |
| `FfbPath` | game, kernel, evdev, poll_ffb, ffb_tick, network, apply_ffb, restarts | `MCFfbPath`, `FfbPathProofs` |
| `FfbReliability` | the retry table between a client and a server | `MCFfbReliability`, `FfbReliabilityProofs` |
| `EffectPath` | translation of an effect from evdev to DirectInput, gain, `test virtual` | `MCEffectPath*`, `FfbReliabilityProofs` |
| `TestForce` | run_remote_test_force, its menu, timeouts and late replies | `MCTestForce`, `TestForceProofs` |
| `WheelSetup` | open_t150, configure_device, poll_input's two calls, data format, other programs | `MCWheelSetup`, `WheelSetupProofs` |
| `ManagedProcess` | start, stop, status, record file, zombies, signals, kills, pids used again | `MCManagedProcess`, `ManagedProcessProofs` |
| `SavedConfig` | load, resolve, remember, truncate, write, the background child's own resolution | `MCSavedConfig`, `SavedConfigProofs` |
| `WheelMath` | the unit conversions, as operators | its users |
| `WheelSweep` | the conversions from each input to the next | `MCWheelSweep`, `WheelSetupProofs` |

`FfbPath`, `FfbReliability`, `TestForce` and `EffectPath` compose the same
`PhysicalBackend` operators with four sources of commands; `WheelSetup` extends
`WheelMath`, whose conversions its snapshots use. Operators named
`<definition>_<Something>` and commented as slips are mutated forms of the
definition above or below them: each property is shown to notice one.

### How state and actions correspond to the code

- **InputPath.** `seq`, `last_sent`, `elapsed`, `last_seq`, `last_values` are
  the fields of the same name (`elapsed` counts 4 ms ticks since
  `last_sent_at`; `last_values` joins last_axes and last_buttons). `Tick` is
  one input tick with a snapshot: poll_input, should_send and the send.
  `TickWithoutSnapshot` is poll_input's None (device reacquired); it is only
  enabled where the clock matters. `Deliver` is recv, accept and inject_input
  with the cache. A failed poll ends the process: `RestartServer`. `lives`
  counts the processes started so far; `remote` names the client's.
- **Session.** `ServerRecv` is the packet arm with recv's update of `remote`,
  `InputTick` the tick with a snapshot to send; `waiting` and `asleep` are the
  two halves of connect_until_hello_ack. `refused` is the socket's pending
  ICMP error, `mistyped` the peers whose user typed another token.
- **FfbPath.** `events` is the kernel's queue, `pending_commands` the client's,
  `net` the wire. `SendQueued`, `NothingToSend` and `ReadBatchOfEvents` are one
  poll_ffb call each with the send of its result; `budget` counts the polls left
  in the tick. A batch is read only when the queue is empty, and an upload or
  erasure is the last event of a batch because the kernel holds the game until
  it is ended. `GiveUp` is the kernel's timeout on a request nobody answers,
  possible from the creation of the virtual device on, before `Connect`;
  `ReadExpired` is poll_ffb meeting such a request: ff_upload_begin fails and
  the client ends with what it had read. `ClientAgain` is a new client with a
  new device, counter and queue; `RestartServer` loses the wheel's effects and
  what its socket held. Each request is named by its place in `issued`, which
  only the properties use. The Stop the kernel may queue before an erasure is
  left out: the server's erase_effect stops the effect itself.
- **FfbReliability.** `pending` is the BTreeMap, an entry's `age` the clock's
  ticks since last_sent. `track_sent`, `apply_reply` and `DueRetries` are the
  three operations; the loop around them (a command tracked when it is sent, a
  timer that sends again what is due, replies applied as they come) is what
  their signatures ask for, and is marked external. No production path has such
  a loop, so that no fairness of it can be assumed and only safety is stated. The server's side is
  apply_ffb as in `FfbPath`. Beyond `RetryAfter` an age and beyond `MaxAttempts`
  the attempts are not told apart, which the table does not do either. `once`,
  the wheel had each command been executed once, and `alone`, whether never two
  were pending, are history that only `AsIfOnce` reads.
- **WheelSetup.** `call` is the DirectInput call made next, in the order of
  open_t150 and configure_device; `Allowed` is DirectInput's precondition of a
  call, `Refused` the error that ends the program when it does not hold, and
  `cause` remembers why. `range` is the driver's range of each axis object:
  `SetRanges` tries by offset, then by id, and either may be refused. `Poll` and
  `GetDeviceState` are poll_input's two calls, each with its own reacquisition.
  The driver's side (a device state laid out by the data format, exclusive
  access, lost input) is external, modelled as the code relies on it.
- **EffectPath.** `slots` is the kernel's table, `created` the server's, `backend`
  the DirectInput device. One
  upload is one step from the ioctl to apply_ffb, since order and loss are
  FfbPath's matter. `answer` is what the last upload got from the kernel and
  from the server. A command for which the kernel's own checks fail (another
  owner, another type in the slot) is left out. Playing is left out.
- **TestForce.** `command_id` is the local of run_remote_test_force, `phase`
  where it awaits; `executed` records which force's command the wheel executed.
- **ManagedProcess.** Each invocation is the sequence of its system calls. A
  signal leaves a process `dying`, which ends some time after kill has returned
  (`Die`), and a dead child is a zombie while the command that spawned it lives.
  `Remove` ends stop by either branch: "stopped" after a signal, "stale removed"
  when the recorded process was gone at the start. `Interrupt`
  kills the command at any step, `Reuse` gives a dead process's pid to another
  program, `Unreadable` is a record that was truncated and not written, or
  written by two. `overlapped` and `deserted` are history: whether a start and
  another start or stop ever were under way at once, and whether a start was
  killed when its process had no record yet.
- **SavedConfig.** `kind` is the command: `client`, `test`, `server`, and the two
  `start`s, whose child resolves its token again (`ChildLoad`). `used` are the resolved values, `given` those that came from
  arguments or environment (only they are remembered). `Blank` is a truncated
  file and `Garbled` one whose contents are longer contents' tail. `overlapped`
  and `torn` are history: whether a command was given while another was under
  way, and whether the last save was killed between `Truncate` and `Write` or
  met another command with the file open. A later save that meets neither
  repairs the file.
- **WheelMath.** Integers are TLC's; every intermediate product of the source
  fits 32 bits except phase's, which the module splits (it fits u32; that the
  split is the source's quotient is the theorem `PhaseIsOneQuotient`).
- **WheelSweep.** Has no code of its own: `sample` is an input, and a step goes on
  to the next one, so that what a conversion does from input to input is a step.

## What the runs show

Passing runs and why their bounds are enough:

| Run | Shows | Bounds |
| --- | --- | --- |
| `InputPath` | whole frames, in order, only stale ones dropped, convergence | 3 frames (one beyond the range), 2 lives of server and of client, 1 loss, 1 copy, any order; the wheel moves during 4 reads, 14 reads leave room for a new server's seq to pass the old one's and for two resyncs after it |
| `Session` | answers reach requesters, a mistyped token never connects; hellos get through, the stream returns | one client and one test tool, both may act at once; 2 server lives, 1 loss, 1 copy, 1 command each, the tool's token right or wrong |
| `FfbPath` | ids unique, requests in order and all but the lost ones, nothing rejected by a wheel that works, which plays what was asked last, the wheel stops, the game goes on | 4 requests, 2 faults of any kinds (a datagram lost, copied or overtaken; a DirectInput failure; a restart), batches and budgets of 2 (16 in the code): batches fill, budgets run out, a game's Upload, Play and Stop meet both faults |
| `FfbReliability` | nothing forgotten, one at a time as if once | 3 commands, 2 faults, RetryAfter 2: a retry crosses the reply, and a repetition the next command |
| `EffectPath` | the client survives, what is accepted can be created, no slot of the wheel is stale | 2 slots, all 9 types and 5 waveforms, both signs, 3 gains, failing calls |
| `TestForce` | lockstep, "done" means executed, forces end | 2 forces of 2 steps, 1 loss, 1 copy, failing calls |
| `WheelSetup` | calls in an acceptable order, idle motors, each control its own field, reading goes on | 5 lists of devices (usual, other order with a second slider and no POV, no slider, no actuator, no wheel), every set of refused ranges, 3 positions, 1 interruption, a game at any step |
| `ManagedProcess` | no orphan, status is true, stop stops, commands end | two commands at once, any killed; 2 processes, one ignoring SIGTERM, pids used again, 2 polls (20 in the code) |
| `SavedConfig` | the file is readable when closed and holds the last success, the child gets its token | two commands at once, 1 kill; argument, environment or saved value in every mix; symmetric in the commands |
| `WheelSweep` | the hat opposes, scales and pedals are monotone and in range | every input from below i16::MIN to above u16::MAX |

Some properties hold only under a condition that their definition spells out,
because the code promises no more:

- `InOrder` and `OnlyStaleIsDropped` while the first server lives
  (`InputPathStaleSeq` shows the rest);
- `WheelStops` without a lost or failed command, and for effects the present
  client's games have uploaded; `NothingRejected` without faults other than
  restarts of the client, `PlaysAsAsked` also without requests given up;
- `AsIfOnce` for one command at a time on a network that keeps the order;
- `DoneMeansPlayed` and `InLockstep` for a force that `Undisturbed` allows;
- `NoOrphan` and `StatusTells` until a start meets another start or a stop, or is
  killed after its spawn, and while no start is under way; all other overlaps
  and kills are covered;
- `RemembersLastSuccess` and `ChildUsesItsToken` for a command during which no
  other is given; `ReadableWhenClosed` for any overlap and any kill but those
  that tear a save (`torn`);
- `StartsQuiet` until a game has had the wheel; `SnapshotIsTheWheel`, for the
  hat, on a device with a POV, and for a pedal whose range the driver refused
  with the reading itself allowed below 256.

The runs contain the excluded cases too; what the code does there is listed
below.

Runs that expect a violation, each one behaviour of the code that contradicts
what its documents or tests say (see `findings`):

| Run | Counterexample |
| --- | --- |
| `InputPathStaleSeq` | fresh input is dropped after a server restart |
| `EffectPathSaw` | saw effects are promised and refused |

### Behaviours to know

The models contain these behaviours of the code; no property claims that they
do not happen:

- A lost Stop or Erase is never repaired: each command is sent once, its reply
  only logged (`main.rs` 1163, `linux.rs` 295-302).
- An update of a playing effect silences it at the wheel until the next Play:
  `upload_effect` creates an effect it does not start.
- The gain enters an effect uploaded after `set_gain` twice, by dwGain and
  DIPROP_FFGAIN, and one uploaded before once.
- A peer waiting for the server ends on ConnectionRefused
  (`connect_until_hello_ack`), a packet that does not decode ends the server.
- Each force of the test menu numbers its commands from 1: a late reply to a
  force that was given up can acknowledge a lost command of the next.
- Two starts within the 500 ms before the record is written leave two
  processes and one record; a child that dies within them is a zombie that
  still answers `kill(pid, 0)`, so start says "started".
- `client start` saves before anything connected; its child prefers
  REMOTE_STEER_TOKEN to the `--token` the start was given; a kill between
  truncation and write leaves an empty config, two writers at once a mixed one,
  and no later command can parse either.
- A pedal of default range is scaled only from the reading 256 on: readings of
  0..255 of 65535 are reported as they are, so the report falls from 255 to 0.
- A device without a POV reports the hat up: rgdwPOV stays 0, not 0xffffffff.
- A reacquired wheel gets no STOPALL and no RESET: what a game left playing in
  the meantime goes on.
- The virtual wheel exists before the client has found its server. A game that
  uploads then is held until the kernel gives up, and the client, once it reads
  that request, ends with the error of ff_upload_begin.
- A client that ends while the wheel plays sends no Stop; its successor knows
  nothing of the effect. A server that ends loses effects a game still plays,
  and rejects them from then on.
- With `FfbReliability` a command may be executed twice. Several pending at once
  are not repeated in order: an Upload repeated after its Play silences the
  effect.
- stop signals whatever has the recorded pid by now, and status calls it
  running. After SIGKILL stop does not look again: the process it calls stopped
  may still be dying. A start killed in its 500 ms leaves a process without a record, one
  killed while it writes a record no later command can parse.

Deadlock is not checked where a model stops at its bounds (the request,
read and start counters) or where every process may have ended.

### Fairness

- `InputPath`: the server's interval ticks, hellos are resent each second and
  arrive some time, a datagram in flight that the network neither loses nor
  duplicates is read (weak fairness; losses are bounded, so that not all of an
  endless stream is lost).
- `Session`: timers fire (they are tokio timers in one loop), a hello in flight
  is read. The HelloAck is read under strong fairness: a peer waits 3 s of
  every 4, far longer than a datagram travels, so a waiting peer meets it again
  and again.
- `FfbPath`: the first hello's answer (hellos are repeated), the 1 ms tick, its
  polls, and the oldest datagram. `TestForce`: the send, the 3 s timer and
  the sleep. `ManagedProcess`: a command begun goes on. `WheelSetup`: the server
  makes its next call.
- The game, the kernel's giving up, the user, the wheel, other programs, crashes
  and losses are never fair. `FfbReliability` has no fairness at all: nothing in
  the repository calls `due_retries`, so nothing makes its retries happen.

## What is proved

For every value of the constants that the assumptions named in each module
admit; these say no more than that constants have their kinds, that `None` and
other markers differ from what they stand beside, and that bounds suffice.

| Module | Theorem | Statement |
| --- | --- | --- |
| `InputPathProofs` | `Invariance` | `Spec => []IInv` |
| | `TypeCorrect` | `Spec => []TypeOK` |
| | `WholeFrameHolds` | `Spec => []WholeFrame` |
| | `OnlyStaleIsDroppedHolds` | `Spec => OnlyStaleIsDropped` |
| | `InOrderHolds` | `Spec => InOrder`: InputPath implements VirtualWheel |
| `SessionProofs` | `Invariance` | `Spec => []IInv` |
| | `TypeCorrect` | `Spec => []TypeOK` |
| | `AnswersRequesterHolds` | `Spec => []AnswersRequester` |
| | `OnlyTokenHoldersConnectHolds` | `Spec => []OnlyTokenHoldersConnect` |
| `WheelSetupProofs` | `Invariance` | `Spec => []IInv` |
| | `EndsForCauseHolds` | `Spec => []EndsForCause` |
| | `StartsQuietHolds` | `Spec => []StartsQuiet` |
| | `SnapshotIsTheWheelHolds` | `Spec => []SnapshotIsTheWheel` |
| | `HatOpposesHolds` | `Sweep => []HatOpposes`, of `WheelSweep` |
| | `ScalesAreMonotoneHolds` | `Sweep => ScalesAreMonotone` |
| | `PedalIsMonotoneHolds` | `Sweep => PedalIsMonotone` |
| | `PhaseIsOneQuotient` | `phase_to_direct_input(v) = (v * 35999) \div 65535` |
| `FfbPathProofs` | `Invariance` | `Spec => []IInv` |
| | `TypeCorrect` | `Spec => []TypeOK` |
| | `InRequestOrderHolds` | `Spec => InRequestOrder`: FfbPath implements CommandLog |
| | `UniqueIdsHolds` | `MaxRequests <= PayloadSize` implies `Spec => []UniqueIds` |
| | `NothingRejectedHolds` | `Spec => []NothingRejected` |
| | `PlaysAsAskedHolds` | `Spec => []PlaysAsAsked` |
| `FfbReliabilityProofs` | `NothingForgottenHolds` | `Spec => []NothingForgotten` |
| | `AsIfOnceHolds` | `Spec => []AsIfOnce` |
| | `EffectsInvariance` | `EffectSpec => []EInv`, of `EffectPath` |
| | `AcceptedArrivesHolds` | `EffectSpec => []AcceptedArrives` |
| | `NeverStaleHolds` | `EffectSpec => []NeverStale` |
| `TestForceProofs` | `Invariance` | `Spec => []IInv` |
| | `DoneMeansPlayedHolds` | `Spec => []DoneMeansPlayed` |
| | `InLockstepHolds` | `Spec => []InLockstep` |
| `ManagedProcessProofs` | `Invariance` | `Spec => []IInv` |
| | `TypeCorrect` | `Spec => []TypeOK` |
| | `NoOrphanHolds` | `Spec => []NoOrphan` |
| | `StopStopsHolds` | `Spec => StopStops` |
| | `StatusTellsHolds` | `Spec => StatusTells` |
| `SavedConfigProofs` | `Invariance` | `Spec => []IInv` |
| | `TypeCorrect` | `Spec => []TypeOK` |
| | `ReadableWhenClosedHolds` | `Spec => []ReadableWhenClosed` |
| | `ChildUsesItsTokenHolds` | `Spec => ChildUsesItsToken` |
| | `RemembersLastSuccessHolds` | `Spec => RemembersLastSuccess` |

Each module defines its inductive invariant `IInv` first, has a lemma for every
action or group of actions (`...Keeps`) and combines them in `Invariance`. What
a further theorem needs is a second invariant, proved from the first. Every
invariant was checked by TLC on the run of its module before it was proved, but
for the types of unbounded sets it cannot enumerate.

The assumptions are those the code gives. Two are worth naming:
`ObjectsAssumption` of `WheelSetup` (a device's objects have distinct ids,
because an id is the object's kind and number) and, in the statement of
`UniqueIdsHolds`, that the bound on requests is at most the size of the id's
payload, 2^56 in the code: the counter must not have gone round.

**InputPath.** `WholeFrame` is not inductive: an accepted snapshot writes only the controls
that differ from `last_values`, so the rest of the frame is right only if
`last_values` is what the device shows. `IInv` therefore adds to `TypeOK`

- `InFlight`: a snapshot in flight holds the frame of the read its timestamp
  names;
- `OnDisplay`: without an accepted snapshot the cache is empty and the device
  new; with one, cache and device both are the frame of read `shown`;
- `Counted`: reads and lives stay in their bounds, a snapshot's seq is not
  ahead of the reads.

The lemma `AcceptedIsShown` turns the partial write into the whole frame, and
one lemma per action carries the invariant. For order and freshness, `Numbered`
adds that in the server's first life seq and timestamp are the same number, so
that `last_seq` and `shown` agree and `Accepts` compares reads. That is exactly
what a server restart breaks, and the run `InputPathStaleSeq` shows it: the
condition `lives.server = 1` of the two properties is needed. The refinement is
proved by mapping `Tick` to `Read`, an accepted `Deliver` to `Show`, the
restarts to `Recreate` and `StartServerAgain`, and every other action to a
stutter.

**Session.** An answer goes to `remote`, which the packet that is being answered
has just set: so far `AnswersRequester` is one step. That the type is kept needs
`Ready` (a server that streams has a remote), and that a mistyped token never
connects needs `AnswersTokenHolders` (no answer under way is for such a peer)
and `Unheard`: the token is typed when the peer starts, and no answer to it can
be under way before, which a duplicated or delayed datagram could otherwise be.

**WheelSetup.** `Prepared` says which of the calls before it have been made when a
call is next, and that between Acquire and the end only an interruption takes
the wheel; then no precondition fails for the order alone. `Quiet` says that
after STOPALL whatever plays was left by a game that has had the wheel, and
`taken` remembers that one has. For `SnapshotIsTheWheel`, `Laid` says what the
calls made so far have laid down: the device opened is the first T150 of the
list (`Chosen`), the driver's format is that of its objects (`Selected`,
`Formatted`), and each axis has its profile's range or the driver's default
(`Ranged`), since an id names one axis and no refusal can give it another's.
The rest is arithmetic (`Scaling`, `Pedals`: a range of 0..255 gives
p div 257, which is p * 255 div 65535, the share of `PedalShare`) and counting (`ButtonsFilled`: filter,
take and enumerate number the buttons alike on both sides).

**WheelSweep.** The run sweeps the 16-bit inputs, the theorems hold for any
`First` and `Last`. They need no inductive invariant beyond "a sample is an
integer" (`Samples`), since each step property is about two neighbouring inputs
of an operator: product, division and clamp keep the order each by itself
(`QuotientIsMonotone`, `ClampIsMonotone`), and so do the scales made of them.
The force is the case to watch, because Rust's division truncates: it is odd,
and -32768, whose share is just below -10000, is clamped to it (`ForceIsOdd`,
`LowestForce`). A pedal is monotone on either side of 256 and in its range on both
(`PedalIsMonotoneInRange`, `PedalInRange`). For the hat, `OppositeDegree` shows
that half a turn modulo a whole one is 180 degrees more or less, and
`OppositeHat` compares the sectors.

**FfbPath.** The requests on their way are one sequence, `Way`, whatever queue
they are in: first the network, then the client's queue, then the kernel's.
Every step but a request and a copy takes some off it and leaves the rest
(`Skips`). `Increasing` says that it is in the order of the requests and none of
it is counted as gone; `Complete` that, without copies and overtaking, all of it
is later than what the wheel has executed and that what is missing before it is
gone: `Way[p] <= applied + p + gone`. So an arrival executes a later request, and
those it passes over are lost, which are the steps of `CommandLog`.
`UniqueIds` needs `IdsCount`, that a command's place among its client's requests
is its id's number. `NothingRejected` is not about what has arrived but about
what will have been executed by then: `Present(e, p)` says that effect e is at
the wheel once all before place p has been executed, `Playable` that every Play
on its way and every effect the game holds has that. Requests the kernel has given
up are the exception, and `Held` says where those can be: the last event of
the queue until a later game adds others. `PlaysAsAsked` speaks of the end, when
everything has arrived; its invariant `Sounding` speaks of every moment before:
while nothing was lost, an effect plays at the wheel exactly when the last of
the `applied` requests that name it is a Play. A request the game adds does not
touch those (`ElsewhereSounds`), an arrival adds one that is the next in order,
which `Complete` gives with nothing gone, and is not rejected, which `Playable`
gives (`ArrivalSounds`).

**EffectPath.** Its theorems stand at the end of `FfbReliabilityProofs`: both
modules build on `PhysicalBackend`, and the assumptions of `FfbReliability` are
about its own bounds and requests, so that they restrict nothing here. The names
`EffectInit`, `EffectNext` and `EffectSpec` keep the two specifications apart.
The tables of kernel, server and DirectInput agree slot by slot (`Fits`), which a replacement or an erasure keeps
because it writes all three. That what arrives can be created needs to know what
the kernel lets through (`Tables`): of nine types and five waveforms, rumble
turned into a sine, four are left, and `Translated` follows each by its name.

**FfbReliability.** `NothingForgotten` is about commands, the table is keyed by ids:
`KeyedById` says that an entry's key is its command's id, `Matched` that a reply
that carries an id is the reply to that command. Both hold because ids are
fresh. An `apply_reply` that takes a reply for all earlier commands too, the
mutated form, forgets some. For
`AsIfOnce`, one command at a time: either the wheel is as it should be and all
that is in flight is repetitions of the last command (`Repeated`), or it lacks
the last command, which is still pending, and what is in flight are repetitions
of the one before, then of it (`Awaited`). Both rest on the lemma `Idempotence`:
a command applied twice in a row leaves the device as applied once.

**TestForce.** `Lockstep` is stated for an undisturbed force that has not been
given up: the wheel has executed the commands up to `command_id`, or all but the
one awaited; a reply in flight belongs to a command that was executed, and
nothing is left in flight of the command before. It needs `DoneMeansPlayed` of
the earlier forces and is needed for it, so that both are one invariant.

**ManagedProcess.** `Spawned` (what a command knows by its pid was spawned, so that
no later start is given that pid) and `Terminated` (a stop about to remove the
record has seen its process gone, or killed it) hold however commands overlap
and carry `StopStops`. While `Undisturbed`, `Apart` keeps starts from each other
and from stops, `Stage` says what may live at each step of a start or a stop,
and `Named` that the record names it unless a start has not written it yet,
which is `NoOrphan`. Several stops may be under way and remove the same record:
by `Stage` each does so when nothing lives. `StatusTells` follows from `Named` in
the state in which status looks, and needs `Witnessed` besides: a dead process
that still answers a signal is the child of a start under way, so that status
calls none running unless such a start disturbs it.

**SavedConfig.** `Stage` relates the file to the values of the one command under
way: the values resolved from it, those that have been written, and what a child
will read. `Readable` holds however commands overlap: until a save is torn, a
command with the file open has it alone and finds it blank, so that what it
writes is whole, and with no writer the file is complete.

Model-checked only is liveness under fairness, which the provers do not reach:
`Converges`, `Connects`, `StreamReturns`, `GameGoesOn`, `WheelStops`,
`ForceEnds`, `CommandsEnd`, `ReadsOn`.

## What is not modelled

- The probe, monitor and dump commands: they print and change nothing; what they
  call of opening and polling is `WheelSetup`.
- COM, the hidden window and its messages; the ioctls that create the uinput
  device, one step of the models.
- Command-line parsing, endpoint normalisation, paths: functions of strings.
- Byte layout of packets: `Decodes` says only whether tokens agree. Ping and
  Pong are never sent.
- Windows' wmic, tasklist and taskkill. A later start is never given the pid of an
  earlier one; other programs are.
- The failure of an ioctl of uinput other than ff_upload_begin, which ends the
  client like a crash.
- Snapshots that arrive while a client still waits for its HelloAck are
  skipped by the code; in `InputPath` they count as lost.
- Envelopes, phases, delays, directions and condition coefficients, carried
  field by field through the translation.

## Plan

Done in this order, the most important behaviour first: the input path with its
promise and proofs; the session; the FFB path on `PhysicalBackend`; the tests;
processes; defaults; effect translation and units; restarts and failures in the
FFB path; the retry table; device setup; kills, pids and status; the server's
saved token; proofs of the invariants and of both refinements.

Next:

1. theorems about what a composition of the modules below adds;
2. a composition of `Session` and `FfbPath`, so that a test tool and a game use
   one table and one remote;
3. a run of `ManagedProcess` and `SavedConfig` together, since `client start` is
   the two one after the other;
4. the Windows branches of `ManagedProcess`, whose list of processes and whose
   forced end differ in the calls.
