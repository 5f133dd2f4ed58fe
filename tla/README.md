# A TLA+ model of the orbiter

The orbiter carries a loudspeaker around a listener on a circular rail. A host
sends it commands over TCP - one movement and one stimulus each - and an
infrared remote control moves it by hand. The program is about 1500 lines of
C++ at the top of `src/`; this directory models what it does with the commands,
with the motor, with the connection to the host and with the remote control,
checks the models with TLC and proves their safety properties with TLAPS.

## 1. Inventory of the system

| Part | Source | State | Operations |
|------|--------|-------|------------|
| Host protocol | `Toolbox.cpp`, `Toolbox.h` | none | `decodeHostData`, `bCheckForValidity`, `vSetHostDataToZero` |
| Movement control | `main.cpp` | `movement_queue`, `movement_skip`, `bIsFirstCall` (via `bRef`), `iAngle`, `iTargetPosition` | queueing (222-235), processing (251-268), `vProcessMovement`, `calcTargetPosition`, the keys (358-433) |
| Stimulus player | `StimuliLibrary.cpp` | `stimuli_queue`, `hostDataOfHijackedProtocol`, duration, file length, the fraction left, the FMOD objects | `bLoadStimuli`, `playStimuli`, `stopStimuli`, `vPlayStimulusIfToBeTriggered`, `bAdaptStimulusParametersDueToHijacking` |
| Timer loop | `main.cpp` `TimerFunc`, `main` | `cTaste`, `old_cTaste`, the code and the text of the round | one round every 100 ms |
| Infrared receiver | `main.cpp` `ir_func`, `lirc-0.9.4d/lib/lirc_client.c` | `ir_queue` under `ir_mutex`, the library's buffer | `lirc_init`, `lirc_nextcode`, the push |
| Host link | `main.cpp` `tcp_func` and `main`, `TCPClient.cpp` | the socket `sock` and the address, `tcp_queue` under `tcp_mutex`, `exit_app` | `setup`, `receive`, `exit`, reconnecting, the end of the program |
| Motor | `cmaxonmotor.cpp`, EPOS2 library | `keyHandle`, `ErrorCode`, `cErrorNbr`; in the controller: fault, enabled, profile, target | `initializeDevice`, `closeDevice`, `EnableDevice`, `DisableDevice`, `setSpeed`, `Move`, `Halt`, `reachedTarget`, `GetSupply`, `ErrorNbr`, `IdleFunc` |
| Sound output | FMOD library | channels, the end set for the master group | external |
| Not part of the program | `TCPServer`, `MvngSpkrUI`, `main.motor.cpp`, `main.newcurses.cpp`, `IRSend.cpp`, `motor_control.cc`, the rest of `lirc-0.9.4d`, `include` | | not built, unused or vendored |

**How they interact.** Two threads wait for the outside world and push what they
get into a queue each. The main thread empties both queues once per round; of
all texts and of all codes that arrived it keeps the last. The text becomes one
`HostData` object, which is pushed into the movement queue *and* the stimulus
queue. Then, in this order, the round sees to one movement, one stimulus and
one key. A stimulus with the reserved duration 991111 "hijacks" the protocol:
it loops as long as a movement is pending, so the player reads the movement
queue and the motor.

**What is hard.** The order of the parts of a round is what makes an instant
movement instant. The state of the hijacked stimulus is looked at in every
round, and one flag in the shared `HostData` object keeps it from being started
again. A looped file leaves a rest that the next round plays. `iAngle` and
`iTargetPosition` are written by the host's movements and by the keys. Any
field of a text may fail to convert. Texts may be cut, garbled, lost by
overtaking one another, or empty. And the motor and the sound go on by
themselves all the time.

Three things are shared or carried over without protection. `tcp.sock` belongs to
`main`, which connects it when the program starts, and to `tcp_func`, which reads,
closes and connects it again, at the same time and without a lock. `lirc_nextcode`
keeps what it has read too much of in a static buffer, from which every later code
is cut. And nearly no result of a call of the EPOS2 library is looked at: what was
not read is what was in memory, or what was read the round before, and `IdleFunc`
repairs the device from that.

**What makes each part correct.**

* Host protocol: a text is taken wholly or not at all.
* Movement control: movements start in the order they were asked for; an instant
  one does not wait; a queued one waits, but for one exception; the position is
  always that of the angle.
* Stimulus player: the hijacked stimulus is started once, holds the queue, has
  an audio file, and nothing loops without it; the rest is shorter than the
  file and is played once.
* Motor: it is ready after `initializeDevice` and disabled after `closeDevice`,
  whatever they find; memory that was never written does not reach the controller
  by a lost connection alone; an error that was seen is repaired in the end.
* Host link: no descriptor is closed under the reader, none leaks but by a race of
  the two threads, bytes keep their order, the program listens again in the end
  as long as a descriptor is left, and SIGTERM is not forgotten and closes the motor.
* Infrared receiver: the buffer is not overrun, a code is one line, no byte is lost,
  every line arrives once and in order, and the null code that ends the process means lircd has gone.
* Whole program: a stimulus with the reserved duration is a *session* that
  begins while the speaker is busy and ends when it is not; a key received again
  in the next round does not act again; when nothing more is asked for, everything
  comes to rest.

## 2. Modules

| Module | What it is |
|--------|------------|
| `HostProtocol` | `Toolbox.cpp` as operators: a text is a record of what decoding can tell apart |
| `StimuliLibrary` | the player as one record `lib`; the methods are operators that return the object they leave; the actions are the calls of the timer loop |
| `MovementControl` | the movement queue, the movement processing, the keys; the motor as a record |
| `Orbiter` | EXTENDS both; the two threads, `pc` for the part of `TimerFunc` that is next, the shared queues |
| `MaxonMotor` | `cmaxonmotor.cpp` and the part of `main.cpp` that calls it; one EPOS2 call a step, any of which may fail; `pc` is the call and the method that makes it |
| `HostLink` | `TCPClient.cpp`, `tcp_func`, and the start and end of `main`, two threads statement by statement where they share state; the host, SIGTERM |
| `IrRemote` | `lirc_init` and `lirc_nextcode`, `ir_func`, and the key a round takes; lircd writes the lines |
| `SoundSession` | the abstract specification of a stimulus that lasts as long as the movements |
| `MovementPlan` | the abstract specification of the movements: in order, a queued one waits (but for one), an instant one takes the place of all |
| `LineChannel` | the abstract specification of the way from lircd to the timer loop: every line once, in order |
| `MCHostProtocol`, `MCStimuliLibrary`, `MCMovementControl`, `MCOrbiter` | the instances for TLC |
| `HostProtocolProofs`, `MCHostProtocolProofs`, `StimuliLibraryProofs`, `MCMovementControlProofs`, `OrbiterProofs` (which has those of `MovementControl` too), `MaxonMotorProofs`, `HostLinkProofs`, `IrRemoteProofs` | theorems and proofs |

`Orbiter` composes the movements and the player. `MaxonMotor`, `HostLink` and
`IrRemote` are the three borders of that composition, each in more detail than
`Orbiter` needs: what the motor does behind `MotorStep`, where the texts of `TcpPush`
come from, and where the codes of `IrPush` do. They keep to themselves what the
others do not share; `HostLink` has the failing infrared thread of `IrRemote` as one
step, and `closeDevice` of `MaxonMotor` as another.

Definitions keep the names of the source where there is one:
`vProcessMovement`, `bLoadStimuli`, `playStimuli`, `hostDataOfHijackedProtocol`
are what they are in the code. `QueueMovement` and `QueueStimulus` are the two
halves of the protocol interpretation, `ProcessOnFirstCall` is the branch of
`bIsFirstCall`, `HijackGoesOn` and `HijackEnds` the two branches of
`bAdaptStimulusParametersDueToHijacking` and `HijackStays` the case that takes
neither, `PlayRest` and `PlayNext` those of the stimulus processing. `Peek` is the side effect of
`bIsStimulusToPlayAsLongAsMovementsPending`: it loads the front of the queue to
look at its duration, which also resets the rest.

**Grain of atomicity.** Each part of `TimerFunc` is one step of the main thread;
the emptying of `tcp_queue` is one step per text, as its lock is taken per text,
the emptying of `ir_queue` one step, under one lock. What the threads do between
two locks touches nothing that is shared. `bAdaptStimulusParametersDueToHijacking`
asks `reachedTarget` a second time when the first answer was that it is; the two
answers are inputs of the step in `StimuliLibrary`, and when they differ the stimulus
is neither started nor stopped (`HijackStays`). In `Orbiter`, whose motor answers
every call, a motor at rest is not set moving within the part, so they agree.

In `MaxonMotor` a step is one call of the EPOS2 library, so that a fault, a lost
connection or SIGTERM may come between any two. In `HostLink` a step touches the
shared state once: `setup` is the look at `sock`, the `socket()`, the address and the
`connect`, and `TCPClient::exit` is the `close` and the `sock = -1`; `recv` is called
with the descriptor of one moment and returns at another. In `IrRemote` a step is one
call of `lirc_nextcode`, as its buffer is used by one thread; `ir_func` looks at
`exit_app` before the next one (`WhileNotExit`), and `main` does not wait for it.

Definitions marked *Fault* are variants of the code with a plausible error, kept
next to the original to show that the properties notice it. No specification
uses them.

**Abstractions and assumptions.**

* Texts: field values are numbers; which characters they came from is left out.
  The duration has no sign. Loudness, pitch and volume are left out.
* Times are natural numbers of one unit. `playStimuli` divides in doubles. Of two
  32-bit numbers the integral part of the quotient is exact, and the fraction is 0
  exactly if nothing is left, so the loops are; the fraction times the length is
  the rest or a little less or more, and its conversion to an integer the rest or
  one less. Which of the two depends on the bits of the quotient: the pairs of
  duration and length that lose one are the constant `RestFallsShort` (8 over 3 is
  one), and those whose fraction is 0.0001 and is rounded to more than that are
  `LimitIsExceeded`. Both are any sets of pairs of which that may be true, and the
  theorems hold for all of them. The threshold 0.0001 is `FractionLimit` = 10000.
* Speed and angle are in hundredths; a degree is 3604480/261 steps, exactly.
* FMOD: the end set by `setDelay` on the master channel group stops every
  channel when it comes, and is then gone. `channelgroup` before its first use
  is the master group. The audio files exist and have the length `FileLength`;
  a length of 0 is allowed. Paused channels are left out. Equal voices merge.
* EPOS2 in `Orbiter`: every call succeeds, the device has no error, `Halt` makes it
  report its target as reached, and a commanded movement is under way until
  `MotorArrive`. `MaxonMotor` drops all of this but for the last.
* EPOS2 in `MaxonMotor`: a call on a connection that is lost fails, any other may
  fail, those that close the device too, which then stays open; without a handle
  (`VCS_OpenDevice` gave 0) the controller is out of reach; the code of a failing
  call is any; a fault disables the motor; a handle
  does not outlive its connection, and a handle that was never set reaches nothing.
  The number of device errors is not 0 exactly while there is a fault. Calls that
  only read, and whose result nothing depends on, are left out.
* TCP: `connect` is one step and fails on a socket that is connected; `socket()`
  gives the lowest descriptor that is closed; `recv` on a socket that is not
  connected fails at once; a `recv` that waits goes on waiting on the connection it
  was called with. `gethostbyname` may fail at any time, as if the host were always
  given by its name. The host sends on the connection it accepted last. The two
  seconds of sleep after reconnecting are left out: fairness allows for any.
* lircd writes a line as a whole, no longer than a packet, and its socket is never
  full. `read` on it, a stream socket of the same machine, gives what there is as far
  as there is room, and never less: that, and not only the buffer, is what
  `NoCodeOnlyWithoutLircd` and `StreamIsIntact` rest on. The repository holds the source of LIRC 0.9.4d; the program is linked with
  the LIRC client library of the machine it runs on, taken to be that one.
* Memory does not run out.
* `Orbiter`: the program has started and is not being shut down.
* `cNumb` and `iNumbOffs` are left out; only the keys that write them read them.
* `hostDataOfHijackedProtocol` shares its object with the movement queue, where
  nothing reads `toBeTriggerd`.

## 3. Runs

Runs that pass:

| Run | Config | What it shows |
|-----|--------|---------------|
| `host_protocol` | `MCHostProtocol.cfg` | `MessageIsTakenWhole`: although twelve fields are converted one after the other and each may throw, no text is taken in part. |
| `stimuli` | `MCStimuliLibrary.cfg` | The player against any order of messages, movements and time: `StartedOnce`, `EndlessOnlyWhileHijacked`, `HijackIsForMovements` (the function that may end without a return value never does), `HijackHoldsTheQueue`, `RestShorterThanFile` (a rest that waits is shorter than the file that is loaded, whatever messages have been looked at since and however it was truncated), `RestPlayedOnce`, and the types (the unsigned rest is never negative). |
| `movements` | `MCMovementControl.cfg` | `OneInterruptionByQueued`: a queued movement takes the place of one under way at most once in the life of the program. `PositionFollowsAngle`: host and remote control never leave the position and the angle apart, but for the steps `SUB_10` adds. |
| `orbiter` | `MCOrbiter.cfg` | The whole program: `InstantMovementIsInstant` (outside the movement part of a round only queued movements wait), `RepeatedKeyDoesNotAct` (of a key received in two rounds running; with a round in between it may, as `press_acts_once` shows), and the types. `SessionRefined`: the program implements `SoundSession`, fairness included. `MovementsRefined`: it implements `MovementPlan`, fairness included (no request waits for ever at the front of the queue). `ComesToRest`: after the last text and key the queues are worked off, and the speaker is still and no stimulus left. |
| `motor` | `MaxonMotor.cfg` | `InitializeMakesReady`: from a fault, an enabled motor, a device left open or a stale handle, `initializeDevice` comes to an open, enabled motor with the standard profile, unless something fails after the opening. `EndsDisabled`: the end of the program leaves the motor closed and disabled, unless something fails while it is closed. `RampNeedsAFailedCall`: the accelerations `setSpeed` did not read reach the controller only if a call failed and the next one, on the same connection, did not. `SeenErrorIsRepaired`: however often the connection is lost on the way, an error that was seen is repaired. |
| `host_link` | `HostLink.cfg` | `WaitsOnASocket`, `LostByRaces` (a lost descriptor is paid for by a race, but for one at the start), `BytesInOrder`, `ListensInTheEnd` (after drops, a host that is not found and failed attempts `tcp_func` waits on a connection again, unless every descriptor is lost, which by `LostByRaces` takes a race for all but one of them), `SigtermClosesMotor`. `SigtermIsKept`: `main` resets `exit_app` after it has connected, but never one that the handler has set; and a process that ends by itself has closed the motor. |
| `ir_remote` | `IrRemote.cfg` | `BufferHoldsTheBytes`, `StreamIsIntact`, `CodeIsALine`: wherever the room in the buffer cuts the stream, the code, the buffer and the socket hold the lines as lircd wrote them. `NoCodeOnlyWithoutLircd`: the null pointer that ends the process is not met while lircd runs. `LinesArriveInOrder`: library and `ir_func` implement `LineChannel`, with the line at the front of the stream as the next one. `EveryLineArrives`: no line waits in the buffer for the next one, unless the program is ending. The types: a code without a known name never becomes a key. |

Runs that find a promise of a comment or document broken:

| Run | Promise | What the code does |
|-----|---------|--------------------|
| `endless_movements` | `StimuliLibrary.h:62` "Plays as long as there is something in the queue" | the end set for an earlier stimulus silences it |
| `every_text` | `main.cpp:218` "If a tcp-message has arrived" | only the last of several texts is interpreted |
| `invalid_text` | `Toolbox.cpp:74` "nothing to process for the motor / audio control" | the zeroes of a text that is not valid mean "instant": it commands nothing, and the movement under way goes on, but what waits in both queues is cleared; in the trace, a stimulus behind the one in progress |
| `main_starts` | `main.cpp:590` "Connecting to server at", `main.cpp:592` "Connected!" | if `tcp_func` has connected the socket, `connect` fails for `main` for ever, and the timer loop never starts |
| `press_acts_once` | `main.cpp:358` "Entprellen der Infrarot Fernsteuerung" | a round without a code between two codes of a held key makes it act again |

Not stated as properties, but worth knowing, as the model has them: the first queued
movement that finds another under way interrupts it (`main.cpp:254` has
"(movementFinnished OR Skip_this_movement)"); the decimals of an angle are cut off
(`Toolbox.cpp:23`); a queued stimulus does not wait for the one before, and the rest
of a looped file starts while the loop sounds (`main.cpp:277`, `282`); `tcp_func`
started before `main` has set `ip_addr` ends the process (`main.cpp:115`); a message
may come in pieces, each of which is a text (`TCPClient.cpp:72`); a `SetEnableState`
that fails once leaves the motor disabled, unnoticed (`cmaxonmotor.cpp:82`); and
directions 3 to 9 and angles beyond
360.00 are accepted (`Toolbox.h:9` has 0 to 2 and 000.00 to 360.00); an instant
stimulus waits for the hijacked one in progress; and the 16 characters of the
command in `readme.md:49` are decoded to nothing, as any cut text is.

**Bounds, and why they are enough.**

* `MCHostProtocol`: lengths around each at which fields are missing, at most one
  field without digits (the first that throws decides), and values at and beyond
  each limit of the validity check (`MCTexts`; the module and its proofs are for any
  set `Texts`). It ends after one step: no deadlock check.
* `MCStimuliLibrary`: a file of 2 units, one of 3 and one of 0, with durations
  below, equal to, and above the length, with and without a rest, and the
  reserved one; `MaxQueue` entries. Every branch of `playStimuli` is taken, and a
  second entry waits behind a hijacked one. `FractionLimit` is scaled down to 3, so
  that a third of the file is at the threshold: 4 and 8 over 3 lose one of the rest,
  the fraction of 4 is not more than the limit and that of 7 is, as it is rounded.
* `MCMovementControl`: three messages with data of `MCHostData` (the module and its
  proofs are for any set `Data`), and two keys. One interruption needs two
  movements, a second would need a third.
* `MCOrbiter`: three texts (queued and instant movements, the reserved duration,
  a short stimulus, no movement, a text cut short, an empty one) and two keys
  (`PLAY`, `STOP`, and a code without a known name). That makes one session during
  another's movement, a text overtaking another, and a key held over two rounds. The
  lengths are 1 and 2, for which the doubles are exact, and the limit is that of the
  code.
* `MaxonMotor`: one speed (nothing branches on its value) and `MaxTroubles` = 3. The ramp needs two (a call that
  fails, and a loss before or after), an error that is seen and lost again while it
  is repaired needs three. The rounds are not bounded. It has no deadlock: SIGTERM
  may always come again.
* `HostLink`: `MaxFd` = 2 descriptors, `MaxDrops` = 2, `MaxMessages` = 2. Races are
  not bounded; the variable that counts them is a history that stops at `MaxFd`. One
  race and the start are enough to lose both descriptors, and TLC reaches that, as
  well as the states with one left. 28 and 100 bytes are scaled down to
  `MessageLength` = 2 and `BufferSize` = 3, which keeps that a buffer holds more than
  one message and is not a multiple of one, so that it cuts the second. It may stop (the process ends, or
  `tcp_func` waits for a host that sends no more): no deadlock check.
* `IrRemote`: `PACKET_SIZE` 256 is scaled down to 5, with lines of 2 and of 5 bytes, so
  that a packet holds one line, or two and a piece, or one and a piece; `MaxLines` = 4
  lines fill the buffer with pieces twice. (`press_acts_once` has 4, and lines of 2 to
  4 bytes.) It may stop: no deadlock check.

**Fairness.** `WF(TimerLoop)`: the main thread is in an endless loop and never
waits for good, as a mutex is held for one push or the emptying of one queue.
`WF(MotorStep)`: a commanded movement reaches its target. There is no fairness
for the host, the remote control, or FMOD. In the instance the host and the
remote control ask for finitely many things, which is what `ComesToRest` is
about; a host that sends for ever keeps the speaker busy for ever, and rightly.
`MaxonMotor` has `WF(Program)`, as no call of the library waits for good, and
`WF(PlugIn)`: without a connection nothing can be repaired. `HostLink` has weak
fairness for both threads (the scheduler's) and for the start of the host: a program
whose host never comes back cannot listen. The name of the host has strong fairness
(`Resolves`): looked for again and again, it is found again and again; an address in
numbers, as the program's own, always is. `IrRemote` has it for `ir_func` and for the
rounds and the end of `main`, not for lircd.
`SoundSession` has `WF(End)`: a session does not outlast the movements for good
if no more of them come. `MovementPlan` has `WF(Start)`: a request that may start
does. `LineChannel` promises no progress, as ir_func ends with the process.

## 4. Proofs

All theorems are proved for every value of the constants: any audio lengths
(`FileLengthAssumption`), any limit and any rounding of the doubles
(`FractionLimitAssumption`, `RestFallsShortAssumption`, `LimitIsExceededAssumption`: a
rest that loses one is not 0, and the limit is exceeded by rounding only where it is
met), a null pointer that is no data (`NoDataAssumption`),
key codes that are distinct (`KeyAssumption`, `RemoteKeyAssumption`), speeds that are
natural numbers, lengths that are not 0, and lines that fit into a packet. There are
no bounds on queues, texts, keys or races, and the bounds of `MaxonMotor`, `HostLink`
and `IrRemote` are any natural numbers. The instances `MCHostProtocol` and
`MCMovementControl` are proved about for any set of texts and of data, not for the
one that TLC enumerates.

* `HostProtocolProofs`: `DecodeType` and `MessageTakenWhole` are facts about
  `decodeHostData` for every text. They supply what the rest of the program relies
  on: a record of the host names an audio file or is zero. `MCHostProtocolProofs`
  carries the second over to the invariant of the run.
* `StimuliLibraryProofs`: the inductive invariant is `ObjectOK(lib)`, stated of
  an object so that there is a lemma for every method. Three parts strengthen
  the properties: a file of some length has been loaded before anything is
  unpaused (`PlayerOK`); the rest, the duration and the file length agree, which
  only looking at all three makes inductive; and the hijacked stimulus has its
  duration and file, and once it sounds its flag is taken back (`HijackOK`). That it
  does not ask to be started as long as it is in progress (`StartedOK`) is true only
  of the whole program, where the controller gives one answer to two questions, and is
  proved there (`StartedNext`). `RestOK` is all that is used of the doubles: the
  rest is a natural number below the length. From these follow the five invariants
  and the two action properties.
* `MCMovementControlProofs`: `InterruptsOnce`, with the history variable of the
  instance: while the flag is set nothing has been counted.
* `MaxonMotorProofs`: `MotorInv` adds to the types what the program knows at each
  point. `ConnectionInv`: an open connection has its handle and is plugged in.
  `ReturnInv`: which of the calls may follow `closeDevice` and `initializeDevice`
  where. `ReadyInv`: how far a trouble-free initialisation has come, call by call, so
  that the last one finds the motor ready; `EndInv` the same for the closing.
  `RampInv`: garbage in the local profile or the controller means a failed call, or a
  handle that cannot write it. None of the properties is inductive alone, as each
  speaks of one point only.
* `HostLinkProofs`: `LinkInv`. `SocketInv`: a socket that is not connected holds
  nothing, and the host sends on a connected one. `OrderInv`: what is unread on the
  member's socket, and on the one `recv` waits on, is newer than what was read; when
  `main` has put another one in its place, all of the old one is older than the new
  one, and the host no longer sends on it. `LostInv`: what is lost and what *may be
  lost next* is paid for: `MayLose` says when a thread stands before a step that loses
  a descriptor, and a thread comes there only by a counted race, or before the first
  socket. `LostByRaces` counts only what has happened, and is not inductive.
  `SignalInv` is apart from these: `exit_app` is set only once the handler is
  registered, which is when `main` has left the part of its code that resets it, and
  `main` returns only after `closeDevice`. `SigtermIsNotLost` follows.
* `IrRemoteProofs`: `IrInv`. `StreamInv` says of the whole stream (code, buffer and
  socket in one) that every byte is in its place in its line and lines follow one
  another, and that no line is longer than a packet; reading and returning a line
  then only move the borders. `ClientInv`: the buffer fits, and between two calls it
  holds no code. `TimerInv`: the queue holds numbers of lines. That the first newline
  exists as `LineEnd` chooses it is shown from the well-foundedness of the subset
  order (`LeastOf`), as there is no induction. `EveryLineOnceInOrder` is the whole of
  `LinesArriveInOrder`: a push takes the line at the front of the stream, and what
  follows its newline is the next line, or nothing if it was the last one written;
  every other step of the library leaves the stream as it is.
* `OrbiterProofs`: first `MovementInv` of the movements alone (types and
  `PositionFollowsAngle`). `OrbiterInv` joins it with that of the player and with
  `WaitingOK`: if `movement_skip` is set and anything waits, it is one instant movement,
  *alone*, just before it is processed; otherwise all that wait are queued.
  `InstantMovementIsInstant` alone is not inductive, as it says nothing of the state
  in between. `old_cTaste = cTaste` between rounds makes `RepeatedKeyDoesNotAct`
  provable (`RepeatedKeyIsIdle`).
* Refinements of the whole program, also in `OrbiterProofs`. `SessionIsSafe`: every
  step is a step of `SoundSession` or a stutter. `MovementsArePlannedSafely`: the same
  for `MovementPlan`. This needs `WaitingOK` as it stands: the code looks at
  `movement_skip`, which is that of the message interpreted last, where
  `MovementPlan` looks at the request it carries out.
* Composition. `ComponentsComposed`: a behaviour of `Orbiter` is one of
  `MovementControl` and one of `StimuliLibrary`. So what is proved of these under any
  order of calls holds of the timer loop with both threads, and
  `ComponentsKeepTheirPromises` says so of their seven safety properties.

Only model-checked: the liveness properties (`ComesToRest`, `SeenErrorIsRepaired`,
`ListensInTheEnd`, `SigtermClosesMotor`, `EveryLineArrives`) and the fairness parts of
`SessionRefined` and `MovementsRefined`. They need fairness and `ENABLED`, which are
out of the prover's reach. Every other property of the runs that pass is stated by a
theorem.

## 5. Not modelled

* `MusicScale`: a table of pitches, for an oscillator whose channel is replaced at
  once. `TCPServer`: used by nothing. `MvngSpkrUI` and the former programs: not in
  the build.
* Volume, pitch, the DSP handles and the 32 channels of FMOD: what FMOD does with
  them is not in the repository.
* `tcp_queue.empty()` read without the mutex: what `std::queue` answers in the middle
  of a push depends on the library.
* `DisplayFunc` but for `GetSupply`, and everything that is printed.
* `src/lirc-0.9.4d` but for the client functions the program calls, and `src/include`:
  LIRC's daemon, drivers and tools are a program of their own, which this one meets as
  the lines on a socket, and the headers of GL, GTK and others hold no code of the
  program. They are some 150000 of the lines under `src/`, next to about 1500 of the
  orbiter, of which nearly all that change state are modelled.

What could come next: `MaxonMotor` in the place of the motor of `Orbiter`, and
`LineChannel` in the place of its `IrPush`, which need smaller instances of all of
them; and a theorem that bytes of the host are skipped only with the connection they
came by or at the end of a full buffer. The hazards the model does not cover are
listed in `PROJECT.json` with the reason.
