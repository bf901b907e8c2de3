# A TLA+ verification of PINC

PINC drives a small CNC machine: a Qt program on a Raspberry Pi reads G-code
and commands one Raspberry Pi Pico per axis over SPI; an FPGA collects the
status pins of the Picos, debounces limit switches and the hand wheel, and
interrupts the host. This directory holds TLA+ models of that program, the
configurations that check them with TLC, and proofs checked by TLAPS.

## 1. Inventory

Three generations of the program live in the repository. The root build uses
the current one (`c/`, `spi` on the Pico, `gui/`, `gcode/`, `pincProcessor`,
`pinc.cpp`); the ESP32 generation (`esp/`, `spi/`, `device/`, `pincLaser2D`)
and the first C host (`c/host_main.c` and what it includes) are kept beside it.

| Component | State | Operations | Correct when |
|---|---|---|---|
| Command link (`c/stepper/pi_stepper.c`, `c/io/pin_request.h`, `c/spi/spi_client.h`, `pico/src/pinc.c`) | per stepper: mutex, request flag and semaphore, last status; shared: `pin_req_sem`, SPI mutex; Pico: latched edges, `spiQueue`, receive buffer, `msgQueue` | `stepper_config/move/pause/jog/home/update`, `stepper_pin_isr`, `stepper_read_fpga`, `gpio_isr`, `get_spi_msg` | one Pico drives MISO; a message is clocked only into a listening Pico; no status change is lost; every call returns |
| Pico motion controller (`pico/src/stepper.c`) | current move, alarm, `sem`, status bits, three pins, position, `homed` | `stepper_msg_handle`, `stepper_move`, `pause`, `stepper_home`, the two alarm callbacks, alarm and sync interrupts | one alarm at a time; pins tell the truth; a paused move resumes as itself; a move ends |
| Stepper control (`gui/pincStepperControl.cpp`) | map of steppers, feed rate, SYNC pin, timer | `addStepper`, `jog`, `home`, `sync_move`, `run`, `pause`, `update` | all axes of a block start together and only then; SYNC pin low before the next block arms; the GUI thread never blocks for ever |
| Program processor (`pincProcessor.cpp`, wiring in `pinc.cpp`) | program, block index, running, paused, reset, control mode | `run`, `hold`, `reset`, `next`, `setMode`, `jogHandle` | blocks in order, each once; no block while paused or after reset |
| FPGA (`fpga/.../main.v`, `signal.v`, `spi.v`, `data_register.v`) | debounced status, register file with one port, interrupt lines, SPI shift state | capture, register write, read, clear on chip select | every change reaches the register and raises an interrupt |
| Step geometry (`c/stepper/stepper_common.h`) | a move: current and end point, phase, speed | `line_step_2d`, `curve_step_2d`, `stepper_accel`, `total` | ends at the end point, in the stated number of steps, speed within its limits |
| Jog panel, mode buttons (`gui/pincJogControl.cpp`, `gui/pincControlModeButtons.cpp`) | wheel bits, selected axis, mode | wheel interrupt, buttons | one jog per detent, right direction |
| G-code and editor (`gcode/`, `gui/pincEditWindow.cpp`) | list of blocks, words per block | load, edit, insert, remove | the block list mirrors the text |
| ESP32 axis (`esp/`, `common/motor_common.h`) | motor state, timers, SPI handshake, sync group | message handler, timer interrupts | as for the Pico |
| ESP host side (`spi/`, `device/`, `pincLaser2D.cpp`) | message queue, handshake interrupt, groups, laser | queueing, group moves | as for the control |
| First C host (`c/host_main.c`, `c/stepper/host_stepper.c`, `c/io/signal.h`, ...) | request state | test program | superseded |
| Binary search tree (`c/algorithm/bst.c`) | tree with heights | insert, remove, rebalance | ordered and balanced |
| Displays, expander, gyroscope, widgets | none of interest | output | not modelled |

How they interact. `pincProcessor` emits `blockReady`, `pause`, `jog` and `home`
(Qt direct connections, GUI thread); `pincStepperControl` turns them into
`stepper_*` calls, which block on the link; a 10 or 50 ms timer calls `update`,
which polls every stepper and emits `moveReady`, which makes the processor go
on. Under it, one pigpio interrupt thread and a detached thread per interrupt
run `stepper_read_fpga`, and those threads call `stepper_update` themselves. A
Pico has two cores and three interrupts; the FPGA runs in 10 ns cycles.

What is hard: host threads that share semaphores and a status byte without a
lock; status that travels pin, FPGA register, interrupt, reader thread; reads
that clear; two queues that drop when full; a motion callback that interrupts
the message loop of its own core; pause and resume against moves that end.
`PROJECT.json` lists the hazards with their lines.

## 2. Plan

What was planned, and where it is now:

| module | models | part of |
|---|---|---|
| `PicoLink`, `SpiBus`, `PicoLinkBus` | the command link, what it promises, that it does | section 3 |
| `PicoMotion`, `Axis`, `PicoAxis` | a Pico's motion controller, the axis the host sees, that it is one | section 4 |
| `StepperControl` | GUI thread, processor and modes over such axes | section 5 |
| `FpgaInputs`, `FpgaStatus`, `FpgaSpi` | the FPGA, clock edge by clock edge | section 6 |
| `MovePath`, `JogWheel`, `BlockMove`, `ProgramEditor`, `SearchTree`, `OrderedMap` | the sequential parts | section 7 |
| `EspAxis`, `EspLink`, `LaserProgram`, `FirstHost` | the earlier generations | section 8 |

A module `X_proofs` holds the theorems about `X`, `PicoLink_proofs` also those about
`PicoLinkBus`, `Fpga_proofs` those about
`FpgaInputs`, `FpgaStatus` and `FpgaSpi`, `Algorithms_proofs` those about `MovePath`,
`JogWheel`, `BlockMove` and `ProgramEditor`, `Earlier_proofs` those about `FirstHost`,
`EspAxis`, `EspLink` and `LaserProgram`. `MCPicoLink` and `MCStepperControl` give constants their values. `MCFpga`, `MCAlgorithms` and
`MCEarlier` put parts that share no state side by side: a variable (`circuit`,
`part`) chooses the one that runs while the others rest in a state of their
own, so that one run checks them all; a property of such a module is the
conjunction of the named parts of one component.

Every model names what it assumes of users, timing and surroundings, mostly as
words in a constant `Calm` (`BlockCalm`, `EditorCalm`, `AxisCalm`, `LinkCalm` and
`LaserCalm` where several modules run together). The code does not enforce these assumptions; a word
can be taken out, and what TLC then finds is said below and at the hazards in
`PROJECT.json`.

| run | module | states | shows |
|---|---|---|---|
| `link_safety` | `MCPicoLink` | 664 000 | section 3 |
| `link_refines`, `link_calls` | `MCPicoLink` | | section 3 |
| `link_overlap` (violation) | `MCPicoLink` | | section 3 |
| `motion_safety` | `PicoMotion` | 223 000 | section 4 |
| `motion_axis` | `PicoAxis` | 120 000 | section 4 |
| `motion_pin` (violation) | `PicoMotion` | | section 4 |
| `control` | `MCStepperControl` | 17 000 | section 5 |
| `control_any` | `MCStepperControl` | 2 562 000 | section 5 |
| `fpga` | `MCFpga` | 619 000 | section 6 |
| `algorithms` | `MCAlgorithms` | 1 388 000 | section 7 |
| `earlier` | `MCEarlier` | 451 000 | section 8 |

Left for later: the order of initialisation at power-up, the setters in
millimetres, the byte layouts of `common/motor_common.h`, the removal of inner
nodes of the tree; liveness of the earlier generations.

## 3. The command link

### What is modelled

`PicoLink` has three kinds of process. *Callers* are host threads inside a
`stepper_*` function; all of these send one message between `stepper_lock` and
`stepper_unlock`, so they are one behaviour:

| action | code |
|---|---|
| `Call`, `Lock` | a call of `stepper_config` ... `stepper_update`, `stepper_lock` |
| `Trigger` | `pin_request_trigger`: wait for `pin_req_sem`, flag, fresh semaphore, request pin up |
| `Wait` | `pin_request_wait` |
| `Transfer` | `spi_send` on CS1; every Pico whose SPI side is enabled takes the bytes |
| `Reset` | `pin_request_reset`, `stepper_unlock`; a reader thread ends here |

*Readers* are the detached threads of `stepper_pin_isr`:

| action | code |
|---|---|
| `Spawn` | `stepper_pin_isr`, thread start, the stepper's transfer descriptor |
| `Fetch`, `CsRise` (twice) | `spi_send` on CS0: the register is read, then the rising chip select clears the interrupt |
| `Update` | `signal_update(&status_sig, rx[1])` |
| `Post`, `UnlockTest`, `UnlockPost` | `pin_request_post`, the two halves of `pin_request_unlock` |
| `MotionTest` | `stepper_update` when IN_MOTION rose, which is a call like any other |

*Picos* have `IsrRise` and `IsrFall` (`gpio_isr`), `Arm` and `Remove`
(`get_spi_msg` before and after the transfer) and `Handle` (`core1_main`).
`Capture` is the FPGA, `MotorStart` and `MotorStop` the IN_MOTION pin.

Abstracted: the contents of messages (a buffer holds the stepper the message
was sent to, or nothing), the bits SYNC_READY and MOVE_READY (no code of the
link other than `sync_sem` reacts to them), debouncing (`Capture` takes any
subset of the changed bits) and the timing of everything. A status thread ends
with its buffers; `rxTo` follows the descriptor that points into them.

`SpiBus` says what the link promises: the bus has one owner, a transaction goes
asked, ready, sent, done, free, and a message is added to the inbox of exactly
the Pico it was sent to unless that holds `QueueLen` already. `PicoLinkBus` gives the
mapping: the owner is the stepper for which `Holds` is true, the stage shows at
the two handshake pins and the buffer.

### What is checked

| run | instance | shows |
|---|---|---|
| `link_safety` | 2 steppers, 1 caller, 3 readers, 1 motor start, message queue of 1; 0.66 million states up to symmetry | no deadlock, `OneBusOwner`, `ClockedWhenReady`, `FallMeansComplete`, `ViewFresh`, and the invariant `LinkInv` of the proofs, with the types in it |
| `link_refines` | 2 steppers, 1 caller, 2 readers | `ImplementsBus`: every step is a step of `SpiBus`; `ImplementsFairBus`: every transaction ends |
| `link_calls` | 1 stepper, 1 caller, 2 readers, 1 motor start | `CallReturns`: every `stepper_*` call returns, those of the readers included |
| `link_overlap` | 2 steppers, 3 readers, overlapping | violation of `FallMeansComplete` |

Bounds. `MaxMoves` bounds motor starts, each of which may create a reader that
goes on to `stepper_update`: with one, a caller and such a reader compete for a
stepper while a third thread reads. `Readers` bounds the threads alive at one
time; with `n` of them stuck in calls there must be one left to read, so it
exceeds `MaxMoves` by at least one. `SemCap` bounds the count of a request
semaphore; posts beyond two change nothing here. Two steppers are enough for
the bus to change hands and to be held twice. `MsgQueueLen` is 2 in the code; a
message queue of 1 keeps `link_safety` short and is full sooner. The theorems
have none of these bounds.

Fairness (only in `link_refines` and `link_calls`). Threads are strongly fair,
because `sem_wait` and `pthread_mutex_lock` promise a thread no queue position
but the C library does not starve a waiter for ever; the start of a reader
thread is strongly fair for the same reason; the interrupts and the main loop
of a Pico and the FPGA run without waiting for anyone, so they are weakly fair.
Callers need not call and motors need not move.

### Two assumptions about scheduling

`SerialReads`: a reader is done with its signal before the next reader of the
same stepper starts. The code does not enforce this: a thread is started per
interrupt, and they share `status_sig` and the transfer descriptor. A reader
needs a few microseconds after its second transfer, while the next change is at
least a Pico reaction away, so it usually holds; under load it need not.
Without it (`link_overlap`) a reader that is preempted between `signal_update`
and its tests sees the rising edge that another reader has served, and
`pin_request_unlock` gives the bus away while a transaction runs: two Picos arm
together, each takes bytes meant for the other, and a caller can wait for ever.
`OneBusOwner`, `ClockedWhenReady` and `NoMergedEdges` fail in the same way.

`PromptRemove`: core0 has taken its entry out of `spiQueue` and is back at the
peek before the host raises the same request pin again. The host needs two SPI
transfers and a thread start for that, core0 a few instructions. Without it the
new request finds the queue full and its caller waits for ever. Safety does not
depend on it, and no theorem uses it.

The FPGA is assumed to treat a capture, a read and a clear one after the other;
in its 10 ns cycles two of them may meet (section 6).

### What is proved

`PicoLink_proofs` proves, for any number of steppers, callers, readers and motor
starts:

- `LinkType`: `TypeOK`, without any scheduling assumption;
- `LinkInvariant`, under `SerialReads`: `LinkInv` is inductive;
- from it `LinkOneBusOwner`, `LinkClockedWhenReady`, `LinkFallMeansComplete`,
  `LinkNoMergedEdges`;
- `LinkViewFresh`, under `SerialReads`, with `FreshInv` on top.

The argument of `LinkInv`. The semaphore is a token: it is 1, or exactly one
stepper *holds* it (`TokenInv`), where holding means that its transaction runs,
or the host still believes its SPI_READY low, or a reader is on its way to the
post of `pin_request_unlock`. A change of SPI_READY goes down a chain, pin,
register, reader, status (`ChainInv`), and the handshake starts the next change
only after the last one has come out at the end: the Pico arms because the
request pin rose, the caller transfers because the host saw the pin low, the
bus is given away because the host saw it high. So the pin of a stepper that
does not hold the token is high, and `OneBusOwner` follows. `OneBusOwner` alone
is not inductive: it says nothing of the semaphore, of permits left behind, or
of the edges still latched (`PicoInv`). One lemma per part (`LinkReader`,
`LinkRequest`, `LinkChain`, `LinkPico`, `LinkToken`), one step per action.

`FreshInv` says that a register change the host lacks has an interrupt pending,
or a reader that has yet to read; and that a reader past its second read has
the register as it is, because any change since would have found the interrupt
line high and pulled it down.

The last part of `PicoLink_proofs` proves `LinkImplementsBus`, under `SerialReads`: every
step of the link is a step of `SpiBus` or leaves the mapped state alone. The
mapping changes at five places only: the trigger, the Pico's answer, the
transfer, the falling edge that queues the message, and the post that gives the
bus away; at each of them `LinkInv` and `PinInv` (which stepper's request pin
is up) say that the owner and its stage are those the abstract step starts
from. Every other action maps to a stutter.

Only model-checked: the liveness properties `CallReturns` and
`ImplementsFairBus`.

## 4. The motion controller of a Pico

### What is modelled

`PicoMotion` is one axis: the commands core1 takes out of `msgQueue`, the alarm
callbacks that interrupt core1 between any two of its steps, the pin interrupts
of core0, and as much of the host as sends the commands.

| action | code |
|---|---|
| `HandleMove`, `HandleHome` (`Accept`) | `stepper_msg_handle`, `stepper_home`, `stepper_move` up to its printout |
| `StartJog`; `StartLine`, `Launch` | the rest of `stepper_move`: the jog alarm; SYNC_READY, then the permit and the alarm |
| `HandlePause`, `Cancel`; `HandleResume`, `Launch` | `pause(s, true)`: pins, then alarm; `pause(s, false)`: pins, then permit and alarm |
| `HandleNothing`, `Remove` | a command without effect; `queue_remove_blocking` |
| `JogStep`, `JogLoad`, `JogStore`, `JogEnd` | `jog_alarm_callback`; `steps = steps - 1` is a load and a store, because core0 writes `steps` |
| `LineStep`, `LineEnd` | `sync_alarm_callback` |
| `Stop` | `stop()`, with the way back after homing |
| `SyncRise`, `LimitFall`, `LimitRise` | `gpio_isr` |
| `HostJog`, `HostLine`, `HostPause`, `HostResume`, `HostUpdate` (`Send`) | `pincStepperControl`, `pincProcessor::run` and `hold`; the end of a transfer queues the message |

Abstracted: a line or curve is the number of points it has, and whether this
axis steps at a point is left open; speed and acceleration only set the time
between callbacks, which is arbitrary here. `LimitFall` does its three stores in
one step. Left out: `STEPPER_CMD_CONFIG`, and blocks other than G1 to G3, which no
module has (section 9). `want`, `made`, `tripped`,
`late`, `toZero` and `edge` are history, read by properties only.

### What is checked

| run | assumptions | shows |
|---|---|---|
| `motion_safety` | prompt, hold, alone, ahead | `OneAlarm`, `ReadyIsQuiet`, `NoEarlyStart`, `StepsExact`, `HomeAtZero` |
| `motion_axis` | prompt, hold, pulse | `ImplementsFairAxis`: the pins behave as `Axis`, every move ends and every line arms; `LimitStops`: no step after the switch has closed |
| `motion_pin` | all | violation of `PinShowsMotion`, which states the comment at `stepper.h:36`: a held line shows no motion at the pin while its status says IN_MOTION |

Bounds. `Lengths` 0 to 2: nothing to do, one step, a step between two others,
which is enough for a hold or the switch to fall before, inside and after;
`motion_axis` has 0 and 2.
`MaxHome` 3 lets homing meet the switch or run out; `JogSteps` 1 makes the way
back two steps. The counter wraps at `Wrap` = 5, past every count in use, so a
wrapped counter shows. `MaxPos` saturates the position beyond what any
property reads. `msgQueue` has its length, 2. The theorems have none of these
bounds.

`Axis` is the axis `StepperControl` is written against: a queue of two commands, a
permit, and the states idle, armed, run, held and jog. `PicoAxis` maps: the pins
tell the state, but for a line that waits for the sync signal (armed) and one
that is being accepted (idle); the queue is `msgQueue` without updates and
without the way back homing sends to itself. Without prompt or hold the safety
part of the refinement fails too; without pulse only its liveness, because a
jog whose counter has wrapped runs for ever.

Fairness (only in `motion_axis`). Core1 goes on when it can. Its timer is
strongly fair: a callback is put off while core1 is in another, and under
"hold" while a hold is in the queue, but not for ever. The host raises the
sync signal once it has seen SYNC_READY. `SF_vars(HostResume)` says that the
user, having held the program, goes on with it some time; without it a held
line stays held, as it should. Moves, holds and updates need not come.

### Five assumptions about the surroundings

The code does not enforce them; each names what TLC finds without it, and
`Calm` switches them one by one.

- *prompt*: a message arrives while core1 is idle or in one of its two long
  waits (the printout of a move, the permit). A transfer takes the host some
  100 us at least, a command of core1 a few. Without it a hold may find the queue
  full and be dropped; the host's resume then starts a second alarm beside the
  first, and `OneAlarm` fails.
- *hold*: a hold meets a running line and is handled before the line ends. The
  processor holds whenever a program runs, whatever the axis does. A hold that
  meets a jog resumes it as `sync_alarm_callback`, which never ends; one that
  meets the end of a line resumes an alarm for a move that is over, while
  MOVE_READY already asks for the next one (`ReadyIsQuiet`,
  `ImplementsFairAxis`).
- *alone*: no jog or home before the axis shows ready. Otherwise a home sent
  during homing waits in front of the way back, is executed from behind the
  switch, and the way back is dropped (`HomeAtZero`).
- *ahead*: a homed axis is not homed again while it stands between 0 and its
  switch, at a negative position. `stepper_home` takes `steps = s->pos` and the
  direction down whatever the sign: an `int` of -3 becomes an unsigned count of
  2^32 - 3, and the axis runs away from 0, towards the switch (`HomeAtZero`). In
  the model the count wraps at `Wrap`, as it does for the step counter.
- *pulse*: the switch does not close between the test of the step counter and
  its decrement, most of which is the 8 us pulse. If it does, 0 - 1 wraps and
  the motor runs on into the switch (`LimitStops`). `motion_safety` does not
  assume it.

### What is proved

`PicoMotion_proofs` proves, for any lengths, homing distance and counter width:

- `MotionType`: `TypeOK`, with no assumption about the surroundings;
- `MotionInvariant`, under prompt and hold: `MotionInv` is inductive;
- from it `MotionOneAlarm`, `MotionReadyIsQuiet`, `MotionNoEarlyStart`;
- `MotionStepsExact`, under prompt and hold, with `CountInv`: until the switch
  closes, the steps made and those to come are the steps wanted, a callback
  under way having made one it has not counted down;
- `MotionLimitStops`, under prompt, hold and pulse, with `SwitchInv`: what the
  switch writes into the move stays there;
- `MotionHomeAtZero`, under prompt, hold, alone and ahead and for `MaxPos` of at
  least `2 * JogSteps`, with `HomeQueue`, `HomeAhead` and `HomePath`: a home core1
  has yet to begin finds the axis at rest, so the axis is still at 0 or beyond; a
  move to 0 has as many steps to make as it is away from 0; and nothing gets in
  front of the way back;
- `MotionHomedAtSwitch`, with no assumption: an axis counts as homed only from a
  moment at which its switch was closed.

The argument. An alarm in the pool is always the current one and belongs to a
move under way (`AlarmInv`), so what is to be shown is that core1 adds one only
to an empty pool. For a new move that follows from IN_MOTION being clear. For a
resume it needs the history of the hold: from the moment the host holds, its
pause is alone in the queue or has been handled, the line neither ends nor
starts meanwhile, and once the pause is out of the queue the pool is empty until
the resume (`HoldInv`). A permit is never left over because the signal
rises only for an axis that is armed, which core1 is only while it waits at the
semaphore (`SyncInv`). `OneAlarm` alone is not inductive: it knows nothing of a
resume that is still in the queue. One lemma per part, one step per action.

`PicoAxis_proofs` proves, under prompt and hold, that a Pico is an axis:
`PicoIsAnAxis`, every step of core1, of its timer, of the host and of the limit
switch is a step of `Axis` or one the host cannot see. The invariant it needs
(`PicoAxisInvariant`) says on top of `MotionInv` what the pins show (`PinsInv`:
all high at rest, or only SYNC_READY on the way back from the switch; a jog
lowers the other two, an armed line all three, a hold raises two again) and for
which state of the axis a command at the peek was sent (`QueueInv`: a resume
finds a held line, a line an axis that is ready). Most steps map to themselves.
Two do not: a move that is printed is taken by the axis only when it is over,
and homing takes the way back, which its mapping hides, with a step the host
cannot see; if a further move waits behind it, that is ignored, or posted,
by the same step.

Only model-checked: the liveness part of `ImplementsFairAxis`.

## 5. Stepper control, program processor and modes

`StepperControl` is the GUI thread over `N` axes. A handler runs to its end, but
`sync_move`, `pause` and `update` read statuses that reader threads write and
wait for the axes, so each is a sequence of steps: `pc` says where it is and `k`
at which axis of its loop.

| action | code |
|---|---|
| `Start`, `Resume`, `Hold`, `Reset` | `pincProcessor::run`, `hold`, `reset`; `Decide` contains `next` |
| `SendLine`, `LineRefused`, `WaitSync` | the two loops of `sync_move`, and its return in the middle |
| `SendPause`, `SendResume` | `pincStepperControl::pause`; `WaitSync` its wait |
| `Timeout`, `ReadStill`, `ReadReady`, `Decide` | `update` under the timer: two reads per axis, then the sync signal, `moveReady` and the next block |
| `SetMode`, `Jog` | mode buttons with the wiring of `pinc.cpp`; `jogHandle`, `jog`, `home` |
| `ReadStatus` | a reader thread: the status byte, `sync_sem` |
| `Handle...`, `Launch`, `MoveEnd` | the axis, as in `Axis` |

`control` has two axes, programs of one, two and three blocks, two starts and the
four modes that matter to the axes: `StartTogether` (the sync signal rises only
when every axis is armed, all with the same block), `BlockAfterBlock` (each axis
carries out every block in order), `NoneLeftArmed`, `HoldHolds`, the invariant
`ControlInv` of the proofs, and that the GUI never stays blocked (`NeverHangs`)
and programs end (`ProgramEnds`). Two axes give a first and a last of every loop,
more are for the proofs; two starts give a program that finds what the one before
has left. `control_any` lifts every assumption on the user and the readers: lines
are refused, moves ignored, axes left armed, and still no axis carries out a block
twice (`NeverTwice`).

Fairness: the GUI thread goes on when it can; the timer, the readers and the
axes run on their own; a move that is held and resumed goes on where it was,
hence strong fairness of its end; the user resumes what he has held.

Assumptions (`Calm`): *rest*, run starts a program and reset is pressed while
every axis is at rest and seen so and the sync signal is low again; *alone*,
jogs likewise, and not between the first block of a program and the reset after
its last; *seen*, run resumes after the hold has been seen; *steady*, no reader
stores a status in the middle of `update()`. Without rest or alone every property
fails: `sync_move` arms the first axis, finds the second one not ready and
returns. Without seen the GUI waits for an edge that does not come. Without
steady `update()` sees all axes moving and all ready, leaves the signal high, and
it never rises again. Assumed throughout: blocks are lines and curves; a hold
reaches every axis before the end of its line; a mode is chosen before run.

Proved (`StepperControl_proofs`), for any number of axes and blocks, under all of
`Calm`: `ControlInvHolds`, and from it `ControlTyped`, `AxesStartTogether`,
`BlocksInOrder`, `NoAxisLeftArmed`, `HoldIsKept`, `SemaphoresEmpty` (no permit of
`sync_sem` outlives its call) and `ModeIsFixed` (neither mode nor program changes
under a block). For any `Calm`, so with a user and readers who do what they like,
`NoBlockTwice`: no axis carries out a block twice or goes back. Its invariant
(`BlocksQueueInOrder`) orders the block an axis carries out, those it has queued
and the one the handler is about to send, through restarts of the program.
`ControlInv` says of each axis what it may be doing given where the
handler is: the axes before `k` are a step further than those from `k` on
(`Called`, `Waited`, `Holding`, ...), so a loop keeps it one axis at a time; a
semaphore holds a permit exactly where one is owed (`Owed`). `StartTogether` alone
is not inductive: it says nothing of commands still queued, of statuses the
readers have yet to copy, or of the blocks the axes have behind them. Liveness
is model-checked only.

## 6. The FPGA

One step is one clock edge.

`FpgaInputs` is the synchroniser, the debouncer and the alarms: `SteadySeen`, a
pin that stays for `Tick + 5` edges has come through, whatever it did before;
`LimitStops`, a limit switch that has come through stops its axis, and both while
the sync signal is up. Resets may come at any edge. Proved for every window
length: `InputsInvHolds`, `InputsTyped`, `SteadyPinIsSeen`, `LimitsStop`, and
`OneChangePerWindow`, a debounced signal changes at most once per window.

`FpgaStatus` is `signal`, `data_register` and the one register port of `top`,
with the host that is woken and reads twice: `RegisterFollows`, a status is
written unless it changed in the same cycle as one before it in the chain or as
an address byte arrived (`stale`); `LineAnswered`, no line stays low with no
read to come; `HostKnows`, at rest the host knows the status but for the
collisions recorded in `stale`, `missed` (a change in the very cycle that clears
the line) and `wrong` (the address replaced on its way). Each of the three
excuses is needed. Two inputs that change three times over three reads are
checked; proved for any number of inputs, order and values are `FpgaInvHolds`,
`FpgaTyped`, `RegistersFollow`, `LinesAnswered`, `LinesAreOwn` (a line goes up
only after a transfer for its own register) and `HostKnowsStatus`, for any `Gap` of
at least four edges. Its invariant (`HostInvHolds`): a register with two reads to
come is read once more after anything that happens now; with one to come, or none,
its line is up, so that a change brings two new ones; and during its last read the
status is on its way to the host, from the register to the byte that is sent,
unless one of the excuses holds.
Registers are not written after reset until their input first changes, and the
`PULL` width `signal` takes is unused; the model has both.

`FpgaSpi` is the SPI slave with its pipeline and a master; `TransferExact`, both
bytes arrive whole in both directions, at `Delay + 6` edges per half period, the
shortest that works. The run checks bytes of three bits instead of eight (a first, a
last and one between); `TransfersAreExact` proves it for every length of a byte,
every delay of the clock pin and every content of the registers. The slave has no
state of its own: `SpiInv` gives each register as a function of the
master's pins, the bits clocked and the edges since the clock moved (`SpiInvHolds`),
counted from where the slave was last set back (`From`), which is in the low half
after the last bit of a byte, `Delay + 4` edges in. The register is fetched in the
high half before it.

## 7. Sequential parts

Checked together in `algorithms`.

`MovePath` is the path and the speed of a move, callback by callback:
`line_step_2d`, `curve_step_2d`, `stepper_accel` and `total`. `MovesWell`: a line
stays within a step of the true one, a curve within a step of its circle and
takes two radii of steps per quarter, a move with room for it brakes for as
many steps as it took to accelerate less two, and never speeds up while it
brakes. A jog of no more than twice its ramp never brakes, which the property
states as it is. `PathInv`: a line ends on its end after exactly `total()` steps
and the speed keeps its range. All lines up to 7 steps per axis, curves between
the corners of circles of radius 2 to 7, jogs of 1 to 30 steps at five
combinations of speeds. The slope is an exact fraction cut off to an int; at
these distances the code's `float` gives the same. A curve of radius 1, or one
whose end the walk does not meet, may never end and is left out. Proved for
every length, every radius and every speed with `accel/v <= v`: `MovesTyped`,
`PathInvHolds`, `LinesArrive`, `SpeedsInRange`, and all of `MovesWell`
(`LinesStayNear`, `CurvesGoAround`, `MovesBrakeInTime`, `NoSpeedSurges`,
`MovesGoWell`). A line is near because each step takes its cross product with
the true line back towards 0. A curve goes around because each step adds one to the
way around the circle (`Around`), stays near it, and the way still to go (`Left`)
leads to its end (`CurveFrom`). Braking is a count (`Ramp`): up to its speed a move
counts `aSteps`, and it brakes from `aSteps` before its end on.

`JogWheel` is the decoder of the wheel against the FPGA's interrupt.
`WheelCorrect`: no jog without a whole click, and no click lost of a wheel that
is read quarter by quarter, with up to two unseen quarters between two reads
and anything left in the mask. Three quarters on look like one back: with three, a
click is read as one the other way. Proved (`JogsAreClicks`) for a wheel that turns
as far as one likes over any leftover mask: the lines the decoder has seen are those
of some position `n` (`Saw`), the last digits of the mask then tell how far `n` is
from the last rest (`ByDigits`), and reads that went one way leave the digits of
their way (`ByReads`); one digit stands for two changes at most (`DigitTells`), and
the position tells which.

`BlockMove` is the arithmetic of `run` and `sync_move`: words in the order of
their letters, absolute and relative, modal feed, differences cut off to whole
steps. `BlocksCorrect`: an axis ends where the blocks say but for one step that
never adds up, axes not named stay, a centre counts from the start, a feed is
never 0. Assumed: *words*, a block has a word; *flat*, no Z and W (`operator-`
adds z to y); *relative*, curves use U and V (I and J never see X and Y). Without
any of them a part of it fails. All blocks of up to three words with the values
-1 and 2. Proved for blocks with any words of any values, in any number, under these
three (`PlainBlocks`): `BlocksAreCorrect`. Its invariant `BlockInv` (`BlockInvHolds`)
says for each axis, between any two letters of a block, what `end`, `cur` and the
centre are in terms of the words handled so far: because the loop takes the
letters in the order of the map, a word of U finds the word of X already there or
none (`InOrder`), so the two never add up.

`ProgramEditor` is `gBlock`, `gProgram`, the edit window and the mode handler of
`pinc.cpp`, with the lifetime of the Qt objects. `EditorCorrect`: no pointer to a
deleted object is used, one label is selected, the run button runs the program
that is shown, blocks show their words. Assumed: *once*, no program is shown
again after another (the scroll area deletes the one before); *none*, no label
is selected when a program is cleared or another shown; *words*, letter words
are not deleted or replaced by others. Each is needed. Two letters, two
arguments, two blocks; a word that is a letter where an argument belongs ('G1 G2')
is outside this alphabet. Proved for programs of any length over any letters and
arguments, under these three (`Careful`): `EditorIsCorrect`. `EditorInv`
(`EditorInvHolds`) adds which programs Qt has deleted: those shown before the one
on the screen, and no other; the processor has that one, or none yet. Clearing,
loading, typing, inserting and deleting all rebuild a block, and a block whose labels
are its words keeps them so (`WordsShown`).

`SearchTree` is `bst.c` call level by call level; `OrderedMap` is what it is to a
search. `IsAMap`: whatever rotation is under way, the tree implements the map,
for keys in any order. `TreeSound`: parents, sizes and heights agree; as long as
keys ascend, as the host inserts them (`ascending`, a history variable), the tree is
balanced and no rotation follows a NULL pointer. In another order `tree_balance` tests
the wrong skew on the left side and both fail. Four keys in any order, seven
ascending: enough for every rotation, single and double.

`SearchTree_proofs` proves both for any keys, data and number of nodes
(`TreeIsSound`, `TreeIsAMap`), from the invariant `TreeInv` (`TreeInvHolds`). That
linked nodes are a tree (`IsTree`) it says without recursion: a child knows its
parent and a parent its child, and the search for a node's key comes to the node,
that is, it is in every set of nodes with the top in it that this search does not
leave (`Reach`). So order is never stated of subtrees: a rotation is shown to
keep the way of one search at a time (`TurnedWalk`), a node hung in or taken out is
off the way of every other (`ReachBeside`), and that no node is above itself follows
(`NoCircle`). Heights and sizes are exact but for the node `tree_balance` is at;
there, with ascending keys, the stored height tells by how much: the right side has
grown by a level at most (`Grown`), or, as `tree_delete` takes the tree down at its
left edge (`LeftEdge`), the left has lost one (`Shrunk`). That makes it the right
side that is too high, so the wrong test is never reached (`BalanceLevel`). A search
stands still after as many steps as there are nodes (`WalkEnds`: it would pass a
node twice otherwise, and parents differ), at the node with the key if there is one
(`WalkFinds`); each step then changes what is found as `OrderedMap` allows.

## 8. The earlier generations

Checked together in `earlier`, without liveness; `Earlier_proofs` proves what that
run checks for every value of the constants.

`EspAxis` is one ESP32 axis: the message task against the step interrupt, which
share `m_status`; an update may undo the other's. `EspAxisCorrect`: a move that
is reported ready has made exactly its steps; status, timer and motion pin
agree; a ramp down is no longer than the ramp up. Assumed: *rest*, a MOVE comes
only at rest; *long*, a curve takes two steps per axis; *prompt*, the timer does
not expire between its start and the store to the status; *untorn*, no update
is undone. Without rest or long a move makes other steps, without prompt or
untorn the status ends as ready and in motion. Bounds: lines of up to two steps each
way, jogs of one, two and five steps, arcs of radius 2 in both senses that start at
two of the four corners and so pass every quadrant.

`EspAxisIsCorrect` proves it for lines to any point, jogs of any number of steps and
arcs of any radius, corner, sense and length, under all four (`AxisCareful`).
`EspAxisCorrect` alone is not inductive: while a move is under way it says
nothing. `AxisInv` (`AxisInvHolds`) says where every move is between any two steps
of its task and its interrupt, also while it is paused or waits for SYNC: the pulses
made, with the one DIR_PIN and `m_step_axis` already announce (`OwnWay`), add up to
the place on the path, and `m_cur_step` with it (`OwnStep`) to the steps of the own
axis (`InJog`, `InLine`, `InCurve`). A line needs that `linear_interpolation_2D` never
steps back or past its end (`LineStepAway`): before the end in x the height of the
line, cut off to an int, is short of the end in y (`TruncShort`). A curve needs that
the end is not met before: each step goes one on around the circle (`TurnStep`), so a
walk of up to `8r` steps never meets a point twice (`WalkGoesRound`, `MetOnce`), and
the test `n > 1` is only passed at the end. The walk is a recursive function;
`WalkIs` unfolds it by the principle of the least number. `TaskKnows` says for each
wait of the task what timer, motion pin and status are, which gives `RunsOrRests`;
`Brakes` gives the ways `m_dec_step` was set.

`EspLink` is the bus of two ESPs: semaphore and handshake of the host, event and
message queues of the ESP, group moves and polls. `EspLinkCorrect`: messages are
carried out once, in order and whole; only those called are on the bus; SYNC
rises when all wait, in the same move. Assumed: *prompt*, the host sends when the
ESP is done with the last message; without it a message in the queue is
overwritten by the next, because the queue holds its handle only. The first
message to every ESP is the SET_AXIS its constructor sends. The limit
switch may fill the event queue at any time; the host then waits for ever, which
the run lets happen.

`EspLinkIsCorrect` proves it for any number of ESPs and messages. The invariant
`EspInv` (`EspInvHolds`) follows a message through the ESP: it is at one place, in the
event task, the message queue or the message task, and what has been sent is what has
been carried out, what is on its way and what the host has in its hands (`MsgInv`);
an ESP is RECEIVING from its call to the post of its READY pulse, and one that is not
called is at most at the end of its last transfer (`BusInv`); while the host polls,
the move of that group is on its way at every ESP or waits for the edge, and at those
already polled it waits (`PollInv`), which is why SYNC finds all of them waiting.

`LaserProgram` is the laser machine's programs with RUN, HOLD, RESET, jogs and
mode changes; laser blocks are on (L1), off (L0), a power (L2, which also switches
the beam on) and the rest (L3, L4), which leaves the beam. `LaserCorrect`: blocks run one by one, a hold holds, RESET leaves
axes and laser off, the user interface neither hangs nor crashes. Assumed:
*clean*, no RESET during a line (its timer is not killed and finds no program);
*held*, RUN in a program only with both axes held; *still*, no RUN while an axis
jogs; *motion*, HOLD only in motion; *dark*, the laser panel only in programs.
Each is needed.

`LaserIsCorrect` proves it for programs of any length, in any number, under these
five (`Respected`). `LaserInv` (`LaserInvHolds`): outside a program the index is at
the end, after RESET there is no timer left (`ProgramInv`); only a program moves the
axes other than by jogs, only in AUTO, and a HOLD leaves one of them held and none
moving, so that no timer that goes on takes it for the end of a block (`AxesInv`).
`run_next` carries out laser blocks at once, up to the next block of motion (`Skips`, a
minimum: `LeastNumber`).

`FirstHost` is the first C host, a thread per message. `HostCorrect`: every thread
sends its own message, to a Pico that listens, out of buffers nobody has freed.
The interrupt of the axis is two steps, the transfer that reads the FPGA
(`spi_send`) and the look at the byte it left (`stepper_status_isr`): the bus is free
in between. The buffers are the interrupt's own: `fpga_get_signal` is a static
function of a header, so `host_main.c`, which reads the buttons, and `host_stepper.c`
have a set each. Assumed: *apart*, no button is pressed while a message has yet to
reach the axis' mutex; *own*, the FPGA answers the interrupt of the axis with the
byte of the axis. Nothing in the code asks for it: both interrupts send the same two
zeros, and the FPGA in `src/fpga` is a later one that wants an address. Without *own*
a foreign byte posts the semaphore a second time, and a thread transfers to a Pico
that does not listen; without *apart* messages get lost and their buffers leak. Four
messages; proved for any number are all its parts: `HostIsCorrect` under both, from
`HostMessageInv` (one message at a time is between its press and its request; with it
`HostOwnMessage` and `HostNoneLeaked`, under *apart*), and, under *own* and whatever is
pressed when, `HostHandshake` (request pin, answer, read and semaphore stand where
the thread that transfers expects them; with it `HostHeard`). These files are in no
build.

## 9. Not modelled

- Displays, expander, gyroscope, widgets and the look of the GUI: output without
  state a property could be about.
- Power-up: `pinc.c` enables its interrupts before its queues exist. What a
  queue does before that depends on the SDK and on memory.
- Blocks other than G1 to G3: they are sent with the sync bit alone, and the axis
  steps without end.
- The byte layouts of `common/motor_common.h`; `c/io/request.h`, `pcf8574.h` and
  `stepper_update_loop`, which nothing calls; the setters in millimetres;
  loading files; the main window.
- `node_remove` of inner nodes, `node_prev` and `node_next`, which nothing calls.
- `debounce.v`, `edge_detect.v`, `shift_register.v`, `signal_interrupt.v` and
  `status_register.v`, which `top` does not use.
- The race of `spiQueue` is kept out by `PromptRemove` (section 3), and the limit
  switch's three stores are one step (section 4).

Beyond the prover, and only model-checked: liveness under fairness (`CallReturns`,
`ImplementsFairBus`, `ImplementsFairAxis`, `NeverHangs` and `ProgramEnds` of
`StepperControl`). Every safety invariant and action property of the passing runs is
also a theorem. Where a proof needs an induction over the numbers (the blocks
`run_next` passes over, the letters of a block, the walk around a circle, the steps of
a search) it takes the least number of a set (`LeastNumber`, from the library's
well-founded minimum) instead of a theorem that has an operator as its parameter.
No module with a theorem reaches a RECURSIVE operator.

What the theorems assume. The constants: the named `ASSUME` of each module, which TLC
evaluates in the runs above. The surroundings: the words listed at each
component and `SerialReads` for the link, which the runs assume as well; where a
theorem needs none of them (`LinkType`, `MotionType`, `MotionHomedAtSwitch`, `NoBlockTwice`,
all of the FPGA, `JogsAreClicks`, `TreeIsAMap`) the text says so.
