------------------------------ MODULE PicoLink ------------------------------
(***************************************************************************)
(* The command link between the Raspberry Pi host and the stepper Picos.   *)
(*                                                                         *)
(* All Picos hang on one SPI bus and one chip select (CS1), so a Pico may  *)
(* drive MISO only while it owns the bus.  A host thread that wants to     *)
(* send a command to stepper s                                             *)
(*                                                                         *)
(*   locks s, takes the semaphore all steppers share, raises the request   *)
(*   pin of s, waits until the Pico pulls its SPI_READY pin low, clocks    *)
(*   the transfer and lowers the request pin again.                        *)
(*                                                                         *)
(* The SPI_READY pin reaches the host only through the FPGA: a change sets *)
(* the status register of s and pulls its interrupt line low, the falling  *)
(* edge starts a detached thread that reads the register over SPI, and     *)
(* that thread wakes the waiting caller (pin low) or gives the shared      *)
(* semaphore back (pin high again).                                        *)
(*                                                                         *)
(* Host side: c/stepper/pi_stepper.c, c/io/pin_request.h,                  *)
(* c/spi/spi_client.h.  Pico side: pico/src/pinc.c, pico/src/spi.  The     *)
(* FPGA appears by its register, interrupt line and clear-on-read, as if   *)
(* no two of capture, read and clear ever fell into one of its clock       *)
(* cycles.                                                                 *)
(***************************************************************************)
EXTENDS Naturals, Sequences, FiniteSets

CONSTANTS
  Steppers,      (* the axes, one Pico each                                *)
  Callers,       (* host threads that call stepper_move, stepper_jog, ...  *)
  Readers,       (* threads stepper_pin_isr may have started at one time   *)
  MsgQueueLen,   (* length of motor.msgQueue, 2 in the code                *)
  MaxMoves,      (* bound: how often a motor starts to move                *)
  SerialReads,   (* scheduling: a status reader is done with its signal    *)
                 (* before the next reader of the same stepper starts      *)
  PromptRemove,  (* scheduling: core0 is back at its queue before the host *)
                 (* raises the same request pin again                      *)
  None           (* no thread / no message                                 *)

ASSUME LinkAssumption ==
  /\ IsFiniteSet(Steppers) /\ Steppers # {}
  /\ Callers \cap Readers = {}
  /\ None \notin Steppers \cup Callers \cup Readers
  /\ MsgQueueLen \in Nat \ {0} /\ MaxMoves \in Nat
  /\ SerialReads \in BOOLEAN /\ PromptRemove \in BOOLEAN

Threads == Callers \cup Readers

Bit    == 0..1
Status == [spi : Bit, mot : Bit]      \* the two status bits the link reacts to
Signal == [cur : Status, low : Status, high : Status]

SemCap == 2                           \* bound: posts a request semaphore counts

\* Where a thread stands: in stepper_read_fpga, in one of its signal handlers,
\* or in stepper_lock .. stepper_unlock.
ReadPC == {"send1", "cs1", "send2", "cs2", "update"}
SigPC  == {"post", "unlock", "unlock2", "motion"}
CallPC == {"lock", "trigger", "wait", "transfer", "reset"}
PC     == {"idle"} \cup ReadPC \cup SigPC \cup CallPC

VARIABLES
  \* host threads
  pc, tgt,      \* program counter, the stepper worked on (None when idle)
  rx,           \* the status byte in the thread's own receive buffer
  \* host data, per stepper unless said otherwise
  mutex,        \* holder of pincPiStepper.mutex
  fired,        \* spi_request.fired
  reqSem,       \* spi_request.sem
  sig,          \* status_sig
  rxTo,         \* fpga_spi_client.tr.rx_buf: the thread whose buffer it names
  irq,          \* a falling edge waits for stepper_pin_isr
  shSem,        \* pin_req_sem, one for all steppers
  spiMutex,     \* holder of the mutex around every SPI transfer
  \* wires
  reqPin,       \* host -> Pico: request
  trPin,        \* Pico -> FPGA: SPI_READY, 0 while the Pico owns the bus
  motPin,       \* Pico -> FPGA: IN_MOTION, 0 while moving
  \* FPGA
  reg, intr,    \* status register and interrupt line (active low)
  \* Pico
  edges,        \* edges of the request pin latched for gpio_isr
  core0,        \* where get_spi_msg stands
  spiQ,         \* spiQueue, length 1
  rxBuf,        \* spi_in_buf: the stepper the message in it was sent to
  msgQ,         \* motor.msgQueue
  moves         \* motor starts so far, for the bound

hostVars == <<mutex, fired, reqSem, sig, rxTo, irq, shSem, spiMutex>>
picoVars == <<edges, core0, spiQ, rxBuf, msgQ>>
vars == <<pc, tgt, rx, mutex, fired, reqSem, sig, rxTo, irq, shSem, spiMutex,
          reqPin, trPin, motPin, reg, intr, edges, core0, spiQ, rxBuf, msgQ, moves>>

High == [spi |-> 1, mot |-> 1]
Zero == [spi |-> 0, mot |-> 0]

(***************************************************************************)
(* signal_update: cur takes the new byte, low and high are the bits that   *)
(* fell and rose.                                                          *)
(***************************************************************************)
Changed(a, b) == IF a # b THEN 1 ELSE 0          \* mutant: del for low
Fell(a, b)    == IF a = 1 /\ b = 0 THEN 1 ELSE 0

signal_update(sg, new) ==
  [cur  |-> new,
   low  |-> [spi |-> Fell(sg.cur.spi, new.spi), mot |-> Fell(sg.cur.mot, new.mot)],
   high |-> [spi |-> Fell(new.spi, sg.cur.spi), mot |-> Fell(new.mot, sg.cur.mot)]]

Init ==
  /\ pc = [t \in Threads |-> "idle"]
  /\ tgt = [t \in Threads |-> None]
  /\ rx = [t \in Readers |-> Zero]
  /\ mutex = [s \in Steppers |-> None]
  /\ fired = [s \in Steppers |-> FALSE]
  /\ reqSem = [s \in Steppers |-> 0]
  /\ sig = [s \in Steppers |-> [cur |-> High, low |-> Zero, high |-> Zero]]
  /\ rxTo = [s \in Steppers |-> None]
  /\ irq = [s \in Steppers |-> FALSE]
  /\ shSem = 1
  /\ spiMutex = None
  /\ reqPin = [s \in Steppers |-> 0]
  /\ trPin = [s \in Steppers |-> 1]
  /\ motPin = [s \in Steppers |-> 1]
  /\ reg = [s \in Steppers |-> High]
  /\ intr = [s \in Steppers |-> 1]
  /\ edges = [s \in Steppers |-> {}]
  /\ core0 = [s \in Steppers |-> "peek"]
  /\ spiQ = [s \in Steppers |-> 0]
  /\ rxBuf = [s \in Steppers |-> None]
  /\ msgQ = [s \in Steppers |-> <<>>]
  /\ moves = 0

-----------------------------------------------------------------------------
(* Callers: stepper_config, move, pause, jog, home and update all send one *)
(* message between stepper_lock and stepper_unlock.                        *)

Goto(t, from, to) == pc[t] = from /\ pc' = [pc EXCEPT ![t] = to]

\* A host thread calls one of the stepper_* functions.
Call(t, s) ==
  /\ t \in Callers
  /\ Goto(t, "idle", "lock")
  /\ tgt' = [tgt EXCEPT ![t] = s]
  /\ UNCHANGED <<rx, hostVars, reqPin, trPin, motPin, reg, intr, picoVars, moves>>

Lock(t) ==
  /\ Goto(t, "lock", "trigger")
  /\ mutex[tgt[t]] = None
  /\ mutex' = [mutex EXCEPT ![tgt[t]] = t]
  /\ UNCHANGED <<tgt, rx, fired, reqSem, sig, rxTo, irq, shSem, spiMutex,
                 reqPin, trPin, motPin, reg, intr, picoVars, moves>>

\* pin_request_trigger; the wait for pin_req_sem comes before everything else.
\* (The test of fired never skips it: fired is reset before the mutex is free.)
Trigger(t) == LET s == tgt[t] IN
  /\ Goto(t, "trigger", "wait")
  /\ ~fired[s] /\ shSem > 0
  /\ PromptRemove => core0[s] = "peek"
  /\ shSem' = shSem - 1
  /\ fired' = [fired EXCEPT ![s] = TRUE]
  /\ reqSem' = [reqSem EXCEPT ![s] = 0]
  /\ reqPin' = [reqPin EXCEPT ![s] = 1]
  /\ edges' = [edges EXCEPT ![s] = @ \cup {"rise"}]
  /\ UNCHANGED <<tgt, rx, mutex, sig, rxTo, irq, spiMutex, trPin, motPin, reg,
                 intr, core0, spiQ, rxBuf, msgQ, moves>>

\* pin_request_wait: the reader that sees SPI_READY fall posts.
Wait(t) == LET s == tgt[t] IN
  /\ Goto(t, "wait", "transfer")
  /\ reqSem[s] > 0
  /\ reqSem' = [reqSem EXCEPT ![s] = @ - 1]
  /\ UNCHANGED <<tgt, rx, mutex, fired, sig, rxTo, irq, shSem, spiMutex,
                 reqPin, trPin, motPin, reg, intr, picoVars, moves>>

\* spi_send on CS1: whoever has its SPI side enabled takes the bytes.
Transfer(t) ==
  /\ Goto(t, "transfer", "reset")
  /\ spiMutex = None
  /\ rxBuf' = [p \in Steppers |-> IF trPin[p] = 0 THEN tgt[t] ELSE rxBuf[p]]
  /\ UNCHANGED <<tgt, rx, hostVars, reqPin, trPin, motPin, reg, intr, edges,
                 core0, spiQ, msgQ, moves>>

\* pin_request_reset, then stepper_unlock; the call returns, a reader ends.
Reset(t) == LET s == tgt[t] IN
  /\ Goto(t, "reset", "idle")
  /\ tgt' = [tgt EXCEPT ![t] = None]
  /\ fired' = [fired EXCEPT ![s] = FALSE]
  /\ reqPin' = [reqPin EXCEPT ![s] = 0]
  /\ edges' = [edges EXCEPT ![s] = @ \cup {"fall"}]
  /\ mutex' = [mutex EXCEPT ![s] = None]
  /\ UNCHANGED <<rx, reqSem, sig, rxTo, irq, shSem, spiMutex, trPin,
                 motPin, reg, intr, core0, spiQ, rxBuf, msgQ, moves>>

-----------------------------------------------------------------------------
(* Status readers: stepper_pin_isr and stepper_read_fpga.                  *)

ActiveReader(r, s) == tgt[r] = s /\ pc[r] \in ReadPC \cup SigPC

\* The thread points the stepper's one transfer descriptor at its own buffers.
PointAt(r, s)   == rxTo' = [rxTo EXCEPT ![s] = r]

\* stepper_pin_isr launches the thread.
Spawn(r, s) ==
  /\ r \in Readers
  /\ irq[s]
  /\ SerialReads => \A q \in Readers : ~ActiveReader(q, s)
  /\ Goto(r, "idle", "send1")
  /\ irq' = [irq EXCEPT ![s] = FALSE]
  /\ tgt' = [tgt EXCEPT ![r] = s]
  /\ PointAt(r, s)
  /\ UNCHANGED <<rx, mutex, fired, reqSem, sig, shSem, spiMutex, reqPin, trPin,
                 motPin, reg, intr, picoVars, moves>>

\* spi_send on CS0, first half: the FPGA answers with the register, the driver
\* stores the byte where the descriptor points now.
Fetch(r) == LET s == tgt[r] IN
  /\ \/ Goto(r, "send1", "cs1")
     \/ Goto(r, "send2", "cs2")
  /\ spiMutex = None
  /\ spiMutex' = r
  /\ rx' = [q \in Readers |-> IF q = rxTo[s] THEN reg[s] ELSE rx[q]]
  /\ UNCHANGED <<tgt, mutex, fired, reqSem, sig, rxTo, irq, shSem, reqPin,
                 trPin, motPin, reg, intr, picoVars, moves>>

\* stepper_read_fpga sends twice.
ReadOnce(r)  == Goto(r, "cs1", "update")         \* mutant: sends once
ReadAgain(r) == Goto(r, "cs1", "send2")

\* Second half: the rising chip select clears the interrupt line.
CsRise(r) ==
  /\ \/ ReadAgain(r)
     \/ Goto(r, "cs2", "update")
  /\ spiMutex' = None
  /\ intr' = [intr EXCEPT ![tgt[r]] = 1]
  /\ UNCHANGED <<tgt, rx, mutex, fired, reqSem, sig, rxTo, irq, shSem, reqPin,
                 trPin, motPin, reg, picoVars, moves>>

Update(r) == LET s == tgt[r] IN
  /\ Goto(r, "update", "post")
  /\ sig' = [sig EXCEPT ![s] = signal_update(@, rx[r])]
  /\ UNCHANGED <<tgt, rx, mutex, fired, reqSem, rxTo, irq, shSem, spiMutex,
                 reqPin, trPin, motPin, reg, intr, picoVars, moves>>

SeesAnyFall(r) == sig[tgt[r]].low # Zero         \* mutant: the mask forgotten
SeesFall(r)    == sig[tgt[r]].low.spi = 1

\* low & SPI_READY: pin_request_post.
Post(r) == LET s == tgt[r] IN
  /\ Goto(r, "post", "unlock")
  /\ reqSem' = IF SeesFall(r) /\ reqSem[s] < SemCap
               THEN [reqSem EXCEPT ![s] = @ + 1]
               ELSE reqSem
  /\ UNCHANGED <<tgt, rx, mutex, fired, sig, rxTo, irq, shSem, spiMutex,
                 reqPin, trPin, motPin, reg, intr, picoVars, moves>>

SeesChange(r) == sig[tgt[r]].high.spi + sig[tgt[r]].low.spi = 1   \* mutant: del
SeesRise(r)   == sig[tgt[r]].high.spi = 1

\* high & SPI_READY: pin_request_unlock reads the semaphore ...
UnlockTest(r) ==
  /\ Goto(r, "unlock",
          IF SeesRise(r) /\ shSem = 0 THEN "unlock2" ELSE "motion")
  /\ UNCHANGED <<tgt, rx, hostVars, reqPin, trPin, motPin, reg, intr, picoVars, moves>>

\* ... and posts it in a second step.
UnlockPost(r) ==
  /\ Goto(r, "unlock2", "motion")
  /\ shSem' = shSem + 1
  /\ UNCHANGED <<tgt, rx, mutex, fired, reqSem, sig, rxTo, irq, spiMutex,
                 reqPin, trPin, motPin, reg, intr, picoVars, moves>>

\* high & IN_MOTION: the thread goes on to call stepper_update; else it ends.
\* Either way its buffers are read no more and the descriptor dangles.
MotionTest(r) == LET s == tgt[r]
                     rose == sig[s].high.mot = 1 IN
  /\ Goto(r, "motion", IF rose THEN "lock" ELSE "idle")
  /\ tgt' = [tgt EXCEPT ![r] = IF rose THEN s ELSE None]
  /\ rx' = [rx EXCEPT ![r] = Zero]
  /\ rxTo' = [rxTo EXCEPT ![s] = IF @ = r THEN None ELSE @]
  /\ UNCHANGED <<mutex, fired, reqSem, sig, irq, shSem, spiMutex, reqPin,
                 trPin, motPin, reg, intr, picoVars, moves>>

-----------------------------------------------------------------------------
(* Pico: gpio_isr on the request pin, get_spi_msg on core0, core1's loop.  *)

\* The rising edge is tested first, so it hides a falling one latched with it.
IsrRise(p) ==
  /\ "rise" \in edges[p]
  /\ edges' = [edges EXCEPT ![p] = {}]
  /\ spiQ' = [spiQ EXCEPT ![p] = 1]
  /\ UNCHANGED <<pc, tgt, rx, hostVars, reqPin, trPin, motPin, reg, intr,
                 core0, rxBuf, msgQ, moves>>

\* pio_spi_client_disable aborts the DMA core0 waits for and lets SPI_READY go.
LeavesDma(p) == trPin' = [trPin EXCEPT ![p] = 1] /\ UNCHANGED core0   \* mutant
LeavesPin(p) ==                                                       \* mutant
  /\ core0' = [core0 EXCEPT ![p] = IF @ = "dma" THEN "remove" ELSE @]
  /\ UNCHANGED trPin
pio_spi_client_disable(p) ==
  /\ core0' = [core0 EXCEPT ![p] = IF @ = "dma" THEN "remove" ELSE @]
  /\ trPin' = [trPin EXCEPT ![p] = 1]

\* queue_try_add finds room.
HasRoom(p) == Len(msgQ[p]) < MsgQueueLen

\* The falling edge disables the SPI side and queues the receive buffer if
\* there is room.
IsrFall(p) ==
  /\ edges[p] = {"fall"}
  /\ edges' = [edges EXCEPT ![p] = {}]
  /\ pio_spi_client_disable(p)
  /\ msgQ' = IF HasRoom(p)
             THEN [msgQ EXCEPT ![p] = Append(@, rxBuf[p])]
             ELSE msgQ
  /\ UNCHANGED <<pc, tgt, rx, hostVars, reqPin, motPin, reg, intr, spiQ, rxBuf, moves>>

\* get_spi_msg up to the start of the transfer; the queue keeps its entry.
Arm(p) ==
  /\ core0[p] = "peek" /\ spiQ[p] = 1
  /\ core0' = [core0 EXCEPT ![p] = "dma"]
  /\ rxBuf' = [rxBuf EXCEPT ![p] = None]
  /\ trPin' = [trPin EXCEPT ![p] = 0]
  /\ UNCHANGED <<pc, tgt, rx, hostVars, reqPin, motPin, reg, intr, edges, spiQ,
                 msgQ, moves>>

\* The transfer is over: queue_remove_blocking, back to the peek.
Remove(p) ==
  /\ core0[p] = "remove"
  /\ core0' = [core0 EXCEPT ![p] = "peek"]
  /\ spiQ' = [spiQ EXCEPT ![p] = 0]
  /\ UNCHANGED <<pc, tgt, rx, hostVars, reqPin, trPin, motPin, reg, intr, edges,
                 rxBuf, msgQ, moves>>

\* core1_main: peek, stepper_msg_handle, remove.
Handle(p) ==
  /\ msgQ[p] # <<>>
  /\ msgQ' = [msgQ EXCEPT ![p] = Tail(@)]
  /\ UNCHANGED <<pc, tgt, rx, hostVars, reqPin, trPin, motPin, reg, intr, edges,
                 core0, spiQ, rxBuf, moves>>

-----------------------------------------------------------------------------
(* FPGA and motor.                                                         *)

\* A change of the debounced status: the bits are debounced one by one, so any
\* part of what changed at the pins may come through together.
Capture(s) ==
  /\ \E new \in Status :
       /\ new # reg[s]
       /\ new.spi \in {reg[s].spi, trPin[s]}
       /\ new.mot \in {reg[s].mot, motPin[s]}
       /\ reg' = [reg EXCEPT ![s] = new]
  /\ intr' = [intr EXCEPT ![s] = 0]
  /\ irq' = [irq EXCEPT ![s] = @ \/ intr[s] = 1]
  /\ UNCHANGED <<pc, tgt, rx, mutex, fired, reqSem, sig, rxTo, shSem, spiMutex,
                 reqPin, trPin, motPin, picoVars, moves>>

MotorStart(s) ==
  /\ motPin[s] = 1 /\ moves < MaxMoves
  /\ motPin' = [motPin EXCEPT ![s] = 0]
  /\ moves' = moves + 1
  /\ UNCHANGED <<pc, tgt, rx, hostVars, reqPin, trPin, reg, intr, picoVars>>

MotorStop(s) ==
  /\ motPin[s] = 0
  /\ motPin' = [motPin EXCEPT ![s] = 1]
  /\ UNCHANGED <<pc, tgt, rx, hostVars, reqPin, trPin, reg, intr, picoVars, moves>>

-----------------------------------------------------------------------------
CallerStep(t) == Lock(t) \/ Trigger(t) \/ Wait(t) \/ Transfer(t) \/ Reset(t)

ReaderStep(r) == Fetch(r) \/ CsRise(r) \/ Update(r) \/ Post(r) \/ UnlockTest(r)
                   \/ UnlockPost(r) \/ MotionTest(r)

PicoStep(p) == IsrRise(p) \/ IsrFall(p) \/ Arm(p) \/ Remove(p)

Next ==
  \/ \E t \in Threads : CallerStep(t) \/ \E s \in Steppers : Call(t, s)
  \/ \E r \in Readers : ReaderStep(r) \/ \E s \in Steppers : Spawn(r, s)
  \/ \E s \in Steppers : PicoStep(s) \/ Handle(s) \/ Capture(s)
                           \/ MotorStart(s) \/ MotorStop(s)

Spec == Init /\ [][Next]_vars

\* No host thread starves on a mutex or a semaphore (strong, the waits are not
\* queues); interrupts, core0 and the FPGA run on their own.
Fairness ==
  /\ \A t \in Threads : SF_vars(CallerStep(t))
  /\ \A r \in Readers : SF_vars(ReaderStep(r))
  /\ \A s \in Steppers : /\ SF_vars(\E r \in Readers : Spawn(r, s))
                         /\ WF_vars(PicoStep(s))
                         /\ WF_vars(Capture(s))

FairSpec == Spec /\ Fairness

-----------------------------------------------------------------------------
(* Properties.                                                             *)

\* Types; a mutex is held by a thread, the queues keep their lengths.
TypeOK ==
  /\ pc \in [Threads -> PC]
  /\ tgt \in [Threads -> Steppers \cup {None}]
  /\ rx \in [Readers -> Status]
  /\ mutex \in [Steppers -> Threads \cup {None}]
  /\ fired \in [Steppers -> BOOLEAN]
  /\ reqSem \in [Steppers -> 0..SemCap]
  /\ sig \in [Steppers -> Signal]
  /\ rxTo \in [Steppers -> Readers \cup {None}]
  /\ irq \in [Steppers -> BOOLEAN]
  /\ shSem \in Nat
  /\ spiMutex \in Readers \cup {None}
  /\ reqPin \in [Steppers -> Bit]
  /\ trPin \in [Steppers -> Bit]
  /\ motPin \in [Steppers -> Bit]
  /\ reg \in [Steppers -> Status]
  /\ intr \in [Steppers -> Bit]
  /\ edges \in [Steppers -> SUBSET {"rise", "fall"}]
  /\ core0 \in [Steppers -> {"peek", "dma", "remove"}]
  /\ spiQ \in [Steppers -> Bit]
  /\ rxBuf \in [Steppers -> Steppers \cup {None}]
  /\ msgQ \in [Steppers -> Seq(Steppers \cup {None})]
  /\ \A s \in Steppers : Len(msgQ[s]) <= MsgQueueLen
  /\ moves \in 0..MaxMoves
  /\ \A t \in Threads : pc[t] # "idle" => tgt[t] \in Steppers
  /\ \A t \in Callers : pc[t] \in CallPC \cup {"idle"}

\* Two Picos never drive MISO together: the shared semaphore, taken by the
\* caller and given back by a reader thread, hands the bus over only after the
\* last owner has let go of it (pin_request_trigger, pin_request_unlock).
OneBusOwner ==
  \A p, q \in Steppers : trPin[p] = 0 /\ trPin[q] = 0 => p = q

\* The host clocks a message only into a Pico that waits for it: no post left
\* over from an earlier transaction ever releases pin_request_wait.
ClockedWhenReady ==
  \A t \in Threads : pc[t] = "transfer" => trPin[tgt[t]] = 0

\* When the request pin falls, the receive buffer holds a complete message for
\* this Pico ("spi transfer complete", pico/src/pinc.c:25).
FallMeansComplete ==
  \A p \in Steppers : edges[p] = {"fall"} => rxBuf[p] = p

\* gpio_isr never finds both edges latched: it would miss the falling one.
NoMergedEdges ==
  \A p \in Steppers : edges[p] # {"rise", "fall"}

\* Clear-on-read loses nothing: when no interrupt is pending and no reader is
\* under way, the host's status of s is the register's (the second read of
\* stepper_read_fpga makes up for a change between the first and its clear).
ViewFresh ==
  \A s \in Steppers :
    (~irq[s] /\ \A r \in Readers : ~ActiveReader(r, s)) => sig[s].cur = reg[s]

\* Every call of a stepper_* function returns: the reader threads always give
\* it the Pico's answer and give the semaphore back.
CallReturns ==
  \A t \in Threads : pc[t] = "lock" ~> pc[t] = "idle"

-----------------------------------------------------------------------------
(* Why it works: an inductive invariant, under SerialReads.                *)

\* Stepper s has the bus: from pin_request_trigger's sem_wait while the
\* transaction runs, then until the host has seen SPI_READY rise, then while
\* the reader that saw it is on its way to the post of pin_request_unlock.
Unlocking(r, s) ==
  /\ tgt[r] = s
  /\ \/ pc[r] \in {"post", "unlock"} /\ sig[s].high.spi = 1
     \/ pc[r] = "unlock2"

Holds(s) ==
  \/ fired[s]
  \/ sig[s].cur.spi = 0
  \/ \E r \in Readers : Unlocking(r, s)

\* The semaphore is the bus: free, or held by exactly one stepper.
TokenInv ==
  /\ shSem \in {0, 1}
  /\ shSem = 1 => \A s \in Steppers : ~Holds(s)
  /\ \A s, u \in Steppers : Holds(s) /\ Holds(u) => s = u
  /\ \A r \in Readers, s \in Steppers :
       Unlocking(r, s) => ~fired[s] /\ sig[s].cur.spi = 1

\* One reader per stepper at a time, and the descriptor names its buffer.
ReaderInv ==
  /\ \A s \in Steppers, r \in Readers : ActiveReader(r, s) => rxTo[s] = r
  /\ \A s \in Steppers : /\ sig[s].low.spi = 1 => sig[s].cur.spi = 0
                         /\ sig[s].high.spi = 1 => sig[s].cur.spi = 1

\* The stepper's mutex guards its request, and nobody passes pin_request_wait
\* before the host has seen SPI_READY low.
RequestInv ==
  /\ \A t \in Threads : pc[t] \in CallPC \ {"lock"} => mutex[tgt[t]] = t
  /\ \A t \in Threads :
       pc[t] \in {"wait", "transfer", "reset"} => fired[tgt[t]]
  /\ \A t \in Threads :
       pc[t] \in {"transfer", "reset"} => sig[tgt[t]].cur.spi = 0
  /\ \A s \in Steppers : fired[s] /\ reqSem[s] > 0 => sig[s].cur.spi = 0

\* The byte a reader of s is about to apply carries SPI_READY = v.
Reads(s, v) ==
  \A r \in Readers :
    tgt[r] = s /\ pc[r] \in {"cs2", "update"} => rx[r].spi = v

\* Pin, register, reader, status: a change of SPI_READY travels down this
\* chain, and the next change starts only after the last one has arrived.
ChainInv ==
  \A s \in Steppers :
    LET pin == trPin[s]  fpga == reg[s].spi  host == sig[s].cur.spi IN
    /\ ~fired[s] /\ host = 1 => pin = 1 /\ fpga = 1 /\ Reads(s, 1)
    /\ fired[s] /\ host = 0 => pin = 0 /\ fpga = 0 /\ Reads(s, 0)
    /\ fired[s] /\ host = 1 => /\ fpga = 0 => pin = 0
                               /\ fpga = 1 => Reads(s, 1)
    /\ ~fired[s] /\ host = 0 => /\ fpga = 1 => pin = 1
                                /\ fpga = 0 => Reads(s, 0)

\* The Pico drives MISO exactly while core0 waits for the DMA, and it gets
\* there once per request.
PicoInv ==
  \A p \in Steppers :
    /\ trPin[p] = 0 <=> core0[p] = "dma"
    /\ spiQ[p] = 1 /\ core0[p] = "peek" => fired[p]
    /\ "rise" \in edges[p] => /\ fired[p] /\ trPin[p] = 1
                              /\ core0[p] = "peek" => spiQ[p] = 0
    /\ "fall" \in edges[p] => /\ ~fired[p] /\ trPin[p] = 0
                              /\ sig[p].cur.spi = 0
                              /\ rxBuf[p] = p
    /\ \A t \in Threads : pc[t] = "reset" /\ tgt[t] = p => rxBuf[p] = p

LinkInv == TypeOK /\ TokenInv /\ ReaderInv /\ RequestInv /\ ChainInv /\ PicoInv

\* Reader r has yet to clear the interrupt of s; r is going to update its status;
\* the byte r is about to apply is the register as it is now.
WillClear(r, s)  == tgt[r] = s /\ pc[r] \in {"send1", "cs1"}
WillUpdate(r, s) == tgt[r] = s /\ pc[r] \in ReadPC
HasCopy(r, s)    == tgt[r] = s /\ pc[r] \in {"cs2", "update"} => rx[r] = reg[s]

\* A change in the register that the host has not got has an interrupt
\* pending, or a reader that will still fetch it or already has.
FreshInv ==
  \A s \in Steppers : ~irq[s] =>
    /\ intr[s] = 0 => \E r \in Readers : WillClear(r, s)
    /\ \A r \in Readers : HasCopy(r, s)
    /\ sig[s].cur = reg[s] \/ \E r \in Readers : WillUpdate(r, s)

=============================================================================
