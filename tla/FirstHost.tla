----------------------------- MODULE FirstHost -----------------------------
(***************************************************************************)
(* The first C host (host_main.c, host_stepper.c, io/signal.h): one axis,  *)
(* one detached thread per message.                                        *)
(*                                                                         *)
(* A thread copies its message into the axis' spi_msg under the axis'      *)
(* mutex and lets go of it, then locks it again for the request: pin up,   *)
(* wait, transfer, pin down.  The interrupt of the FPGA's status line      *)
(* looks the changed bits up in a tree and wakes the waiting thread if     *)
(* they are exactly "SPI ready fell".                                      *)
(*                                                                         *)
(* Every spi_send holds the bus for its whole length, so it is one step;   *)
(* what it read is looked at later.  fpga_get_signal is static in a header:*)
(* host_stepper.c has buffers of its own, and host_main.c, where the       *)
(* buttons are read, others.  The Pico answers the edges of the request    *)
(* pin in their order (PicoLink looks at the Pico itself); the FPGA never  *)
(* loses a change.                                                         *)
(***************************************************************************)
EXTENDS Naturals, Sequences, FiniteSets, SequencesExt

CONSTANTS
  Threads,    (* one per message                                           *)
  Config,     (* the thread stepper_init starts                            *)
  Calm        (* what is assumed of the timing                             *)

(* "apart"   : no button is pressed while a thread has yet to take the     *)
(*             axis' mutex for its request.                                *)
(* "own"     : the FPGA answers the interrupt of the axis with the byte of *)
(*             the axis, although the interrupt of the buttons sends it    *)
(*             the same two zeros.                                         *)
Nobody == "nobody"

ASSUME FirstHostAssumption ==
  /\ IsFiniteSet(Threads) /\ Config \in Threads /\ Nobody \notin Threads
  /\ Calm \subseteq {"apart", "own"}

VARIABLES
  pc,         \* where each thread stands
  lock,       \* holder of the axis' mutex
  claim,      \* holder of spi_base_req's mutex
  sem,        \* spi_base_req's semaphore
  move,       \* xaxis.move: whose move it is
  carried,    \* the message each thread wrote
  spi_msg,    \* whose message the axis' spi_msg points to; Nobody: freed
  leaked,     \* buffers nothing points to any more
  pin,        \* the edges of the request pin the Pico has yet to answer
  ready,      \* the Pico's ready pin, low while it listens
  motion,     \* the Pico's motion pin
  irq,        \* the FPGA's line has fallen, and the FPGA not been read
  reading,    \* stepper_status_isr has read the FPGA, and not looked at rx
  rx,         \* the byte it read
  sig,        \* fpga_sig.sig.cur
  got         \* history: the messages the Pico received

threads == <<pc, lock, claim, move, carried, spi_msg, leaked>>
fpga    == <<irq, reading, rx>>
wires   == <<ready, motion, fpga>>
vars == <<pc, lock, claim, sem, move, carried, spi_msg, leaked, pin, ready, motion, irq,
          reading, rx, sig, got>>

Pins == [ready : 0..1, motion : 0..1]

Unsent(t) == pc[t] \in {"write", "lock"}

Init ==
  /\ pc = [t \in Threads |-> IF t = Config THEN "write" ELSE "idle"]
  /\ lock = Nobody /\ claim = Nobody /\ sem = 0
  /\ move = Nobody /\ carried = [t \in Threads |-> Nobody]
  /\ spi_msg = Nobody /\ leaked = 0
  /\ pin = <<>> /\ ready = 1 /\ motion = 1
  /\ irq = FALSE /\ reading = FALSE /\ rx = [ready |-> 0, motion |-> 0]
  /\ sig = [ready |-> 1, motion |-> 1] /\ got = <<>>

Goto(t, from, to) == pc[t] = from /\ pc' = [pc EXCEPT ![t] = to]

-----------------------------------------------------------------------------
(* The threads. *)

\* input_isr, move: the move is written, without the mutex, and a thread started.
Press(t) ==
  /\ t # Config /\ Goto(t, "idle", "write")
  /\ "apart" \in Calm => ~ \E u \in Threads : Unsent(u)
  /\ move' = t
  /\ UNCHANGED <<lock, claim, sem, carried, spi_msg, leaked, pin, wires, sig, got>>

\* stepper_move, stepper_config: between lock and unlock, the message is copied
\* into fresh buffers.
Anytime == TRUE                                      \* mutant: without the mutex
Free    == lock = Nobody
Write(t) ==
  /\ Free /\ Goto(t, "write", "lock")
  /\ spi_msg' = (IF t = Config THEN t ELSE move)
  /\ carried' = [carried EXCEPT ![t] = spi_msg']
  /\ leaked' = (IF spi_msg = Nobody THEN leaked ELSE leaked + 1)
  /\ UNCHANGED <<lock, claim, sem, move, pin, wires, sig, got>>

\* stepper_spi_send: stepper_lock, request_claim.
Lock(t) ==
  /\ lock = Nobody /\ claim = Nobody /\ Goto(t, "lock", "trigger")
  /\ lock' = t /\ claim' = t
  /\ UNCHANGED <<sem, move, carried, spi_msg, leaked, pin, wires, sig, got>>

\* pin_request_trigger: the pin's own semaphore is never posted and never full.
Trigger(t) ==
  /\ Goto(t, "trigger", "wait")
  /\ pin' = Append(pin, 1)
  /\ UNCHANGED <<lock, claim, sem, move, carried, spi_msg, leaked, wires, sig, got>>

\* request_lock.
Wait(t) ==
  /\ Goto(t, "wait", "send") /\ sem > 0 /\ sem' = sem - 1
  /\ UNCHANGED <<lock, claim, move, carried, spi_msg, leaked, pin, wires, sig, got>>

\* spi_send, spi_read_msg, which frees the buffers: a Pico that listens gets
\* what spi_msg points to.
Freed   == Nobody
Send(t) ==
  /\ Goto(t, "send", "reset")
  /\ got' = (IF ready = 0 THEN Append(got, spi_msg) ELSE got)
  /\ spi_msg' = Freed
  /\ UNCHANGED <<lock, claim, sem, move, carried, leaked, pin, wires, sig>>

\* pin_request_reset, request_unclaim, stepper_unlock.
Unclaimed(t) == Nobody
Reset(t) ==
  /\ Goto(t, "reset", "done")
  /\ pin' = Append(pin, 0)
  /\ claim' = Unclaimed(t) /\ lock' = Nobody
  /\ UNCHANGED <<sem, move, carried, spi_msg, leaked, wires, sig, got>>

-----------------------------------------------------------------------------
(* The interrupt. *)

\* node_find with sig.mask, high << 8 | low, as its key: the fallen bits and no
\* other.
Found(new) == sig.ready = 1 /\ new.ready = 0 /\ new.motion = sig.motion

\* fpga_get_signal: its transfer names no register,
spi_send ==
  /\ irq /\ ~reading
  /\ irq' = FALSE /\ reading' = TRUE
  /\ rx' \in Pins
  /\ "own" \in Calm => rx' = [ready |-> ready, motion |-> motion]
  /\ UNCHANGED <<threads, sem, pin, ready, motion, sig, got>>

\* and the bus is free again when its byte is looked at; request_unlock.
stepper_status_isr ==
  /\ reading /\ reading' = FALSE
  /\ sig' = rx
  /\ sem' = (IF Found(rx) THEN sem + 1 ELSE sem)
  /\ UNCHANGED <<threads, pin, ready, motion, irq, rx, got>>

\* The Pico listens when the pin has risen, and lets go of the bus when it has
\* fallen.
Answer ==
  /\ pin # <<>> /\ pin' = Tail(pin)
  /\ ready' = 1 - Head(pin) /\ irq' = (irq \/ ready' # ready)
  /\ UNCHANGED <<threads, sem, motion, reading, rx, sig, got>>

\* A motor starts or stops.
Motion ==
  /\ got # <<>>
  /\ motion' = 1 - motion /\ irq' = TRUE
  /\ UNCHANGED <<threads, sem, pin, ready, reading, rx, sig, got>>

Step(t) == Write(t) \/ Lock(t) \/ Trigger(t) \/ Wait(t) \/ Send(t) \/ Reset(t)

Next ==
  \/ \E t \in Threads : Press(t) \/ Step(t)
  \/ spi_send \/ stepper_status_isr \/ Answer \/ Motion

Spec == Init /\ [][Next]_vars

-----------------------------------------------------------------------------
(* Properties. *)

TypeOK ==
  /\ pc \in [Threads -> {"idle", "write", "lock", "trigger", "wait", "send", "reset", "done"}]
  /\ {lock, claim, move, spi_msg} \subseteq Threads \cup {Nobody}
  /\ sem \in 0..1 /\ leaked \in 0..Cardinality(Threads)
  /\ pin \in SeqOf(0..1, 2)
  /\ ready \in 0..1 /\ motion \in 0..1 /\ irq \in BOOLEAN
  /\ {sig, rx} \subseteq Pins /\ reading \in BOOLEAN

\* A thread transfers the message it wrote, which is the one it was started
\* for, and out of buffers nobody has freed.
OwnMessage == \A t \in Threads :
  pc[t] \in {"trigger", "wait", "send"} => carried[t] = t /\ spi_msg = t

\* Every buffer is freed: none is overwritten while it holds a message.
NoneLeaked == leaked = 0

\* The Pico listens whenever a thread transfers, and so gets every message once.
Heard ==
  /\ \A t \in Threads : pc[t] = "send" => ready = 0
  /\ Len(got) = Cardinality({t \in Threads : pc[t] \in {"reset", "done"}})

\* Every thread sends its own message, to a Pico that listens.
HostCorrect == TypeOK /\ OwnMessage /\ NoneLeaked /\ Heard

-----------------------------------------------------------------------------
(* Why it works, under "apart". *)

Sending == {"trigger", "wait", "send"}

\* One message at a time is on its way from its press to the axis' mutex; spi_msg
\* is that message or the one whose thread holds the mutex.
MessageInv ==
  /\ pc \in [Threads -> {"idle", "write", "lock", "reset", "done"} \cup Sending]
  /\ leaked = 0
  /\ \A t, u \in Threads : Unsent(t) /\ Unsent(u) => t = u
  /\ \A t \in Threads :
       /\ pc[t] = "write" => t = Config \/ move = t
       /\ pc[t] = "lock" => lock = Nobody
       /\ pc[t] \in Sending \cup {"reset"} => lock = t
       /\ pc[t] \in Sending \cup {"lock"} => carried[t] = t /\ spi_msg = t
  /\ spi_msg # Nobody => spi_msg \in Threads /\ pc[spi_msg] \in Sending \cup {"lock"}
  /\ carried \in [Threads -> Threads \cup {Nobody}]

=============================================================================
