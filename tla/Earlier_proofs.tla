---------------------------- MODULE Earlier_proofs ----------------------------
(***************************************************************************)
(* Proofs about the earlier generations of the program: the first C host,  *)
(* for any number of messages; the link to the ESPs, for any number of     *)
(* them; the laser machine, for programs of any length; the ESP axis, for  *)
(* lines to any point and curves of any radius.                            *)
(*                                                                         *)
(* First host: as long as the FPGA answers the interrupt of the axis with  *)
(* the axis' byte ("own"), the request pin, the Pico's answer and the      *)
(* semaphore fit together whatever is pressed when; and as long as no      *)
(* button is pressed while a message has yet to reach the axis' mutex      *)
(* ("apart"), every thread sends its own message and no buffer is lost.    *)
(***************************************************************************)
EXTENDS FirstHost, EspAxis, EspLink, LaserProgram, FiniteSetTheorems,
        WellFoundedInduction, SequenceTheorems, TLAPS

-----------------------------------------------------------------------------
\* Every step keeps the invariant.
LEMMA MessageStep ==
  ASSUME "apart" \in Calm, MessageInv, [Next]_vars
  PROVE  MessageInv'
<1> USE FirstHostAssumption DEF MessageInv, Sending, Unsent, Goto, wires, fpga, threads
<1>1. ASSUME NEW t \in Threads, Press(t) PROVE MessageInv'
  BY <1>1 DEF Press
<1>2. ASSUME NEW t \in Threads, Write(t) PROVE MessageInv'
  <2>1. \A u \in Threads : pc[u] \notin Sending \cup {"reset", "lock"}
    BY <1>2 DEF Write, Free
  <2>2. spi_msg = Nobody /\ spi_msg' = t /\ leaked' = 0
    BY <1>2, <2>1 DEF Write
  <2>3. QED
    BY <1>2, <2>1, <2>2 DEF Write, Free
<1>3. ASSUME NEW t \in Threads, Lock(t) PROVE MessageInv'
  <2>1. \A u \in Threads : u # t => pc[u] \notin Sending \cup {"reset", "lock"}
    BY <1>3 DEF Lock
  <2>2. QED
    BY <1>3, <2>1 DEF Lock
<1>4. ASSUME NEW t \in Threads, Trigger(t) PROVE MessageInv'
  BY <1>4 DEF Trigger
<1>5. ASSUME NEW t \in Threads, Wait(t) PROVE MessageInv'
  BY <1>5 DEF Wait
<1>6. ASSUME NEW t \in Threads, Send(t) PROVE MessageInv'
  <2>1. \A u \in Threads : u # t => pc[u] \notin Sending \cup {"reset", "lock"}
    BY <1>6 DEF Send
  <2>2. QED
    BY <1>6, <2>1 DEF Send, Freed
<1>7. ASSUME NEW t \in Threads, Reset(t) PROVE MessageInv'
  <2>1. \A u \in Threads : u # t => pc[u] \notin Sending \cup {"reset", "lock"}
    BY <1>7 DEF Reset
  <2>2. QED
    BY <1>7, <2>1 DEF Reset
<1>8. ASSUME spi_send \/ stepper_status_isr \/ Answer \/ Motion \/ UNCHANGED vars
      PROVE  MessageInv'
  BY <1>8 DEF spi_send, stepper_status_isr, Answer, Motion, vars
<1>9. QED
  BY <1>1, <1>2, <1>3, <1>4, <1>5, <1>6, <1>7, <1>8 DEF Next, Step

\* At any time one message at most is between its press and its request, and
\* spi_msg is the message of the thread whose turn it is (stepper_move,
\* stepper_spi_send).
THEOREM HostMessageInv ==
  ASSUME "apart" \in Calm
  PROVE  Spec => []MessageInv
<1>1. Init => MessageInv
  BY FirstHostAssumption DEF Init, MessageInv, Sending, Unsent
<1>2. MessageInv /\ [Next]_vars => MessageInv'
  BY MessageStep
<1>3. QED
  BY <1>1, <1>2, PTL DEF Spec

\* Every thread transfers its own message out of buffers nobody has freed,
\* although stepper_move lets go of the mutex before stepper_spi_send takes it.
THEOREM HostOwnMessage ==
  ASSUME "apart" \in Calm
  PROVE  Spec => []OwnMessage
<1>1. ASSUME MessageInv PROVE OwnMessage
  BY <1>1 DEF MessageInv, OwnMessage, Sending
<1>2. QED
  BY <1>1, HostMessageInv, PTL

\* Every buffer stepper_config and stepper_move allocate is freed.
THEOREM HostNoneLeaked ==
  ASSUME "apart" \in Calm
  PROVE  Spec => []NoneLeaked
<1>1. ASSUME MessageInv PROVE NoneLeaked
  BY <1>1 DEF MessageInv, NoneLeaked
<1>2. QED
  BY <1>1, HostMessageInv, PTL

-----------------------------------------------------------------------------
(* The handshake, whatever the buttons do.                                 *)

Holding(t) == pc[t] \in Sending \cup {"reset"}

\* The interrupt has seen the ready pin low, and what it has read and not looked at
\* says no other; or what it has read is no news.
Down   == sig.ready = 0 /\ (reading => rx.ready = 0)
NoNews == reading /\ rx.ready = 0 => sig.ready = 0

\* The request pin of the message before may still have to fall at the Pico; what
\* status_isr has seen of it then keeps it from waking the next thread.
Waits    == /\ sem \in 0..1
            /\ pin \in {<<>>, <<1>>, <<0, 1>>}
            /\ ready = 0 <=> pin # <<1>>
            /\ pin = <<0, 1>> \/ sem = 1 => Down
            /\ pin # <<>> => NoNews /\ sem = 0
Transfer == pin = <<>> /\ ready = 0 /\ sem = 0 /\ Down
Between  == /\ sem = 0 /\ pin \in {<<>>, <<0>>}
            /\ ready = 0 <=> pin = <<0>>
            /\ pin = <<0>> => Down
            /\ NoNews

Past == {t \in Threads : pc[t] \in {"reset", "done"}}

HandshakeInv ==
  /\ pc \in [Threads -> {"idle", "write", "lock", "reset", "done"} \cup Sending]
  /\ ready \in {0, 1} /\ motion \in {0, 1} /\ irq \in BOOLEAN
  /\ sig \in Pins /\ rx \in Pins /\ reading \in BOOLEAN
  /\ \A t \in Threads : /\ Holding(t) => lock = t
                        /\ pc[t] = "wait" => Waits
                        /\ pc[t] \in {"send", "reset"} => Transfer
  /\ (\A t \in Threads : pc[t] \notin {"wait", "send", "reset"}) => Between
  /\ got \in Seq(Threads \cup {Nobody}) /\ spi_msg \in Threads \cup {Nobody}
  /\ {lock, claim, move} \subseteq Threads \cup {Nobody}
  /\ IsFiniteSet(Past) /\ Len(got) = Cardinality(Past)

\* The pins a thread can find or leave.
LEMMA RequestPins ==
  /\ Append(<<>>, 1) = <<1>> /\ Append(<<0>>, 1) = <<0, 1>> /\ Append(<<>>, 0) = <<0>>
  /\ <<>> # <<0>> /\ <<>> # <<1>> /\ <<>> # <<0, 1>>
  /\ <<0>> # <<1>> /\ <<0>> # <<0, 1>> /\ <<1>> # <<0, 1>>
<1>1. /\ <<0>> \in Seq(Nat) /\ <<1>> \in Seq(Nat) /\ <<0, 1>> \in Seq(Nat)
      /\ Len(<<0>>) = 1 /\ Len(<<1>>) = 1 /\ Len(<<0, 1>>) = 2
      /\ <<0>>[1] = 0 /\ <<0, 1>>[1] = 0 /\ <<0, 1>>[2] = 1
  OBVIOUS
<1>2. Append(<<0>>, 1) \in Seq(Nat) /\ Len(Append(<<0>>, 1)) = 2
  BY <1>1
<1>3. Append(<<0>>, 1)[1] = 0 /\ Append(<<0>>, 1)[2] = 1
  BY <1>1
<1>4. \A i \in 1..2 : Append(<<0>>, 1)[i] = <<0, 1>>[i]
  BY <1>1, <1>3
<1>5. Append(<<0>>, 1) = <<0, 1>>
  BY <1>1, <1>2, <1>4, SeqEqual
<1>6. <<0>> # <<1>> /\ Append(<<>>, 1) = <<1>> /\ Append(<<>>, 0) = <<0>>
  OBVIOUS
<1>7. <<0>> # <<0, 1>> /\ <<1>> # <<0, 1>>
  BY <1>1
<1>8. <<>> # <<0>> /\ <<>> # <<1>> /\ <<>> # <<0, 1>>
  OBVIOUS
<1>9. QED
  BY <1>5, <1>6, <1>7, <1>8

LEMMA HandshakeInit == Init => HandshakeInv
<1> SUFFICES ASSUME Init PROVE HandshakeInv
  OBVIOUS
<1>1. Past = {}
  BY DEF Init, Past
<1>2. IsFiniteSet(Past) /\ Len(got) = Cardinality(Past)
  BY <1>1, FS_EmptySet DEF Init
<1>3. got \in Seq(Threads \cup {Nobody})
  BY DEF Init
<1>4. Between
  BY DEF Init, Between, NoNews
<1>5. \A t \in Threads : pc[t] \in {"idle", "write"}
  BY DEF Init
<1>6. irq \in BOOLEAN /\ sig \in Pins /\ rx \in Pins /\ reading \in BOOLEAN
  <2>1. sig \in Pins /\ rx \in Pins
    BY DEF Init, Pins
  <2>2. irq = FALSE /\ reading = FALSE
    BY DEF Init
  <2>3. QED
    BY <2>1, <2>2, Zenon
<1>7. pc \in [Threads -> {"idle", "write", "lock", "reset", "done"} \cup Sending]
  BY DEF Init
<1>8. QED
  BY <1>2, <1>3, <1>4, <1>5, <1>6, <1>7 DEF Init, HandshakeInv, Holding, Sending

\* One thread at a time is between its request and the end of its transfer.
LEMMA Alone ==
  ASSUME HandshakeInv, NEW t \in Threads, Holding(t), NEW u \in Threads, u # t
  PROVE  ~Holding(u)
  BY DEF HandshakeInv

\* Steps before the request.
LEMMA HandshakeEarly ==
  ASSUME HandshakeInv, NEW t \in Threads, Press(t) \/ Write(t) \/ Lock(t)
  PROVE  HandshakeInv'
<1>1. /\ pc \in [Threads -> {"idle", "write", "lock", "reset", "done"} \cup Sending]
      /\ UNCHANGED <<sem, pin, ready, motion, irq, reading, rx, sig, got>>
  BY DEF HandshakeInv, Press, Write, Lock, wires, fpga
<1>2. /\ pc' \in [Threads -> {"idle", "write", "lock", "reset", "done"} \cup Sending]
      /\ \A u \in Threads : u # t => pc'[u] = pc[u]
      /\ pc[t] \in {"idle", "write", "lock"} /\ pc'[t] \in {"write", "lock", "trigger"}
  BY <1>1 DEF Press, Write, Lock, Goto, Sending
<1>3. \A u \in Threads : Holding(u)' => lock' = u
  <2>1. CASE lock' = lock /\ pc'[t] \in {"write", "lock"}
    BY <1>2, <2>1 DEF HandshakeInv, Holding, Sending
  <2>2. CASE lock = Nobody /\ lock' = t
    <3>1. \A u \in Threads : ~Holding(u)
      BY <2>2, FirstHostAssumption DEF HandshakeInv
    <3>2. QED
      BY <1>2, <2>2, <3>1 DEF Holding, Sending
  <2>3. QED
    BY <1>1, <1>2, <2>1, <2>2 DEF Press, Write, Lock, Goto
<1>4. Past' = Past
  BY <1>2 DEF Past
<1>5. (Waits => Waits') /\ (Transfer => Transfer') /\ (Between => Between')
  BY <1>1 DEF Waits, Transfer, Between, Down, NoNews
<1>6. /\ \A u \in Threads : pc'[u] = "wait" => Waits'
      /\ \A u \in Threads : pc'[u] \in {"send", "reset"} => Transfer'
      /\ (\A u \in Threads : pc'[u] \notin {"wait", "send", "reset"}) => Between'
  <2>1. \A u \in Threads : \A p \in {"wait", "send", "reset"} : pc'[u] = p <=> pc[u] = p
    BY <1>2
  <2>2. (\A u \in Threads : pc'[u] \notin {"wait", "send", "reset"}) =>
          \A u \in Threads : pc[u] \notin {"wait", "send", "reset"}
    BY <2>1
  <2>3. QED
    BY <1>5, <2>1, <2>2 DEF HandshakeInv
<1>7. /\ spi_msg' \in Threads \cup {Nobody}
      /\ {lock', claim', move'} \subseteq Threads \cup {Nobody}
  BY DEF HandshakeInv, Press, Write, Lock
<1>8. /\ got' \in Seq(Threads \cup {Nobody}) /\ IsFiniteSet(Past')
      /\ Len(got') = Cardinality(Past')
  BY <1>1, <1>4 DEF HandshakeInv
<1>9. /\ ready' \in {0, 1} /\ motion' \in {0, 1} /\ irq' \in BOOLEAN
      /\ sig' \in Pins /\ rx' \in Pins /\ reading' \in BOOLEAN
  BY <1>1 DEF HandshakeInv
<1>10. \A u \in Threads : /\ Holding(u)' => lock' = u
                          /\ pc'[u] = "wait" => Waits'
                          /\ pc'[u] \in {"send", "reset"} => Transfer'
  <2> TAKE u \in Threads
  <2>1. Holding(u)' => lock' = u
    BY <1>3
  <2>2. /\ pc'[u] = "wait" => Waits'
        /\ pc'[u] \in {"send", "reset"} => Transfer'
    BY <1>6
  <2>3. QED
    BY <2>1, <2>2
<1>11. pc' \in [Threads -> {"idle", "write", "lock", "reset", "done"} \cup Sending]
  BY <1>2
<1>12. QED
  BY <1>6, <1>7, <1>8, <1>9, <1>10, <1>11 DEF HandshakeInv

\* Steps of the thread that holds the mutex, but for its transfer.
LEMMA HandshakeHolder ==
  ASSUME HandshakeInv, NEW t \in Threads, Trigger(t) \/ Wait(t) \/ Reset(t)
  PROVE  HandshakeInv'
<1>1. /\ pc \in [Threads -> {"idle", "write", "lock", "reset", "done"} \cup Sending]
      /\ pc[t] \in {"trigger", "wait", "reset"} /\ pc'[t] \in {"wait", "send", "done"}
      /\ pc' \in [Threads -> {"idle", "write", "lock", "reset", "done"} \cup Sending]
      /\ \A u \in Threads : u # t => pc'[u] = pc[u]
      /\ UNCHANGED <<ready, motion, irq, reading, rx, sig, got, spi_msg, move>>
  BY DEF HandshakeInv, Trigger, Wait, Reset, Goto, Sending, wires, fpga
<1>n. (Down => Down') /\ (NoNews => NoNews') /\ (Down => NoNews)
  BY <1>1 DEF Down, NoNews
<1>2. \A u \in Threads : u # t => pc[u] \notin Sending \cup {"reset"}
  <2>1. Holding(t)
    BY <1>1 DEF Holding, Sending
  <2>2. QED
    BY <2>1, Alone DEF Holding
<1>3. Past' = Past
  <2>1. pc[t] \in {"reset", "done"} <=> pc'[t] \in {"reset", "done"}
    BY DEF Trigger, Wait, Reset, Goto, HandshakeInv
  <2>2. QED
    BY <1>1, <2>1 DEF Past
<1>4. CASE Trigger(t)
  <2>1. Between /\ pc'[t] = "wait" /\ pin' = Append(pin, 1) /\ UNCHANGED <<lock, claim, sem>>
    BY <1>1, <1>2, <1>4 DEF HandshakeInv, Trigger, Goto, Sending
  <2>2. Waits'
    <3>1. CASE pin = <<>>
      <4>1. pin' = <<1>> /\ <<1>> # <<>> /\ <<1>> # <<0, 1>>
        BY <2>1, <3>1, RequestPins
      <4>2. pin # <<0>> /\ NoNews' /\ sem' = 0 /\ ready \in {0, 1} /\ ready # 0
        BY <1>n, <2>1, <3>1, RequestPins DEF Between, HandshakeInv
      <4>3. QED
        BY <1>1, <4>1, <4>2 DEF Waits
    <3>2. CASE pin = <<0>>
      <4>1. Append(<<0>>, 1) = <<0, 1>> /\ <<0, 1>> # <<1>>
        BY RequestPins
      <4>2. pin' = <<0, 1>> /\ pin' # <<1>> /\ ready' = 0 /\ sem' = 0 /\ Down' /\ NoNews'
        BY <1>1, <1>n, <2>1, <3>2, <4>1 DEF Between
      <4>3. QED
        BY <4>2 DEF Waits
    <3>3. QED
      BY <2>1, <3>1, <3>2 DEF Between
  <2>3. QED
    BY <1>1, <1>2, <1>3, <1>4, <2>1, <2>2 DEF HandshakeInv, Holding, Sending, Trigger, Goto
<1>5. CASE Wait(t)
  <2>1. Waits /\ sem = 1 /\ pc'[t] = "send" /\ sem' = 0 /\ UNCHANGED <<lock, claim, pin>>
    BY <1>1, <1>5 DEF HandshakeInv, Wait, Goto, Waits
  <2>2. Transfer'
    BY <1>1, <1>n, <2>1 DEF Waits, Transfer
  <2>3. QED
    BY <1>1, <1>2, <1>3, <1>5, <2>1, <2>2 DEF HandshakeInv, Holding, Sending, Wait, Goto
<1>6. CASE Reset(t)
  <2>1. /\ Transfer /\ pc'[t] = "done" /\ pin' = Append(pin, 0) /\ sem' = sem
        /\ lock' = Nobody /\ claim' = Nobody
    BY <1>1, <1>6 DEF HandshakeInv, Reset, Goto, Unclaimed
  <2>2. Between'
    BY <1>1, <1>n, <2>1 DEF Transfer, Between
  <2>3. QED
    BY <1>1, <1>2, <1>3, <2>1, <2>2 DEF HandshakeInv, Holding, Sending
<1>7. QED
  BY <1>4, <1>5, <1>6

\* The transfer: the Pico listens, and gets one message more.
LEMMA HandshakeSend ==
  ASSUME HandshakeInv, NEW t \in Threads, Send(t)
  PROVE  HandshakeInv'
<1>1. /\ pc \in [Threads -> {"idle", "write", "lock", "reset", "done"} \cup Sending]
      /\ pc[t] = "send" /\ pc' = [pc EXCEPT ![t] = "reset"] /\ Transfer
      /\ UNCHANGED <<sem, pin, ready, motion, irq, reading, rx, sig, lock, claim, move>>
      /\ spi_msg' = Nobody
  BY DEF HandshakeInv, Send, Goto, Freed, wires, fpga
<1>2. Transfer'
  BY <1>1 DEF Transfer, Down
<1>3. got \in Seq(Threads \cup {Nobody}) /\ spi_msg \in Threads \cup {Nobody}
  BY DEF HandshakeInv
<1>4. got' = Append(got, spi_msg)
  BY <1>1 DEF Send, Transfer
<1>5. got' \in Seq(Threads \cup {Nobody}) /\ Len(got') = Len(got) + 1
  BY <1>3, <1>4
<1>6. Past' = Past \cup {t} /\ t \notin Past
  BY <1>1 DEF Past
<1>7. IsFiniteSet(Past') /\ Cardinality(Past') = Cardinality(Past) + 1
  BY <1>6, FS_AddElement DEF HandshakeInv
<1>8. \A u \in Threads : Holding(u)' => lock' = u
  BY <1>1 DEF HandshakeInv, Holding, Sending
<1>9. \A u \in Threads : pc'[u] # "wait"
  BY <1>1 DEF HandshakeInv, Holding, Sending
<1>10. pc' \in [Threads -> {"idle", "write", "lock", "reset", "done"} \cup Sending]
  BY <1>1
<1>11. ~ \A u \in Threads : pc'[u] \notin {"wait", "send", "reset"}
  BY <1>1
<1>12. QED
  BY <1>1, <1>2, <1>5, <1>7, <1>8, <1>9, <1>10, <1>11 DEF HandshakeInv

\* The interrupt's transfer reads the ready pin.
LEMMA HandshakeRead ==
  ASSUME "own" \in Calm, HandshakeInv, spi_send
  PROVE  HandshakeInv'
<1>1. /\ UNCHANGED <<pc, lock, claim, move, spi_msg, got, sem, pin, ready, motion, sig>>
      /\ irq' = FALSE /\ reading' = TRUE /\ rx' = [ready |-> ready, motion |-> motion]
  BY DEF spi_send, threads
<1>2. /\ ready \in {0, 1} /\ motion \in {0, 1} /\ sig \in Pins
      /\ rx'.ready = ready /\ rx' \in Pins
  BY <1>1 DEF HandshakeInv, Pins
<1>3. Waits => Waits'
  BY <1>1, <1>2, RequestPins DEF Waits, Down, NoNews
<1>4. Transfer => Transfer'
  BY <1>1, <1>2 DEF Transfer, Down
<1>5. Between => Between'
  BY <1>1, <1>2 DEF Between, Down, NoNews
<1>6. Past' = Past
  BY <1>1 DEF Past
<1>7. QED
  BY <1>1, <1>2, <1>3, <1>4, <1>5, <1>6 DEF HandshakeInv, Holding

\* The interrupt wakes a thread once, and only one whose request is answered.
LEMMA HandshakeIsr ==
  ASSUME HandshakeInv, stepper_status_isr
  PROVE  HandshakeInv'
<1>1. /\ UNCHANGED <<pc, lock, claim, move, spi_msg, got, pin, ready, motion, irq, rx>>
      /\ reading /\ reading' = FALSE /\ sig' = rx
      /\ sem' = IF sig.ready = 1 /\ rx.ready = 0 /\ rx.motion = sig.motion THEN sem + 1 ELSE sem
  BY DEF stepper_status_isr, Found, threads
<1>2. /\ ready \in {0, 1} /\ motion \in {0, 1} /\ sig \in Pins /\ rx \in Pins
      /\ sig.ready \in {0, 1} /\ rx.ready \in {0, 1}
  BY DEF HandshakeInv, Pins
<1>3. NoNews' /\ (Down => Down')
  BY <1>1, <1>2 DEF NoNews, Down
<1>4. Waits => Waits'
  <2> SUFFICES ASSUME Waits PROVE Waits'
    OBVIOUS
  <2>1. CASE sem' = sem
    BY <1>1, <1>3, <2>1 DEF Waits
  <2>2. CASE sig.ready = 1 /\ rx.ready = 0 /\ sem' = sem + 1
    <3>1. pin = <<>>
      BY <1>1, <2>2 DEF Waits, NoNews
    <3>2. sem = 0
      BY <2>2 DEF Waits, Down
    <3>3. Down'
      BY <1>1, <2>2 DEF Down
    <3>4. pin' = <<>> /\ sem' = 1 /\ ready' = ready
      BY <1>1, <2>2, <3>1, <3>2
    <3>5. QED
      BY <3>1, <3>3, <3>4 DEF Waits
  <2>3. QED
    BY <1>1, <2>1, <2>2
<1>5. Transfer => Transfer'
  BY <1>1, <1>3, <1>2 DEF Transfer, Down
<1>6. Between => Between'
  BY <1>1, <1>3, <1>2 DEF Between, NoNews
<1>7. Past' = Past
  BY <1>1 DEF Past
<1>8. QED
  BY <1>1, <1>2, <1>4, <1>5, <1>6, <1>7 DEF HandshakeInv, Holding

\* The Pico answers an edge of the request pin; a motor starts or stops.
LEMMA HandshakeWires ==
  ASSUME HandshakeInv, Answer \/ Motion
  PROVE  HandshakeInv'
<1>1. /\ UNCHANGED <<pc, lock, claim, move, spi_msg, got, reading, rx, sig>> /\ Past' = Past
      /\ (Down => Down') /\ (NoNews => NoNews') /\ (Down => NoNews)
  BY DEF Answer, Motion, threads, Past, Down, NoNews
<1>2. ready \in {0, 1} /\ motion \in {0, 1} /\ irq \in BOOLEAN
  BY DEF HandshakeInv
<1>3. /\ ready' \in {0, 1} /\ motion' \in {0, 1} /\ irq' \in BOOLEAN
      /\ Waits => Waits'
      /\ Transfer => Transfer'
      /\ Between => Between'
  <2>1. CASE Answer
    <3>1. /\ pin # <<>> /\ pin' = Tail(pin) /\ ready' = 1 - Head(pin)
          /\ irq' = (irq \/ ready' # ready) /\ UNCHANGED <<sem, motion>>
      BY <2>1 DEF Answer
    <3>2. irq' \in BOOLEAN
      BY <3>1, <1>2, Zenon
    <3>3. CASE pin = <<1>>
      <4>1. pin' = <<>> /\ ready' = 0 /\ pin # <<0>> /\ pin # <<0, 1>>
        BY <3>1, <3>3, RequestPins
      <4>2. <<>> # <<1>> /\ <<>> # <<0, 1>>
        BY RequestPins
      <4>3. ~Transfer /\ ~Between
        BY <3>1, <4>1 DEF Transfer, Between
      <4>4. Waits => Waits'
        BY <3>1, <4>1, <4>2 DEF Waits
      <4>5. ready' \in {0, 1} /\ motion' \in {0, 1}
        BY <1>2, <3>1, <4>1
      <4>6. QED
        BY <3>2, <4>3, <4>4, <4>5, Zenon
    <3>4. CASE pin = <<0>>
      <4>1. pin' = <<>> /\ ready' = 1 /\ pin # <<1>> /\ pin # <<0, 1>>
        BY <3>1, <3>4, RequestPins
      <4>2. <<>> # <<0>>
        BY RequestPins
      <4>3. ~Transfer /\ ~Waits
        BY <3>1, <4>1 DEF Transfer, Waits
      <4>4. Between => Between'
        BY <1>1, <3>1, <4>1, <4>2 DEF Between
      <4>5. ready' \in {0, 1} /\ motion' \in {0, 1}
        BY <1>2, <3>1, <4>1
      <4>6. QED
        BY <3>2, <4>3, <4>4, <4>5, Zenon
    <3>5. CASE pin = <<0, 1>>
      <4>1. pin' = <<1>> /\ ready' = 1 /\ pin # <<0>> /\ pin # <<>>
        BY <3>1, <3>5, RequestPins
      <4>2. <<1>> # <<0, 1>> /\ <<1>> # <<>> /\ pin # <<1>>
        BY <3>5, RequestPins
      <4>3. ~Transfer /\ ~Between
        BY <3>1, <4>1 DEF Transfer, Between
      <4>4. Waits => Waits'
        <5>1. Waits => NoNews /\ sem = 0
          BY <4>1 DEF Waits
        <5>2. NoNews' /\ sem' = 0 => Waits'
          BY <4>1, <4>2 DEF Waits
        <5>3. QED
          BY <1>1, <3>1, <5>1, <5>2
      <4>5. ready' \in {0, 1} /\ motion' \in {0, 1}
        BY <1>2, <3>1, <4>1
      <4>6. QED
        BY <3>2, <4>3, <4>4, <4>5, Zenon
    <3>6. (Waits \/ Transfer \/ Between) => pin \in {<<>>, <<1>>, <<0>>, <<0, 1>>}
      BY DEF Waits, Transfer, Between
    <3>7. Waits \/ Transfer \/ Between
      BY DEF HandshakeInv
    <3>8. QED
      BY <3>1, <3>3, <3>4, <3>5, <3>6, <3>7
  <2>2. CASE Motion
    BY <1>1, <1>2, <2>2 DEF Motion, Waits, Transfer, Between
  <2>3. QED
    BY <2>1, <2>2
<1>4. QED
  BY <1>1, <1>3 DEF HandshakeInv, Holding

LEMMA HandshakeStep == "own" \in Calm /\ HandshakeInv /\ [Next]_vars => HandshakeInv'
<1> SUFFICES ASSUME "own" \in Calm, HandshakeInv, [Next]_vars PROVE HandshakeInv'
  OBVIOUS
<1>1. ASSUME NEW t \in Threads, Press(t) \/ Step(t) PROVE HandshakeInv'
  BY <1>1, HandshakeEarly, HandshakeHolder, HandshakeSend DEF Step
<1>2. CASE spi_send \/ stepper_status_isr \/ Answer \/ Motion
  BY <1>2, HandshakeRead, HandshakeIsr, HandshakeWires
<1>3. CASE UNCHANGED vars
  BY <1>3 DEF vars, HandshakeInv, Holding, Waits, Transfer, Between, Down, NoNews, Past
<1>4. QED
  BY <1>1, <1>2, <1>3 DEF Next

\* The request pin, the Pico's answer and the semaphore fit together, whatever is
\* pressed when, if the FPGA answers the axis' interrupt with the axis' byte.
THEOREM HostHandshake ==
  ASSUME "own" \in Calm
  PROVE  Spec => []HandshakeInv
  BY HandshakeInit, HandshakeStep, PTL DEF Spec

\* The Pico listens whenever a thread transfers and gets one message for each
\* (pin_request_trigger, stepper_status_isr), also when buttons are pressed at any
\* moment, if the FPGA answers the axis' interrupt with the axis' byte.
THEOREM HostHeard ==
  ASSUME "own" \in Calm
  PROVE  Spec => []Heard
<1>1. HandshakeInv => Heard
  BY DEF HandshakeInv, Heard, Transfer, Past
<1>2. QED
  BY <1>1, HostHandshake, PTL

\* One message at a time, and each interrupt its own byte: the first host is correct.
THEOREM HostIsCorrect ==
  ASSUME "apart" \in Calm, "own" \in Calm
  PROVE  Spec => []HostCorrect
<1>1. ASSUME MessageInv, HandshakeInv PROVE TypeOK
  <2>1. Cardinality(Threads) \in Nat
    BY FirstHostAssumption, FS_CardinalityType
  <2>2. leaked \in 0..Cardinality(Threads)
    BY <1>1, <2>1 DEF MessageInv
  <2>3. sem \in 0..1 /\ pin \in {<<>>, <<0>>, <<1>>, <<0, 1>>}
    BY <1>1 DEF HandshakeInv, Waits, Transfer, Between
  <2>4. pin \in SeqOf(0..1, 2)
    <3>1. /\ <<>> \in [1..0 -> 0..1] /\ <<0>> \in [1..1 -> 0..1] /\ <<1>> \in [1..1 -> 0..1]
          /\ <<0, 1>> \in [1..2 -> 0..1]
      OBVIOUS
    <3>2. \A m \in 0..2 : \A f \in [1..m -> 0..1] : f \in SeqOf(0..1, 2)
      BY Zenon DEF SeqOf
    <3>3. 0 \in 0..2 /\ 1 \in 0..2 /\ 2 \in 0..2
      OBVIOUS
    <3>4. /\ <<>> \in SeqOf(0..1, 2) /\ <<0>> \in SeqOf(0..1, 2)
          /\ <<1>> \in SeqOf(0..1, 2) /\ <<0, 1>> \in SeqOf(0..1, 2)
      BY <3>1, <3>2, <3>3, Zenon
    <3>5. QED
      BY <2>3, <3>4
  <2>5. QED
    BY <1>1, <2>2, <2>3, <2>4 DEF TypeOK, HandshakeInv, Sending
<1>2. MessageInv /\ HandshakeInv /\ OwnMessage /\ NoneLeaked /\ Heard => HostCorrect
  BY <1>1 DEF HostCorrect
<1>3. QED
  BY <1>2, HostMessageInv, HostHandshake, HostOwnMessage, HostNoneLeaked, HostHeard, PTL

-----------------------------------------------------------------------------
(* The link to the ESPs. *)

\* The host has a message other than RECEIVE for d that it has not clocked yet.
Calls(d) == host.msg.kind # "RECEIVE" /\ (host.op = "group" \/ host.d = d)

\* The host has raised the handshake pin of d for the transfer to come.
Called(d) ==
  IF host.op = "group"
  THEN \/ host.pc = "trigger" /\ d < host.d
       \/ host.pc \in {"wait", "clock"} /\ d <= host.d
  ELSE host.pc \in {"wait", "clock"} /\ d = host.d

Message(b) == b.kind \in {"COMMAND", "MOVE"}

\* The buffer of d holds a message that msg_task has yet to carry out.
Loaded(d) ==
  Message(buf[d]) /\ (ev[d] \in {"done", "queue"} \/ mq[d] = 1 \/ mt[d] \in {"read", "move"})

\* Nothing of an earlier message is under way at d, or its move waits for the edge.
Free4Next(d) ==
  \/ mt[d] = "idle" /\ mq[d] = 0
  \/ mt[d] \in {"begin", "sync"} /\ edge[d] = 0 /\ host.op = "poll"

\* Where the host is.
HostInv ==
  /\ host.pc = "idle" <=> host.op = "none"
  /\ host.op \in {"none", "poll"} => host.msg = Recv
  /\ host.op = "one" => host.msg.kind # "MOVE"
  /\ host.op = "group" <=> host.msg.kind = "MOVE"
  /\ host.msg.kind # "RECEIVE" => host.msg.id = made
  /\ host.op = "group" => host.pc # "send" /\ (host.pc = "clock" => host.d = Esps)
  /\ waiting => host.pc = "wait"
  /\ IF host.pc = "send" THEN spiSem \in 0..MaxStale
     ELSE spiSem = IF host.pc = "wait" /\ ~waiting THEN 1 ELSE 0

\* The SPI side of d: called up to its READY pulse and the post of it; or not, and
\* then at most at the end of its last transfer.
BusInv(d) ==
  /\ IF Called(d)
     THEN /\ spi[d] = "RECEIVING" /\ Free4Next(d)
          /\ IF host.pc = "wait" /\ d = host.d /\ waiting
             THEN \/ ev[d] = "wait" /\ evq[d] = <<"SPI_RECV_MSG">>
                  \/ ev[d] = "setup" /\ evq[d] # <<"SPI_RECV_MSG">>
             ELSE ev[d] = "armed" /\ evq[d] # <<"SPI_RECV_MSG">>
          /\ ev[d] # "wait" => buf[d] = Blank /\ (reply[d] => mt[d] = "sync")
     ELSE /\ ev[d] \in {"wait", "done", "queue"} /\ evq[d] # <<"SPI_RECV_MSG">>
          /\ spi[d] = IF ev[d] = "done" THEN "RECEIVING" ELSE "IDLE"

\* A message on its way through d is at one place; what is sent is what has been
\* carried out, what is on its way and what the host has in its hands.
MsgInv(d) ==
  /\ Loaded(d) => \/ ev[d] \in {"done", "queue"} /\ mq[d] = 0 /\ mt[d] = "idle"
                  \/ ev[d] = "wait" /\ mq[d] = 1 /\ mt[d] = "idle"
                  \/ ev[d] = "wait" /\ mq[d] = 0 /\ mt[d] \in {"read", "move"}
  /\ mt[d] = "move" => buf[d].kind = "MOVE"
  /\ sent[d] = (done[d] \o (IF Loaded(d) THEN <<buf[d].id>> ELSE <<>>))
                        \o (IF Calls(d) THEN <<host.msg.id>> ELSE <<>>)
  /\ edge[d] = 1 => mt[d] = "sync"
  /\ mt[d] \in {"begin", "sync"} /\ edge[d] = 0 => host.op = "poll"
  /\ Loaded(d) /\ buf[d].kind = "MOVE" => host.op = "poll"

\* While the host polls, its move is on its way at every ESP or waits for the edge.
PollInv(d) == host.op = "poll" =>
  /\ edge[d] = 0
  /\ \/ Loaded(d) /\ buf[d] = [kind |-> "MOVE", id |-> made]
     \/ mt[d] \in {"begin", "sync"} /\ done[d] # <<>> /\ Last(done[d]) = made
  /\ d < host.d => mt[d] = "sync"

\* One ESP, and all of the link.
DevInv(d) == BusInv(d) /\ MsgInv(d) /\ PollInv(d)

EspInv == LinkTypeOK /\ HostInv /\ \A d \in Dev : DevInv(d)

\* What may be in an ESP's event_queue.
LEMMA EventQueues ==
  /\ <<>> # <<"LIMIT_SWITCH">> /\ <<>> # <<"SPI_RECV_MSG">>
  /\ <<"LIMIT_SWITCH">> # <<"SPI_RECV_MSG">>
  /\ Head(<<"LIMIT_SWITCH">>) = "LIMIT_SWITCH" /\ Head(<<"SPI_RECV_MSG">>) = "SPI_RECV_MSG"
  /\ Tail(<<"LIMIT_SWITCH">>) = <<>> /\ Tail(<<"SPI_RECV_MSG">>) = <<>>
  OBVIOUS

LEMMA EspTypes == LinkTypeOK /\ HostInv /\ [LinkNext]_linkVars => LinkTypeOK'
<1> SUFFICES ASSUME LinkTypeOK, HostInv, [LinkNext]_linkVars PROVE LinkTypeOK'
  OBVIOUS
<1> USE LinkAssumption
<1>t. /\ Recv \in [kind : {"RECEIVE", "COMMAND", "MOVE"}, id : 0..MaxMsgs] /\ Idle.msg = Recv
      /\ Blank \in [kind : {"PRINT_INFO", "RECEIVE", "COMMAND", "MOVE"}, id : 0..MaxMsgs]
  BY DEF Recv, Blank, Idle
<1>d. host.d \in Dev /\ Esps \in Nat
  BY DEF LinkTypeOK
<1>1. CASE \E d \in Dev : SendCommand(d)
  <2>1. PICK d \in Dev : SendCommand(d)
    BY <1>1
  <2>2. made + 1 \in 0..MaxMsgs
    BY <2>1 DEF LinkTypeOK, SendCommand
  <2>3. sent' \in [Dev -> Seq(0..MaxMsgs)]
    BY <2>1, <2>2 DEF LinkTypeOK, SendCommand
  <2>4. host' \in [pc : {"idle", "send", "trigger", "wait", "clock"}, op : {"none", "one", "group", "poll"},
                   d : Dev, msg : [kind : {"RECEIVE", "COMMAND", "MOVE"}, id : 0..MaxMsgs]]
    BY <2>1, <2>2 DEF SendCommand
  <2>. QED BY <2>1, <2>2, <2>3, <2>4 DEF LinkTypeOK, SendCommand, event, msg
<1>2. CASE \E d \in Dev : Receive(d)
  BY <1>2, <1>t DEF LinkTypeOK, Receive, event, msg, history
<1>3. CASE GroupMove
  <2>1. made + 1 \in 0..MaxMsgs /\ 1 \in Dev
    BY <1>3 DEF LinkTypeOK, GroupMove, Dev
  <2>2. sent' \in [Dev -> Seq(0..MaxMsgs)]
    BY <1>3, <2>1 DEF LinkTypeOK, GroupMove
  <2>3. host' \in [pc : {"idle", "send", "trigger", "wait", "clock"}, op : {"none", "one", "group", "poll"},
                   d : Dev, msg : [kind : {"RECEIVE", "COMMAND", "MOVE"}, id : 0..MaxMsgs]]
    BY <1>3, <2>1 DEF GroupMove
  <2>. QED BY <1>3, <2>1, <2>2, <2>3 DEF LinkTypeOK, GroupMove, event, msg
<1>4. CASE Drain
  <2>1. spiSem' \in 0..(MaxStale + 1)
    BY <1>4 DEF LinkTypeOK, Drain, LeftOver
  <2>2. host' = host \/ host' = [host EXCEPT !.pc = "trigger"]
    BY <1>4 DEF Drain
  <2>. QED BY <1>4, <2>1, <2>2 DEF LinkTypeOK, Drain, event, msg, history
<1>5. CASE Handshake
  <2>1. \/ evq' = evq
        \/ evq' = [evq EXCEPT ![host.d] = evq[host.d]]
        \/ evq' = [evq EXCEPT ![host.d] = <<"SPI_RECV_MSG">>]
    BY <1>5 DEF Handshake, Push
  <2>2. evq' \in [Dev -> {<<>>, <<"LIMIT_SWITCH">>, <<"SPI_RECV_MSG">>}]
    <3> DEFINE Q == {<<>>, <<"LIMIT_SWITCH">>, <<"SPI_RECV_MSG">>}
    <3>1. <<"SPI_RECV_MSG">> \in Q /\ evq \in [Dev -> Q]
      BY DEF LinkTypeOK
    <3> HIDE DEF Q
    <3>2. evq' \in [Dev -> Q]
      BY <2>1, <3>1
    <3>. QED BY <3>2 DEF Q
  <2>3. spi' = spi \/ spi' = [spi EXCEPT ![host.d] = "RECEIVING"]
    BY <1>5 DEF Handshake
  <2>4. host' = [host EXCEPT !.pc = "wait"] /\ waiting' = TRUE
    BY <1>5 DEF Handshake
  <2>5. UNCHANGED <<spiSem, view, ev, reply, buf, msg, edge, history>>
    BY <1>5 DEF Handshake
  <2>. QED BY <2>2, <2>3, <2>4, <2>5 DEF LinkTypeOK, msg, history
<1>6. CASE Waited
  <2>1. host.d < Esps => host.d + 1 \in Dev
    BY <1>d DEF Dev
  <2>2. host' \in [pc : {"idle", "send", "trigger", "wait", "clock"}, op : {"none", "one", "group", "poll"},
                   d : Dev, msg : [kind : {"RECEIVE", "COMMAND", "MOVE"}, id : 0..MaxMsgs]]
    BY <1>6, <2>1 DEF Waited, LinkTypeOK
  <2>3. spiSem' \in 0..(MaxStale + 1)
    BY <1>6 DEF Waited, LinkTypeOK
  <2>4. UNCHANGED <<waiting, view, event, buf, msg, edge, history>>
    BY <1>6 DEF Waited
  <2>. QED BY <2>2, <2>3, <2>4 DEF LinkTypeOK, event, msg, history
<1>7. CASE Clock
  <2>0. PICK v : /\ view' = v
                 /\ v = IF host.op = "group" THEN view
                        ELSE [view EXCEPT ![host.d] = IF OnBus = {host.d} THEN reply[host.d] ELSE FALSE]
                 /\ host' = CASE host.op = "one"   -> Idle
                              [] host.op = "group" -> [pc |-> "send", op |-> "poll", d |-> 1, msg |-> Recv]
                              [] host.op = "poll"  -> Asked(v)
                 /\ edge' = IF host.op = "poll" /\ AllReady(v) THEN [e \in Dev |-> 1] ELSE edge
    BY <1>7 DEF Clock
  <2>1. view' \in [Dev -> BOOLEAN]
    BY <2>0 DEF LinkTypeOK
  <2>2. edge' \in [Dev -> 0..1]
    BY <2>0 DEF LinkTypeOK
  <2>3. host.pc = "clock" /\ host.op \in {"one", "group", "poll"}
    BY <1>7 DEF Clock, HostInv, LinkTypeOK
  <2>4. 1 \in Dev
    BY DEF Dev
  <2>5. host' \in [pc : {"idle", "send", "trigger", "wait", "clock"}, op : {"none", "one", "group", "poll"},
                   d : Dev, msg : [kind : {"RECEIVE", "COMMAND", "MOVE"}, id : 0..MaxMsgs]]
    <3>1. CASE host.op = "one"
      BY <1>t, <2>0, <2>4, <3>1 DEF Idle
    <3>2. CASE host.op = "group"
      BY <1>t, <2>0, <2>4, <3>2
    <3>3. CASE host.op = "poll"
      <4>1. host' = IF host.d = Esps /\ v[host.d] THEN Idle
                    ELSE [host EXCEPT !.pc = "send", !.d = IF v[host.d] THEN host.d + 1 ELSE 1]
        BY <2>0, <3>3 DEF Asked, AllReady
      <4>2. host.d = Esps \/ host.d + 1 \in Dev
        BY <1>d DEF Dev
      <4>. QED BY <1>t, <2>4, <4>1, <4>2 DEF LinkTypeOK, Idle
    <3>. QED BY <2>3, <3>1, <3>2, <3>3
  <2>6. /\ ev' \in [Dev -> {"wait", "setup", "armed", "done", "queue"}]
        /\ buf' \in [Dev -> [kind : {"PRINT_INFO", "RECEIVE", "COMMAND", "MOVE"}, id : 0..MaxMsgs]]
    BY <1>7 DEF Clock, LinkTypeOK
  <2>. QED BY <1>7, <2>1, <2>2, <2>5, <2>6 DEF LinkTypeOK, Clock, msg, history
<1>8. CASE \E d \in Dev : LimitSwitch(d)
  BY <1>8 DEF LinkTypeOK, LimitSwitch, Push, hostVars, msg, history
<1>9. CASE \E d \in Dev : EventTake(d)
  <2>1. PICK d \in Dev : EventTake(d)
    BY <1>9
  <2>2. Tail(evq[d]) = <<>>
    BY <2>1, EventQueues DEF EventTake, LinkTypeOK
  <2>3. evq' \in [Dev -> {<<>>, <<"LIMIT_SWITCH">>, <<"SPI_RECV_MSG">>}]
    BY <2>1, <2>2 DEF EventTake, LinkTypeOK
  <2>4. reply' \in [Dev -> BOOLEAN]
    BY <2>1 DEF EventTake, LinkTypeOK
  <2>5. ev' \in [Dev -> {"wait", "setup", "armed", "done", "queue"}]
    BY <2>1 DEF EventTake, LinkTypeOK
  <2>6. buf' \in [Dev -> [kind : {"PRINT_INFO", "RECEIVE", "COMMAND", "MOVE"}, id : 0..MaxMsgs]]
    <3>1. buf' = buf \/ buf' = [buf EXCEPT ![d] = Blank]
      BY <2>1 DEF EventTake
    <3>2. buf \in [Dev -> [kind : {"PRINT_INFO", "RECEIVE", "COMMAND", "MOVE"}, id : 0..MaxMsgs]]
      BY DEF LinkTypeOK
    <3>. QED BY <1>t, <3>1, <3>2
  <2>. QED BY <2>1, <2>3, <2>4, <2>5, <2>6 DEF LinkTypeOK, EventTake, hostVars, msg, history
<1>10. CASE \E d \in Dev : SetUp(d)
  <2>1. PICK d \in Dev : SetUp(d)
    BY <1>10
  <2>2. waiting => spiSem = 0
    BY DEF HostInv
  <2>3. spiSem' \in 0..(MaxStale + 1)
    BY <2>1, <2>2 DEF SetUp, LinkTypeOK
  <2>4. waiting' \in BOOLEAN
    BY <2>1 DEF SetUp, LinkTypeOK
  <2>. QED BY <2>1, <2>3, <2>4 DEF LinkTypeOK, SetUp, msg, history
<1>11. CASE \E d \in Dev : Received(d)
  BY <1>11 DEF LinkTypeOK, Received, Listens, hostVars, msg, history
<1>12. CASE \E d \in Dev : Queue(d)
  BY <1>12 DEF LinkTypeOK, Queue, Filled, hostVars, history
<1>13. CASE \E d \in Dev : MsgTake(d)
  BY <1>13 DEF LinkTypeOK, MsgTake, hostVars, event, history
<1>14. CASE \E d \in Dev : MsgRead(d)
  BY <1>14 DEF LinkTypeOK, MsgRead, Carried, hostVars, event
<1>15. CASE \E d \in Dev : MsgMove(d)
  BY <1>15 DEF LinkTypeOK, MsgMove, Carried, hostVars, event
<1>16. CASE \E d \in Dev : Begun(d)
  BY <1>16 DEF LinkTypeOK, Begun, hostVars, event, history
<1>17. CASE \E d \in Dev : SyncTake(d)
  BY <1>17 DEF LinkTypeOK, SyncTake, hostVars, event, history
<1>18. CASE UNCHANGED linkVars
  BY <1>18 DEF LinkTypeOK, linkVars, hostVars, event, msg, history
<1>. QED BY <1>1, <1>2, <1>3, <1>4, <1>5, <1>6, <1>7, <1>8, <1>9, <1>10, <1>11, <1>12, <1>13,
            <1>14, <1>15, <1>16, <1>17, <1>18 DEF LinkNext, HostGoesOn, EventTask, MsgTask

\* What one ESP does not touch stays true of the others.
LEMMA Untouched ==
  ASSUME NEW e \in Dev, host' = host, made' = made, waiting' = waiting \/ e # host.d,
         evq'[e] = evq[e], spi'[e] = spi[e], ev'[e] = ev[e], reply'[e] = reply[e],
         buf'[e] = buf[e], mq'[e] = mq[e], mt'[e] = mt[e], edge'[e] = edge[e],
         sent'[e] = sent[e], done'[e] = done[e], DevInv(e)
  PROVE  DevInv(e)'
<1>1. Called(e)' <=> Called(e)
  BY DEF Called
<1>2. (Loaded(e)' <=> Loaded(e)) /\ (Calls(e)' <=> Calls(e)) /\ (Free4Next(e)' <=> Free4Next(e))
  BY DEF Loaded, Calls, Free4Next, Message
<1>3. BusInv(e)'
  BY <1>1, <1>2 DEF BusInv, DevInv
<1>4. MsgInv(e)'
  BY <1>2 DEF MsgInv, DevInv
<1>5. PollInv(e)'
  BY <1>2 DEF PollInv, DevInv
<1>. QED BY <1>3, <1>4, <1>5 DEF DevInv

\* The state of one ESP, spelt out for its steps.
LEMMA OneEsp ==
  ASSUME EspInv, NEW d \in Dev
  PROVE  /\ evq[d] \in {<<>>, <<"LIMIT_SWITCH">>, <<"SPI_RECV_MSG">>}
         /\ spi[d] \in {"IDLE", "RECEIVING"} /\ ev[d] \in {"wait", "setup", "armed", "done", "queue"}
         /\ mq[d] \in 0..1 /\ edge[d] \in 0..1 /\ mt[d] \in {"idle", "read", "move", "begin", "sync"}
         /\ buf[d] \in [kind : {"PRINT_INFO", "RECEIVE", "COMMAND", "MOVE"}, id : 0..MaxMsgs]
         /\ reply[d] \in BOOLEAN
         /\ sent[d] \in Seq(0..MaxMsgs) /\ done[d] \in Seq(0..MaxMsgs)
         /\ BusInv(d) /\ MsgInv(d) /\ PollInv(d) /\ HostInv
  BY DEF EspInv, LinkTypeOK, DevInv

\* An ESP that is called has no message on its way.
LEMMA CalledIsFree ==
  ASSUME EspInv, NEW d \in Dev, Called(d)
  PROVE  ~Loaded(d) /\ mt[d] \in {"idle", "begin", "sync"}
<1>1. Free4Next(d) /\ ev[d] \in {"wait", "setup", "armed"}
  BY OneEsp DEF BusInv
<1>2. CASE mt[d] = "idle" /\ mq[d] = 0
  BY <1>1, <1>2 DEF Loaded
<1>3. CASE mt[d] \in {"begin", "sync"}
  BY <1>1, <1>3, OneEsp DEF MsgInv
<1>. QED BY <1>1, <1>2, <1>3 DEF Free4Next

\* Steps that leave the host as it is keep what is said of it.
LEMMA HostRests ==
  ASSUME HostInv, UNCHANGED <<hostVars, spiSem, made>>
  PROVE  HostInv'
  BY DEF HostInv, hostVars

LEMMA KeepLimitSwitch ==
  ASSUME EspInv, NEW d \in Dev, LimitSwitch(d)
  PROVE  HostInv' /\ \A e \in Dev : DevInv(e)'
<1>1. /\ UNCHANGED <<host, waiting, view, spiSem, spi, ev, reply, buf, mq, mt, edge, made, sent, done>>
      /\ evq[d] = <<>> /\ evq' = [evq EXCEPT ![d] = <<"LIMIT_SWITCH">>]
  BY DEF LimitSwitch, Push, hostVars, msg, history
<1>2. HostInv'
  BY <1>1, HostRests DEF EspInv, hostVars
<1>3. ASSUME NEW e \in Dev, e # d PROVE DevInv(e)'
  BY <1>1, <1>3, Untouched DEF EspInv
<1>4. DevInv(d)'
  <2>1. evq'[d] = <<"LIMIT_SWITCH">>
    BY <1>1 DEF EspInv, LinkTypeOK
  <2>2. (Called(d)' <=> Called(d)) /\ (Free4Next(d)' <=> Free4Next(d)) /\ (Loaded(d)' <=> Loaded(d))
        /\ (Calls(d)' <=> Calls(d))
    BY <1>1 DEF Called, Free4Next, Loaded, Calls, Message
  <2>3. BusInv(d)'
    BY <1>1, <2>1, <2>2, OneEsp, EventQueues DEF BusInv
  <2>4. MsgInv(d)' /\ PollInv(d)'
    BY <1>1, <2>2, OneEsp DEF MsgInv, PollInv
  <2>. QED BY <2>3, <2>4 DEF DevInv
<1>. QED BY <1>2, <1>3, <1>4

LEMMA KeepEventTake ==
  ASSUME EspInv, NEW d \in Dev, EventTake(d)
  PROVE  HostInv' /\ \A e \in Dev : DevInv(e)'
<1>1. /\ UNCHANGED <<host, waiting, view, spiSem, spi, mq, mt, edge, made, sent, done>>
      /\ ev[d] = "wait" /\ evq[d] # <<>> /\ evq' = [evq EXCEPT ![d] = Tail(evq[d])]
  BY DEF EventTake, hostVars, msg, history
<1>2. HostInv'
  BY <1>1, HostRests DEF EspInv, hostVars
<1>3. ASSUME NEW e \in Dev, e # d PROVE DevInv(e)'
  <2>1. evq'[e] = evq[e] /\ ev'[e] = ev[e] /\ reply'[e] = reply[e] /\ buf'[e] = buf[e]
    BY <1>3 DEF EventTake, EspInv, LinkTypeOK
  <2>. QED BY <1>1, <2>1, Untouched DEF EspInv
<1>4. evq'[d] = <<>>
  BY <1>1, EventQueues DEF EspInv, LinkTypeOK
<1>5. (Called(d)' <=> Called(d)) /\ (Free4Next(d)' <=> Free4Next(d)) /\ (Calls(d)' <=> Calls(d))
  BY <1>1 DEF Called, Free4Next, Calls
<1>6. ASSUME evq[d] = <<"SPI_RECV_MSG">> PROVE DevInv(d)'
  <2>1. ev'[d] = "setup" /\ buf'[d] = Blank /\ (reply'[d] => mt[d] = "sync")
    <3>1. Head(evq[d]) = "SPI_RECV_MSG"
      BY <1>6, EventQueues
    <3>2. ev' = [ev EXCEPT ![d] = "setup"] /\ buf' = [buf EXCEPT ![d] = Blank]
          /\ reply' = [reply EXCEPT ![d] = mt[d] = "sync"]
      BY <3>1 DEF EventTake
    <3>3. d \in DOMAIN ev /\ d \in DOMAIN buf /\ d \in DOMAIN reply
      BY DEF EspInv, LinkTypeOK
    <3>. QED BY <3>2, <3>3
  <2>2. Called(d)
    BY <1>6, OneEsp DEF BusInv
  <2>3. ~Loaded(d) /\ mt[d] \in {"idle", "begin", "sync"}
    BY <2>2, CalledIsFree
  <2>4. ~Loaded(d)'
    BY <2>1 DEF Loaded, Message, Blank
  <2>5. host.pc = "wait" /\ d = host.d /\ waiting
    BY <1>6, <2>2, OneEsp, EventQueues DEF BusInv
  <2>6. BusInv(d)'
    BY <1>1, <1>4, <1>5, <2>1, <2>2, <2>5, OneEsp, EventQueues DEF BusInv
  <2>7. MsgInv(d)'
    BY <1>1, <1>5, <2>3, <2>4, OneEsp DEF MsgInv
  <2>8. PollInv(d)'
    BY <1>1, <2>3, <2>4, OneEsp DEF PollInv
  <2>. QED BY <2>6, <2>7, <2>8 DEF DevInv
<1>7. ASSUME evq[d] # <<"SPI_RECV_MSG">> PROVE DevInv(d)'
  <2>1. evq[d] = <<"LIMIT_SWITCH">>
    BY <1>1, <1>7, OneEsp
  <2>2. UNCHANGED <<ev, buf, reply>>
    BY <2>1, EventQueues DEF EventTake
  <2>3. Loaded(d)' <=> Loaded(d)
    BY <1>1, <2>2 DEF Loaded, Message
  <2>4. BusInv(d)'
    BY <1>1, <1>4, <1>5, <2>1, <2>2, OneEsp, EventQueues DEF BusInv
  <2>5. MsgInv(d)' /\ PollInv(d)'
    BY <1>1, <1>5, <2>2, <2>3, OneEsp DEF MsgInv, PollInv
  <2>. QED BY <2>4, <2>5 DEF DevInv
<1>. QED BY <1>2, <1>3, <1>6, <1>7

LEMMA KeepSetUp ==
  ASSUME EspInv, NEW d \in Dev, SetUp(d)
  PROVE  HostInv' /\ \A e \in Dev : DevInv(e)'
<1>1. /\ UNCHANGED <<host, view, evq, spi, reply, buf, mq, mt, edge, made, sent, done>>
      /\ ev[d] = "setup" /\ ev' = [ev EXCEPT ![d] = "armed"]
      /\ IF waiting THEN spiSem' = spiSem + 1 /\ waiting' = FALSE ELSE UNCHANGED <<spiSem, waiting>>
  BY DEF SetUp, msg, history
<1>2. host.pc = "wait" /\ d = host.d /\ waiting /\ Called(d)
  BY <1>1, OneEsp DEF BusInv
<1>3. spiSem = 0
  BY <1>2, OneEsp DEF HostInv
<1>4. HostInv'
  BY <1>1, <1>2, <1>3, OneEsp DEF HostInv
<1>5. ASSUME NEW e \in Dev, e # d PROVE DevInv(e)'
  <2>1. e # host.d /\ ev'[e] = ev[e] /\ DevInv(e)
    BY <1>1, <1>2, <1>5 DEF EspInv
  <2>. QED BY <1>1, <2>1, Untouched
<1>6. DevInv(d)'
  <2>1. ev'[d] = "armed"
    BY <1>1 DEF EspInv, LinkTypeOK
  <2>2. Called(d)' /\ (Free4Next(d)' <=> Free4Next(d)) /\ (Calls(d)' <=> Calls(d))
    BY <1>1, <1>2 DEF Called, Free4Next, Calls
  <2>3. ~Loaded(d)
    BY <1>2, CalledIsFree
  <2>4. ~Loaded(d)'
    BY <1>1, <2>1, <2>3 DEF Loaded, Message
  <2>5. BusInv(d)'
    BY <1>1, <1>2, <2>1, <2>2, OneEsp, EventQueues DEF BusInv
  <2>6. MsgInv(d)' /\ PollInv(d)'
    BY <1>1, <2>2, <2>3, <2>4, OneEsp DEF MsgInv, PollInv
  <2>. QED BY <2>5, <2>6 DEF DevInv
<1>. QED BY <1>4, <1>5, <1>6

LEMMA KeepReceived ==
  ASSUME EspInv, NEW d \in Dev, Received(d)
  PROVE  HostInv' /\ \A e \in Dev : DevInv(e)'
<1>1. /\ UNCHANGED <<host, waiting, view, spiSem, evq, reply, buf, mq, mt, edge, made, sent, done>>
      /\ ev[d] = "done" /\ ev' = [ev EXCEPT ![d] = "queue"] /\ spi' = [spi EXCEPT ![d] = "IDLE"]
  BY DEF Received, Listens, hostVars, msg, history
<1>2. HostInv'
  BY <1>1, HostRests DEF EspInv, hostVars
<1>3. ASSUME NEW e \in Dev, e # d PROVE DevInv(e)'
  BY <1>1, <1>3, Untouched DEF EspInv
<1>4. DevInv(d)'
  <2>1. ev'[d] = "queue" /\ spi'[d] = "IDLE"
    BY <1>1 DEF EspInv, LinkTypeOK
  <2>2. (Called(d)' <=> Called(d)) /\ (Loaded(d)' <=> Loaded(d)) /\ (Calls(d)' <=> Calls(d))
    BY <1>1, <2>1 DEF Called, Loaded, Calls, Message
  <2>3. ~Called(d)
    BY <1>1, OneEsp DEF BusInv
  <2>4. BusInv(d)'
    BY <1>1, <2>1, <2>2, <2>3, OneEsp DEF BusInv
  <2>5. MsgInv(d)' /\ PollInv(d)'
    BY <1>1, <2>1, <2>2, OneEsp DEF MsgInv, PollInv
  <2>. QED BY <2>4, <2>5 DEF DevInv
<1>. QED BY <1>2, <1>3, <1>4

LEMMA KeepQueue ==
  ASSUME EspInv, NEW d \in Dev, Queue(d)
  PROVE  HostInv' /\ \A e \in Dev : DevInv(e)'
<1>1. /\ UNCHANGED <<host, waiting, view, spiSem, evq, spi, reply, buf, mt, edge, made, sent, done>>
      /\ ev[d] = "queue" /\ ev' = [ev EXCEPT ![d] = "wait"] /\ mq' = [mq EXCEPT ![d] = 1]
  BY DEF Queue, Filled, hostVars, history
<1>2. HostInv'
  BY <1>1, HostRests DEF EspInv, hostVars
<1>3. ASSUME NEW e \in Dev, e # d PROVE DevInv(e)'
  BY <1>1, <1>3, Untouched DEF EspInv
<1>4. DevInv(d)'
  <2>1. ev'[d] = "wait" /\ mq'[d] = 1
    BY <1>1 DEF EspInv, LinkTypeOK
  <2>2. (Called(d)' <=> Called(d)) /\ (Loaded(d)' <=> Loaded(d)) /\ (Calls(d)' <=> Calls(d))
    BY <1>1, <2>1 DEF Called, Loaded, Calls, Message
  <2>3. ~Called(d)
    BY <1>1, OneEsp DEF BusInv
  <2>4. BusInv(d)'
    BY <1>1, <2>1, <2>2, <2>3, OneEsp DEF BusInv
  <2>5. MsgInv(d)' /\ PollInv(d)'
    BY <1>1, <2>1, <2>2, OneEsp DEF MsgInv, PollInv
  <2>. QED BY <2>4, <2>5 DEF DevInv
<1>. QED BY <1>2, <1>3, <1>4

\* A message more at the end of a sequence of them.
LEMMA OneMore ==
  ASSUME NEW s \in Seq(0..MaxMsgs), NEW x \in 0..MaxMsgs
  PROVE  /\ Append(s, x) \in Seq(0..MaxMsgs) /\ Append(s, x) # <<>> /\ Last(Append(s, x)) = x
         /\ Append(s, x) = s \o <<x>> /\ s \o <<>> = s /\ <<x>> \in Seq(0..MaxMsgs)
<1>1. Append(s, x) \in Seq(0..MaxMsgs) /\ Len(Append(s, x)) = Len(s) + 1 /\ Append(s, x)[Len(s) + 1] = x
  OBVIOUS
<1>2. Last(Append(s, x)) = x /\ Append(s, x) # <<>>
  BY <1>1 DEF Last
<1>3. s \o <<>> = s
  BY ConcatEmptySeq
<1>4. Append(s, x) = s \o <<x>>
  OBVIOUS
<1>. QED BY <1>1, <1>2, <1>3, <1>4

\* msg_task touches its own ESP alone, and of it neither the bus side nor the host.
LEMMA MsgTaskOnly ==
  ASSUME EspInv, NEW d \in Dev, MsgTask(d)
  PROVE  /\ UNCHANGED <<host, waiting, view, spiSem, evq, spi, ev, reply, buf, made, sent>>
         /\ \A e \in Dev : e # d => /\ mq'[e] = mq[e] /\ mt'[e] = mt[e] /\ edge'[e] = edge[e]
                                    /\ done'[e] = done[e]
         /\ HostInv' /\ (\A e \in Dev : e # d => DevInv(e)')
         /\ (Calls(d)' <=> Calls(d)) /\ (Called(d)' <=> Called(d))
<1>1. UNCHANGED <<host, waiting, view, spiSem, evq, spi, ev, reply, buf, made, sent>>
  <2>1. CASE MsgTake(d)
    BY <2>1 DEF MsgTake, hostVars, event, history
  <2>2. CASE MsgRead(d)
    BY <2>2 DEF MsgRead, hostVars, event
  <2>3. CASE MsgMove(d)
    BY <2>3 DEF MsgMove, hostVars, event
  <2>4. CASE Begun(d)
    BY <2>4 DEF Begun, hostVars, event, history
  <2>5. CASE SyncTake(d)
    BY <2>5 DEF SyncTake, hostVars, event, history
  <2>. QED BY <2>1, <2>2, <2>3, <2>4, <2>5 DEF MsgTask
<1>2. ASSUME NEW e \in Dev, e # d
      PROVE  mq'[e] = mq[e] /\ mt'[e] = mt[e] /\ edge'[e] = edge[e] /\ done'[e] = done[e]
  <2>0. /\ mq \in [Dev -> 0..1] /\ mt \in [Dev -> {"idle", "read", "move", "begin", "sync"}]
        /\ edge \in [Dev -> 0..1] /\ done \in [Dev -> Seq(0..MaxMsgs)]
    BY DEF EspInv, LinkTypeOK
  <2>1. CASE MsgTake(d)
    BY <1>2, <2>0, <2>1 DEF MsgTake, history
  <2>2. CASE MsgRead(d)
    BY <1>2, <2>0, <2>2 DEF MsgRead
  <2>3. CASE MsgMove(d)
    BY <1>2, <2>0, <2>3 DEF MsgMove
  <2>4. CASE Begun(d)
    BY <1>2, <2>0, <2>4 DEF Begun, history
  <2>5. CASE SyncTake(d)
    BY <1>2, <2>0, <2>5 DEF SyncTake, history
  <2>. QED BY <2>1, <2>2, <2>3, <2>4, <2>5 DEF MsgTask
<1>3. HostInv'
  BY <1>1, HostRests DEF EspInv, hostVars
<1>4. ASSUME NEW e \in Dev, e # d PROVE DevInv(e)'
  BY <1>1, <1>2, <1>4, Untouched DEF EspInv
<1>5. (Calls(d)' <=> Calls(d)) /\ (Called(d)' <=> Called(d))
  BY <1>1 DEF Calls, Called
<1>. QED BY <1>1, <1>2, <1>3, <1>4, <1>5

\* While msg_task has a message in its hands the host has not called its ESP.
LEMMA BusyIsNotCalled ==
  ASSUME EspInv, NEW d \in Dev,
         \/ mt[d] = "idle" /\ mq[d] = 1
         \/ mt[d] \in {"read", "move"}
         \/ mt[d] = "sync" /\ edge[d] = 1
  PROVE  ~Called(d)
<1>1. ~Free4Next(d)
  BY OneEsp DEF Free4Next
<1>. QED BY <1>1, OneEsp DEF BusInv

LEMMA KeepMsgTake ==
  ASSUME EspInv, NEW d \in Dev, MsgTake(d)
  PROVE  HostInv' /\ \A e \in Dev : DevInv(e)'
<1>1. /\ UNCHANGED <<host, waiting, view, spiSem, evq, spi, ev, reply, buf, made, sent>>
      /\ HostInv' /\ (\A e \in Dev : e # d => DevInv(e)')
      /\ (Calls(d)' <=> Calls(d)) /\ (Called(d)' <=> Called(d))
  BY MsgTaskOnly DEF MsgTask
<1>2. /\ mt[d] = "idle" /\ mq[d] = 1 /\ mt'[d] = "read" /\ mq'[d] = 0
      /\ edge' = edge /\ done' = done
  BY DEF MsgTake, history, EspInv, LinkTypeOK
<1>3. ~Called(d)
  BY <1>2, BusyIsNotCalled
<1>4. Loaded(d)' <=> Loaded(d)
  BY <1>1, <1>2, OneEsp DEF Loaded, Message
<1>5. BusInv(d)'
  BY <1>1, <1>3, OneEsp DEF BusInv
<1>6. MsgInv(d)'
  <2>0. MsgInv(d) /\ edge[d] \in 0..1
    BY OneEsp
  <2>1. edge[d] = 0 /\ (Loaded(d) => ev[d] = "wait")
    BY <1>2, <2>0 DEF MsgInv
  <2>2. sent[d] = (done[d] \o (IF Loaded(d) THEN <<buf[d].id>> ELSE <<>>))
                        \o (IF Calls(d) THEN <<host.msg.id>> ELSE <<>>)
    BY OneEsp DEF MsgInv
  <2>3. (Loaded(d) /\ buf[d].kind = "MOVE" => host.op = "poll")
    BY OneEsp DEF MsgInv
  <2>4. (IF Loaded(d)' THEN <<buf'[d].id>> ELSE <<>>) = (IF Loaded(d) THEN <<buf[d].id>> ELSE <<>>)
        /\ (IF Calls(d)' THEN <<host'.msg.id>> ELSE <<>>) = (IF Calls(d) THEN <<host.msg.id>> ELSE <<>>)
    BY <1>1, <1>4
  <2>5. sent'[d] = (done'[d] \o (IF Loaded(d)' THEN <<buf'[d].id>> ELSE <<>>))
                        \o (IF Calls(d)' THEN <<host'.msg.id>> ELSE <<>>)
    BY <1>1, <1>2, <2>2, <2>4
  <2>. QED BY <1>1, <1>2, <1>4, <2>1, <2>3, <2>5 DEF MsgInv
<1>7. PollInv(d)'
  BY <1>1, <1>2, <1>4, OneEsp DEF PollInv
<1>. QED BY <1>1, <1>5, <1>6, <1>7 DEF DevInv

LEMMA KeepMsgRead ==
  ASSUME EspInv, NEW d \in Dev, MsgRead(d)
  PROVE  HostInv' /\ \A e \in Dev : DevInv(e)'
<1>1. /\ UNCHANGED <<host, waiting, view, spiSem, evq, spi, ev, reply, buf, made, sent>>
      /\ HostInv' /\ (\A e \in Dev : e # d => DevInv(e)')
      /\ (Calls(d)' <=> Calls(d)) /\ (Called(d)' <=> Called(d))
  BY MsgTaskOnly DEF MsgTask
<1>2. /\ mt[d] = "read" /\ mt'[d] = (IF buf[d].kind = "MOVE" THEN "move" ELSE "idle")
      /\ mq' = mq /\ edge' = edge
  BY DEF MsgRead, EspInv, LinkTypeOK
<1>3. ~Called(d)
  BY <1>2, BusyIsNotCalled
<1>4. BusInv(d)'
  BY <1>1, <1>3, OneEsp DEF BusInv
<1>5. ASSUME buf[d].kind = "MOVE" PROVE DevInv(d)'
  <2>1. done' = done /\ mt'[d] = "move" /\ Loaded(d) /\ Loaded(d)'
    BY <1>1, <1>2, <1>5 DEF MsgRead, Loaded, Message
  <2>2. MsgInv(d)'
    BY <1>1, <1>2, <1>5, <2>1, OneEsp DEF MsgInv
  <2>3. PollInv(d)'
    BY <1>1, <1>2, <2>1, OneEsp DEF PollInv
  <2>. QED BY <1>4, <2>2, <2>3 DEF DevInv
<1>6. ASSUME buf[d].kind # "MOVE" PROVE DevInv(d)'
  <2>1. mt'[d] = "idle" /\ host.op # "poll"
    BY <1>2, <1>6, OneEsp DEF PollInv
  <2>2. PollInv(d)'
    BY <1>1, <2>1 DEF PollInv
  <2>3. CASE buf[d].kind = "COMMAND"
    <3>1. Loaded(d)
      BY <1>2, <2>3 DEF Loaded, Message
    <3>2. ev[d] = "wait" /\ mq[d] = 0
      BY <1>2, <3>1, OneEsp DEF MsgInv
    <3>3. ~Loaded(d)'
      BY <1>1, <1>2, <2>1, <3>2 DEF Loaded
    <3>4. buf[d].id \in 0..MaxMsgs
      BY OneEsp
    <3>5. done'[d] = Append(done[d], buf[d].id)
      BY <2>3 DEF MsgRead, Carried, EspInv, LinkTypeOK
    <3>6. done'[d] = done[d] \o <<buf[d].id>> /\ done'[d] \o <<>> = done'[d]
      <4>1. done[d] \in Seq(0..MaxMsgs)
        BY OneEsp
      <4>. QED BY <3>4, <3>5, <4>1, OneMore
    <3>7. MsgInv(d)'
      BY <1>1, <1>2, <2>1, <3>1, <3>3, <3>6, OneEsp DEF MsgInv
    <3>. QED BY <1>4, <2>2, <3>7 DEF DevInv
  <2>4. CASE buf[d].kind # "COMMAND"
    <3>1. ~Loaded(d) /\ ~Loaded(d)' /\ done' = done
      BY <1>1, <1>6, <2>4 DEF Loaded, Message, MsgRead
    <3>2. MsgInv(d)'
      BY <1>1, <1>2, <2>1, <3>1, OneEsp DEF MsgInv
    <3>. QED BY <1>4, <2>2, <3>2 DEF DevInv
  <2>. QED BY <2>3, <2>4
<1>. QED BY <1>1, <1>5, <1>6

LEMMA KeepMsgMove ==
  ASSUME EspInv, NEW d \in Dev, MsgMove(d)
  PROVE  HostInv' /\ \A e \in Dev : DevInv(e)'
<1>1. /\ UNCHANGED <<host, waiting, view, spiSem, evq, spi, ev, reply, buf, made, sent>>
      /\ HostInv' /\ (\A e \in Dev : e # d => DevInv(e)')
      /\ (Calls(d)' <=> Calls(d)) /\ (Called(d)' <=> Called(d))
  BY MsgTaskOnly DEF MsgTask
<1>2. /\ mt[d] = "move" /\ mt'[d] = "begin" /\ mq' = mq /\ edge' = edge
      /\ done'[d] = Append(done[d], buf[d].id)
  BY DEF MsgMove, Carried, EspInv, LinkTypeOK
<1>3. ~Called(d)
  BY <1>2, BusyIsNotCalled
<1>4. BusInv(d)'
  BY <1>1, <1>3, OneEsp DEF BusInv
<1>5. Loaded(d) /\ buf[d].kind = "MOVE"
  BY <1>2, OneEsp DEF MsgInv, Loaded, Message
<1>6. ev[d] = "wait" /\ mq[d] = 0 /\ host.op = "poll"
  BY <1>2, <1>5, OneEsp DEF MsgInv
<1>7. ~Loaded(d)'
  BY <1>1, <1>2, <1>6 DEF Loaded
<1>8. buf[d].id \in 0..MaxMsgs
  BY OneEsp
<1>9. /\ done'[d] = done[d] \o <<buf[d].id>> /\ done'[d] \o <<>> = done'[d]
      /\ done'[d] # <<>> /\ Last(done'[d]) = buf[d].id
  <2>1. done[d] \in Seq(0..MaxMsgs)
    BY OneEsp
  <2>2. done'[d] = Append(done[d], buf[d].id)
    BY <1>2
  <2>3. /\ done'[d] \in Seq(0..MaxMsgs)
        /\ done'[d] = done[d] \o <<buf[d].id>>
        /\ done'[d] # <<>> /\ Last(done'[d]) = buf[d].id
    BY <1>8, <2>1, <2>2, OneMore
  <2>4. done'[d] \o <<>> = done'[d]
    BY <1>8, <2>3, OneMore
  <2>. QED BY <2>3, <2>4
<1>10. edge[d] = 0 /\ buf[d].id = made
  BY <1>2, <1>6, OneEsp DEF PollInv
<1>11. MsgInv(d)'
  BY <1>1, <1>2, <1>5, <1>6, <1>7, <1>9, <1>10, OneEsp DEF MsgInv
<1>12. PollInv(d)'
  BY <1>1, <1>2, <1>6, <1>9, <1>10, OneEsp DEF PollInv
<1>. QED BY <1>1, <1>4, <1>11, <1>12 DEF DevInv

LEMMA KeepBegun ==
  ASSUME EspInv, NEW d \in Dev, Begun(d)
  PROVE  HostInv' /\ \A e \in Dev : DevInv(e)'
<1>1. /\ UNCHANGED <<host, waiting, view, spiSem, evq, spi, ev, reply, buf, made, sent>>
      /\ HostInv' /\ (\A e \in Dev : e # d => DevInv(e)')
      /\ (Calls(d)' <=> Calls(d)) /\ (Called(d)' <=> Called(d))
  BY MsgTaskOnly DEF MsgTask
<1>2. mt[d] = "begin" /\ mt'[d] = "sync" /\ mq' = mq /\ edge' = edge /\ done' = done
  BY DEF Begun, history, EspInv, LinkTypeOK
<1>3. (Free4Next(d)' <=> Free4Next(d)) /\ (Loaded(d)' <=> Loaded(d))
  BY <1>1, <1>2 DEF Free4Next, Loaded, Message
<1>4. BusInv(d)'
  BY <1>1, <1>2, <1>3, OneEsp DEF BusInv
<1>5. MsgInv(d)'
  BY <1>1, <1>2, <1>3, OneEsp DEF MsgInv
<1>6. PollInv(d)'
  BY <1>1, <1>2, <1>3, OneEsp DEF PollInv
<1>. QED BY <1>1, <1>4, <1>5, <1>6 DEF DevInv

LEMMA KeepSyncTake ==
  ASSUME EspInv, NEW d \in Dev, SyncTake(d)
  PROVE  HostInv' /\ \A e \in Dev : DevInv(e)'
<1>1. /\ UNCHANGED <<host, waiting, view, spiSem, evq, spi, ev, reply, buf, made, sent>>
      /\ HostInv' /\ (\A e \in Dev : e # d => DevInv(e)')
      /\ (Calls(d)' <=> Calls(d)) /\ (Called(d)' <=> Called(d))
  BY MsgTaskOnly DEF MsgTask
<1>2. /\ mt[d] = "sync" /\ edge[d] = 1 /\ mt'[d] = "idle" /\ edge'[d] = 0
      /\ mq' = mq /\ done' = done
  BY DEF SyncTake, history, EspInv, LinkTypeOK
<1>3. ~Called(d) /\ host.op # "poll"
  BY <1>2, BusyIsNotCalled, OneEsp DEF PollInv
<1>4. ~Loaded(d) /\ ~Loaded(d)'
  BY <1>1, <1>2, OneEsp DEF MsgInv, Loaded, Message
<1>5. BusInv(d)'
  BY <1>1, <1>3, OneEsp DEF BusInv
<1>6. MsgInv(d)'
  BY <1>1, <1>2, <1>3, <1>4, OneEsp DEF MsgInv
<1>7. PollInv(d)'
  BY <1>1, <1>3 DEF PollInv
<1>. QED BY <1>1, <1>5, <1>6, <1>7 DEF DevInv

\* The ESP side of a step of the host that leaves it alone.
LEMMA HostAlone ==
  ASSUME EspInv, UNCHANGED <<buf, ev, mq, mt, edge>>, NEW e \in Dev
  PROVE  /\ Loaded(e)' <=> Loaded(e)
         /\ host'.op = host.op => (Free4Next(e)' <=> Free4Next(e))
  BY DEF Loaded, Message, Free4Next

\* When no call is under way nothing is called, and no move waits.
LEMMA IdleHost ==
  ASSUME EspInv, host.pc = "idle", NEW e \in Dev
  PROVE  /\ host.op = "none" /\ host.msg = Recv /\ ~waiting /\ spiSem = 0
         /\ ~Called(e) /\ ~Calls(e)
         /\ (mt[e] \in {"begin", "sync"} => edge[e] # 0)
         /\ (Loaded(e) => buf[e].kind # "MOVE")
<1>1. host.op = "none" /\ host.msg = Recv /\ ~waiting /\ spiSem = 0
  BY DEF EspInv, HostInv
<1>2. ~Called(e) /\ ~Calls(e)
  BY <1>1 DEF Called, Calls, Recv
<1>. QED BY <1>1, <1>2, OneEsp DEF MsgInv

\* A new call to the ESPs of a set, whose queues get the message if it is one.
LEMMA NewCall ==
  ASSUME EspInv, host.pc = "idle", UNCHANGED <<event, buf, msg, edge, done>>,
         NEW e \in Dev, ~Called(e)', host'.op # "poll",
         sent'[e] = IF Calls(e)' THEN Append(sent[e], host'.msg.id) ELSE sent[e],
         Calls(e)' => host'.msg.id \in 0..MaxMsgs
  PROVE  DevInv(e)'
<1>1. Loaded(e)' <=> Loaded(e)
  BY HostAlone DEF event, msg
<1>2. BusInv(e)'
  BY IdleHost, OneEsp DEF BusInv, event
<1>3. PollInv(e)'
  BY DEF PollInv
<1>4. /\ MsgInv(e) /\ edge[e] \in 0..1
      /\ (mt[e] \in {"begin", "sync"} => edge[e] # 0) /\ (Loaded(e) => buf[e].kind # "MOVE") /\ ~Calls(e)
  BY IdleHost, OneEsp
<1>5. sent'[e] = (done'[e] \o (IF Loaded(e)' THEN <<buf'[e].id>> ELSE <<>>))
                           \o (IF Calls(e)' THEN <<host'.msg.id>> ELSE <<>>)
  <2>1. sent[e] \in Seq(0..MaxMsgs)
    BY OneEsp
  <2>2. sent[e] \o <<>> = sent[e]
    BY <2>1, ConcatEmptySeq
  <2>3. sent[e] = (done[e] \o (IF Loaded(e) THEN <<buf[e].id>> ELSE <<>>)) \o <<>>
    BY <1>4 DEF MsgInv
  <2>4. (done[e] \o (IF Loaded(e) THEN <<buf[e].id>> ELSE <<>>)) = sent[e]
    <3> DEFINE a == IF Loaded(e) THEN <<buf[e].id>> ELSE <<>>
    <3>1. a \in Seq(0..MaxMsgs) /\ done[e] \in Seq(0..MaxMsgs)
      <4>1. done[e] \in Seq(0..MaxMsgs) /\ buf[e].id \in 0..MaxMsgs
        BY OneEsp
      <4>2. CASE Loaded(e)
        BY <4>1, <4>2
      <4>3. CASE ~Loaded(e)
        BY <4>1, <4>3
      <4>. QED BY <4>2, <4>3
    <3>2. done[e] \o a \in Seq(0..MaxMsgs)
      BY <3>1
    <3>. QED BY <2>3, <3>2, ConcatEmptySeq
  <2>5. (done'[e] \o (IF Loaded(e)' THEN <<buf'[e].id>> ELSE <<>>)) = sent[e]
    BY <1>1, <2>4
  <2>6. CASE Calls(e)'
    <3>1. sent'[e] = Append(sent[e], host'.msg.id) /\ host'.msg.id \in 0..MaxMsgs
      BY <2>6
    <3>2. sent'[e] = sent[e] \o <<host'.msg.id>>
      BY <2>1, <3>1, OneMore
    <3>. QED BY <2>5, <2>6, <3>2
  <2>7. CASE ~Calls(e)'
    BY <2>2, <2>5, <2>7
  <2>. QED BY <2>6, <2>7
<1>6. MsgInv(e)'
  BY <1>1, <1>4, <1>5 DEF MsgInv, event, msg
<1>. QED BY <1>2, <1>3, <1>6 DEF DevInv

LEMMA KeepSendCommand ==
  ASSUME EspInv, NEW d \in Dev, SendCommand(d)
  PROVE  HostInv' /\ \A e \in Dev : DevInv(e)'
<1>1. /\ host.pc = "idle" /\ UNCHANGED <<waiting, spiSem, event, buf, msg, edge, done>>
      /\ host' = [pc |-> "send", op |-> "one", d |-> d, msg |-> [kind |-> "COMMAND", id |-> made + 1]]
      /\ made < MaxMsgs /\ made' = made + 1 /\ sent' = [sent EXCEPT ![d] = Append(@, made + 1)]
  BY DEF SendCommand
<1>2. made + 1 \in 0..MaxMsgs /\ sent \in [Dev -> Seq(0..MaxMsgs)]
  BY <1>1, LinkAssumption DEF EspInv, LinkTypeOK
<1>3. HostInv'
  BY <1>1, IdleHost, LinkAssumption DEF HostInv
<1>4. ASSUME NEW e \in Dev PROVE DevInv(e)'
  <2>1. ~Called(e)' /\ host'.op # "poll" /\ (Calls(e)' <=> e = d) /\ host'.msg.id = made + 1
    BY <1>1 DEF Called, Calls
  <2>2. sent'[e] = IF Calls(e)' THEN Append(sent[e], host'.msg.id) ELSE sent[e]
    BY <1>1, <1>2, <2>1
  <2>. QED BY <1>1, <1>2, <2>1, <2>2, NewCall
<1>. QED BY <1>3, <1>4

LEMMA KeepReceive ==
  ASSUME EspInv, NEW d \in Dev, Receive(d)
  PROVE  HostInv' /\ \A e \in Dev : DevInv(e)'
<1>1. /\ host.pc = "idle" /\ UNCHANGED <<waiting, spiSem, event, buf, msg, edge, made, sent, done>>
      /\ host' = [pc |-> "send", op |-> "one", d |-> d, msg |-> Recv]
  BY DEF Receive, history
<1>2. HostInv'
  BY <1>1, IdleHost, LinkAssumption DEF HostInv, Recv
<1>3. ASSUME NEW e \in Dev PROVE DevInv(e)'
  <2>1. ~Called(e)' /\ host'.op # "poll" /\ ~Calls(e)'
    BY <1>1 DEF Called, Calls, Recv
  <2>. QED BY <1>1, <2>1, NewCall
<1>. QED BY <1>2, <1>3

LEMMA KeepGroupMove ==
  ASSUME EspInv, GroupMove
  PROVE  HostInv' /\ \A e \in Dev : DevInv(e)'
<1>1. /\ host.pc = "idle" /\ UNCHANGED <<waiting, spiSem, event, buf, msg, edge, done>>
      /\ host' = [pc |-> "trigger", op |-> "group", d |-> 1, msg |-> [kind |-> "MOVE", id |-> made + 1]]
      /\ made < MaxMsgs /\ made' = made + 1 /\ sent' = [d \in Dev |-> Append(sent[d], made + 1)]
  BY DEF GroupMove
<1>2. made + 1 \in 0..MaxMsgs /\ 1 \in Dev
  BY <1>1, LinkAssumption DEF EspInv, LinkTypeOK, Dev
<1>3. HostInv'
  BY <1>1, <1>2, IdleHost, LinkAssumption DEF HostInv
<1>4. ASSUME NEW e \in Dev PROVE DevInv(e)'
  <2>1. ~Called(e)' /\ host'.op # "poll" /\ Calls(e)' /\ host'.msg.id = made + 1
    BY <1>1 DEF Called, Calls, Dev
  <2>2. sent'[e] = IF Calls(e)' THEN Append(sent[e], host'.msg.id) ELSE sent[e]
    BY <1>1, <2>1
  <2>. QED BY <1>1, <1>2, <2>1, <2>2, NewCall
<1>. QED BY <1>3, <1>4

\* A step of the host that leaves its call, its message and its ESP as they are.
LEMMA CallGoesOn ==
  ASSUME EspInv, UNCHANGED <<event, buf, msg, edge, history>>, NEW e \in Dev,
         host'.op = host.op, host'.msg = host.msg,
         host'.d = host.d \/ host.op = "group"
  PROVE  MsgInv(e)' /\ PollInv(e)'
<1>1. (Loaded(e)' <=> Loaded(e)) /\ (Calls(e)' <=> Calls(e))
  BY HostAlone DEF Calls, event, msg
<1>2. MsgInv(e)'
  BY <1>1, OneEsp DEF MsgInv, event, msg, history
<1>3. PollInv(e)'
  BY <1>1, OneEsp DEF PollInv, event, msg, history
<1>. QED BY <1>2, <1>3

LEMMA KeepDrain ==
  ASSUME EspInv, Drain
  PROVE  HostInv' /\ \A e \in Dev : DevInv(e)'
<1>1. /\ host.pc = "send" /\ UNCHANGED <<waiting, event, buf, msg, edge, history>>
      /\ \/ spiSem # 0 /\ spiSem' = spiSem - 1 /\ host' = host
         \/ spiSem = 0 /\ spiSem' = spiSem /\ host' = [host EXCEPT !.pc = "trigger"]
  BY DEF Drain, LeftOver
<1>2. host.op # "group" /\ host.op # "none" /\ ~waiting /\ spiSem \in 0..MaxStale
  BY <1>1 DEF EspInv, HostInv
<1>3. /\ host'.op = host.op /\ host'.msg = host.msg /\ host'.d = host.d
      /\ host'.pc \in {"send", "trigger"} /\ (host'.pc = "trigger" => spiSem' = 0)
      /\ spiSem' \in 0..MaxStale
  BY <1>1, <1>2, LinkAssumption DEF EspInv, LinkTypeOK
<1>4. HostInv'
  BY <1>1, <1>2, <1>3 DEF EspInv, HostInv, history
<1>5. ASSUME NEW e \in Dev PROVE DevInv(e)'
  <2>1. ~Called(e) /\ ~Called(e)'
    BY <1>1, <1>2, <1>3 DEF Called
  <2>2. BusInv(e)'
    BY <1>1, <2>1, OneEsp DEF BusInv, event
  <2>. QED BY <1>1, <1>3, <2>2, CallGoesOn DEF DevInv
<1>. QED BY <1>4, <1>5

LEMMA KeepWaited ==
  ASSUME EspInv, Waited
  PROVE  HostInv' /\ \A e \in Dev : DevInv(e)'
<1>1. /\ host.pc = "wait" /\ spiSem > 0 /\ spiSem' = spiSem - 1
      /\ UNCHANGED <<waiting, event, buf, msg, edge, history>>
      /\ host' = IF host.op = "group" /\ host.d < Esps
                 THEN [host EXCEPT !.pc = "trigger", !.d = host.d + 1]
                 ELSE [host EXCEPT !.pc = "clock"]
  BY DEF Waited
<1>2. ~waiting /\ spiSem' = 0 /\ host.op # "none"
  BY <1>1 DEF EspInv, HostInv
<1>3. host.d \in 1..Esps
  BY DEF EspInv, LinkTypeOK, Dev
<1>4. /\ host'.op = host.op /\ host'.msg = host.msg
      /\ \/ host.op = "group" /\ host.d < Esps /\ host'.pc = "trigger" /\ host'.d = host.d + 1
         \/ host.op = "group" /\ host.d = Esps /\ host'.pc = "clock" /\ host'.d = host.d
         \/ host.op # "group" /\ host'.pc = "clock" /\ host'.d = host.d
  BY <1>1, <1>3, LinkAssumption DEF EspInv, LinkTypeOK
<1>5. HostInv'
  BY <1>1, <1>2, <1>4 DEF EspInv, HostInv, history
<1>6. ASSUME NEW e \in Dev PROVE DevInv(e)'
  <2>1. Called(e)' <=> Called(e)
    BY <1>1, <1>3, <1>4 DEF Called, Dev
  <2>2. Free4Next(e)' <=> Free4Next(e)
    BY <1>1, <1>4, HostAlone DEF event, msg
  <2>3. BusInv(e)'
    BY <1>1, <1>2, <1>4, <2>1, <2>2, OneEsp DEF BusInv, event, msg
  <2>. QED BY <1>1, <1>4, <2>3, CallGoesOn DEF DevInv
<1>. QED BY <1>5, <1>6

LEMMA KeepHandshake ==
  ASSUME EspInv, Handshake, "prompt" \in LinkCalm
  PROVE  HostInv' /\ \A e \in Dev : DevInv(e)'
<1>0. PICK d \in Dev : d = host.d
  BY DEF EspInv, LinkTypeOK
<1>1. /\ host.pc = "trigger" /\ host' = [host EXCEPT !.pc = "wait"] /\ waiting' = TRUE
      /\ UNCHANGED <<spiSem, view, ev, reply, buf, msg, edge, history>>
      /\ ev[d] = "wait" /\ evq[d] = <<>> /\ spi[d] = "IDLE"
      /\ (mt[d] = "idle" /\ mq[d] = 0) \/ (mt[d] \in {"begin", "sync"} /\ edge[d] = 0)
      /\ spi' = [spi EXCEPT ![d] = "RECEIVING"] /\ evq' = [evq EXCEPT ![d] = <<"SPI_RECV_MSG">>]
  BY <1>0 DEF Handshake, Settled, Push
<1>2. d \in Dev /\ d \in 1..Esps
  BY DEF Dev
<1>3. host'.pc = "wait" /\ host'.op = host.op /\ host'.msg = host.msg /\ host'.d = d
  BY <1>0, <1>1 DEF EspInv, LinkTypeOK
<1>4. HostInv'
  BY <1>1, <1>3 DEF EspInv, HostInv, history
<1>5. ASSUME NEW e \in Dev PROVE MsgInv(e)' /\ PollInv(e)'
  <2>1. (Loaded(e)' <=> Loaded(e)) /\ (Calls(e)' <=> Calls(e))
    BY <1>1, <1>3, HostAlone DEF Calls, msg
  <2>2. MsgInv(e)'
    <3>1. MsgInv(e) /\ UNCHANGED <<ev, buf, mq, mt, edge, sent, done>> /\ host'.op = host.op /\ host'.msg = host.msg
      BY <1>1, <1>3, OneEsp DEF msg, history
    <3>. QED BY <2>1, <3>1 DEF MsgInv
  <2>3. PollInv(e)'
    BY <1>1, <1>3, <2>1, OneEsp DEF PollInv, msg, history
  <2>. QED BY <2>2, <2>3
<1>6. BusInv(d)'
  <2>1. Called(d)'
    BY <1>2, <1>3 DEF Called
  <2>2. Free4Next(d)
    BY <1>1, <1>2, OneEsp DEF Free4Next, MsgInv
  <2>3. Free4Next(d)'
    BY <1>1, <1>2, <1>3, <2>2, HostAlone DEF msg
  <2>4. spi'[d] = "RECEIVING" /\ evq'[d] = <<"SPI_RECV_MSG">> /\ ev'[d] = "wait"
    BY <1>1, <1>2 DEF EspInv, LinkTypeOK
  <2>. QED BY <1>1, <1>3, <2>1, <2>3, <2>4 DEF BusInv
<1>7. ASSUME NEW e \in Dev, e # d PROVE BusInv(e)'
  <2>1. spi'[e] = spi[e] /\ evq'[e] = evq[e]
    BY <1>1, <1>2, <1>7 DEF EspInv, LinkTypeOK
  <2>2. Called(e)' <=> Called(e)
    BY <1>0, <1>1, <1>2, <1>3, <1>7 DEF Called, Dev
  <2>3. Free4Next(e)' <=> Free4Next(e)
    BY <1>1, <1>3, HostAlone DEF msg
  <2>4. BusInv(e) /\ UNCHANGED <<ev, reply, buf, mt>>
    BY <1>1, OneEsp DEF msg
  <2>5. ~(host.pc = "wait" /\ e = host.d /\ waiting) /\ ~(host'.pc = "wait" /\ e = host'.d /\ waiting')
    BY <1>0, <1>1, <1>3, <1>7
  <2>. QED BY <2>1, <2>2, <2>3, <2>4, <2>5 DEF BusInv
<1>8. ASSUME NEW e \in Dev PROVE DevInv(e)'
  <2>1. CASE e = d
    BY <1>5, <1>6, <2>1 DEF DevInv
  <2>2. CASE e # d
    BY <1>5, <1>7, <2>2 DEF DevInv
  <2>. QED BY <2>1, <2>2
<1>. QED BY <1>4, <1>8

\* When the host clocks, those on the bus are those it has called.
LEMMA CalledOnBus ==
  ASSUME EspInv, host.pc = "clock"
  PROVE  /\ OnBus = {e \in Dev : Called(e)}
         /\ OnBus = IF host.op = "group" THEN Dev ELSE {host.d}
<1>1. ASSUME NEW e \in Dev PROVE ev[e] = "armed" <=> Called(e)
  <2>1. CASE Called(e)
    BY <2>1, OneEsp DEF BusInv
  <2>2. CASE ~Called(e)
    BY <2>2, OneEsp DEF BusInv
  <2>. QED BY <2>1, <2>2
<1>2. host.d \in Dev /\ (host.op = "group" => host.d = Esps)
  BY DEF EspInv, LinkTypeOK, HostInv
<1>3. ASSUME NEW e \in Dev PROVE Called(e) <=> (host.op = "group" \/ e = host.d)
  BY <1>2, LinkAssumption DEF Called, Dev
<1>4. OnBus = {e \in Dev : Called(e)}
  BY <1>1 DEF OnBus
<1>. QED BY <1>2, <1>3, <1>4

\* A transfer: the ESPs called have it, the others have not seen it.
LEMMA Clocked ==
  ASSUME EspInv, Clock
  PROVE  /\ host.pc = "clock" /\ UNCHANGED <<waiting, spiSem, evq, spi, reply, mq, mt, made, sent, done>>
         /\ host.op \in {"one", "group", "poll"}
         /\ \A e \in Dev : IF Called(e) THEN ev'[e] = "done" /\ buf'[e] = host.msg
                           ELSE ev'[e] = ev[e] /\ buf'[e] = buf[e]
         /\ \A e \in Dev : Called(e) <=> (host.op = "group" \/ e = host.d)
<1>1. /\ host.pc = "clock" /\ UNCHANGED <<waiting, spiSem, evq, spi, reply, mq, mt, made, sent, done>>
      /\ ev'  = [d \in Dev |-> IF d \in OnBus THEN "done" ELSE ev[d]]
      /\ buf' = [d \in Dev |-> IF d \in OnBus THEN host.msg ELSE buf[d]]
  BY DEF Clock, msg, history
<1>2. host.op \in {"one", "group", "poll"}
  BY <1>1 DEF EspInv, LinkTypeOK, HostInv
<1>3. \A e \in Dev : e \in OnBus <=> Called(e)
  BY <1>1, CalledOnBus
<1>4. \A e \in Dev : e \in OnBus <=> (host.op = "group" \/ e = host.d)
  BY <1>1, CalledOnBus
<1>. QED BY <1>1, <1>2, <1>3, <1>4

\* The bus side after a transfer, when the host has called no one yet.
LEMMA ClockedBus ==
  ASSUME EspInv, Clock, NEW e \in Dev, ~Called(e)'
  PROVE  BusInv(e)'
<1>1. CASE Called(e)
  BY <1>1, Clocked, OneEsp DEF BusInv
<1>2. CASE ~Called(e)
  BY <1>2, Clocked, OneEsp DEF BusInv
<1>. QED BY <1>1, <1>2

\* What the transfer of a message leaves of the account of it.
LEMMA Handed ==
  ASSUME EspInv, Clock, NEW e \in Dev, host.op \in {"one", "group"}, ~Calls(e)'
  PROVE  /\ Called(e) => mt[e] = "idle" /\ mq[e] = 0 /\ (Loaded(e)' <=> Calls(e))
         /\ ~Called(e) => (Loaded(e)' <=> Loaded(e)) /\ ~Calls(e)
         /\ sent'[e] = (done'[e] \o (IF Loaded(e)' THEN <<buf'[e].id>> ELSE <<>>))
                           \o (IF Calls(e)' THEN <<host'.msg.id>> ELSE <<>>)
<1>1. sent[e] = (done[e] \o (IF Loaded(e) THEN <<buf[e].id>> ELSE <<>>))
                         \o (IF Calls(e) THEN <<host.msg.id>> ELSE <<>>)
  BY OneEsp DEF MsgInv
<1>2. done[e] \in Seq(0..MaxMsgs) /\ host.msg \in [kind : {"RECEIVE", "COMMAND", "MOVE"}, id : 0..MaxMsgs]
      /\ done' = done /\ sent' = sent
  BY OneEsp, Clocked DEF EspInv, LinkTypeOK
<1>3. done[e] \o <<>> = done[e]
  BY <1>2, ConcatEmptySeq
<1>4. Called(e) <=> (host.op = "group" \/ e = host.d)
  BY Clocked
<1>5. ASSUME Called(e)
      PROVE  /\ mt[e] = "idle" /\ mq[e] = 0 /\ (Loaded(e)' <=> Calls(e)) /\ ~Loaded(e)
             /\ buf'[e] = host.msg
  <2>1. mt[e] = "idle" /\ mq[e] = 0
    BY <1>5, OneEsp DEF BusInv, Free4Next
  <2>2. ~Loaded(e)
    BY <1>5, CalledIsFree
  <2>3. ev'[e] = "done" /\ buf'[e] = host.msg
    BY <1>5, Clocked
  <2>4. Loaded(e)' <=> Message(host.msg)
    BY <2>3 DEF Loaded, Message
  <2>5. Message(host.msg) <=> host.msg.kind # "RECEIVE"
    BY <1>2 DEF Message
  <2>6. Calls(e) <=> host.msg.kind # "RECEIVE"
    BY <1>4, <1>5 DEF Calls
  <2>. QED BY <2>1, <2>2, <2>3, <2>4, <2>5, <2>6
<1>6. ASSUME ~Called(e) PROVE (Loaded(e)' <=> Loaded(e)) /\ ~Calls(e) /\ buf'[e] = buf[e]
  BY <1>4, <1>6, Clocked DEF Calls, Loaded, Message
<1>7. sent'[e] = (done'[e] \o (IF Loaded(e)' THEN <<buf'[e].id>> ELSE <<>>)) \o <<>>
  <2>1. CASE Called(e) /\ Calls(e)
    <3>1. sent[e] = done[e] \o <<host.msg.id>>
      BY <1>1, <1>3, <1>5, <2>1
    <3>2. host.msg.id \in 0..MaxMsgs
      BY <1>2
    <3>3. done[e] \o <<host.msg.id>> \in Seq(0..MaxMsgs)
      BY <1>2, <3>2
    <3>4. (done[e] \o <<host.msg.id>>) \o <<>> = done[e] \o <<host.msg.id>>
      BY <3>3, ConcatEmptySeq
    <3>. QED BY <1>2, <1>5, <2>1, <3>1, <3>4
  <2>2. CASE Called(e) /\ ~Calls(e)
    BY <1>1, <1>2, <1>3, <1>5, <2>2
  <2>3. CASE ~Called(e)
    BY <1>1, <1>2, <1>6, <2>3
  <2>. QED BY <2>1, <2>2, <2>3
<1>. QED BY <1>5, <1>6, <1>7

LEMMA KeepClockOne ==
  ASSUME EspInv, Clock, host.op = "one"
  PROVE  HostInv' /\ \A e \in Dev : DevInv(e)'
<1>1. host' = Idle /\ edge' = edge
  BY DEF Clock
<1>2. host'.pc = "idle" /\ host'.op = "none" /\ host'.msg = Recv /\ host'.msg.kind = "RECEIVE"
  BY <1>1 DEF Idle, Recv
<1>3. HostInv'
  BY <1>2, Clocked DEF EspInv, HostInv
<1>4. ASSUME NEW e \in Dev PROVE DevInv(e)'
  <2>1. ~Called(e)' /\ ~Calls(e)'
    BY <1>2 DEF Called, Calls
  <2>2. BusInv(e)'
    BY <2>1, ClockedBus
  <2>3. PollInv(e)'
    BY <1>2 DEF PollInv
  <2>4. /\ Called(e) => mt[e] = "idle" /\ mq[e] = 0 /\ (Loaded(e)' <=> Calls(e))
        /\ ~Called(e) => (Loaded(e)' <=> Loaded(e)) /\ ~Calls(e)
        /\ sent'[e] = (done'[e] \o (IF Loaded(e)' THEN <<buf'[e].id>> ELSE <<>>))
                           \o (IF Calls(e)' THEN <<host'.msg.id>> ELSE <<>>)
    BY <2>1, Handed
  <2>5. MsgInv(e)'
    <3>1. UNCHANGED <<mt, mq>> /\ host.msg.kind # "MOVE" /\ MsgInv(e)
      BY Clocked, OneEsp DEF HostInv
    <3>2. CASE Called(e)
      <4>1. ev'[e] = "done" /\ buf'[e] = host.msg
        BY <3>2, Clocked
      <4>. QED BY <1>1, <1>2, <2>4, <3>1, <3>2, <4>1 DEF MsgInv
    <3>3. CASE ~Called(e)
      <4>1. ev'[e] = ev[e] /\ buf'[e] = buf[e]
        BY <3>3, Clocked
      <4>. QED BY <1>1, <1>2, <2>4, <3>1, <3>3, <4>1 DEF MsgInv
    <3>. QED BY <3>2, <3>3
  <2>. QED BY <2>2, <2>3, <2>5 DEF DevInv
<1>. QED BY <1>3, <1>4

LEMMA KeepClockGroup ==
  ASSUME EspInv, Clock, host.op = "group"
  PROVE  HostInv' /\ \A e \in Dev : DevInv(e)'
<1>1. host' = [pc |-> "send", op |-> "poll", d |-> 1, msg |-> Recv] /\ edge' = edge
  BY DEF Clock
<1>2. host'.pc = "send" /\ host'.op = "poll" /\ host'.msg = Recv /\ host'.msg.kind = "RECEIVE" /\ host'.d = 1
  BY <1>1 DEF Recv
<1>3. HostInv'
  BY <1>2, Clocked, LinkAssumption DEF EspInv, HostInv
<1>4. host.msg = [kind |-> "MOVE", id |-> made]
  BY DEF EspInv, HostInv, LinkTypeOK
<1>5. ASSUME NEW e \in Dev PROVE DevInv(e)'
  <2>1. ~Called(e)' /\ ~Calls(e)' /\ Calls(e)
    BY <1>2, <1>4 DEF Called, Calls
  <2>2. BusInv(e)'
    BY <2>1, ClockedBus
  <2>3. ev'[e] = "done" /\ buf'[e] = host.msg /\ Called(e) /\ UNCHANGED <<mt, mq>>
    BY Clocked
  <2>4. /\ mt[e] = "idle" /\ mq[e] = 0 /\ Loaded(e)'
        /\ sent'[e] = (done'[e] \o (IF Loaded(e)' THEN <<buf'[e].id>> ELSE <<>>))
                           \o (IF Calls(e)' THEN <<host'.msg.id>> ELSE <<>>)
    BY <2>1, <2>3, Handed
  <2>5. edge[e] = 0
    <3>1. MsgInv(e) /\ edge[e] \in 0..1
      BY OneEsp
    <3>. QED BY <2>4, <3>1 DEF MsgInv
  <2>6. MsgInv(e)'
    <3>1. edge'[e] = 0 /\ mt'[e] = "idle" /\ ev'[e] = "done" /\ mq'[e] = 0
      BY <1>1, <2>3, <2>4, <2>5
    <3>. QED BY <1>2, <2>4, <3>1 DEF MsgInv
  <2>7. ~(e < host'.d)
    BY <1>2 DEF Dev
  <2>8. PollInv(e)'
    BY <1>1, <1>4, <2>3, <2>4, <2>5, <2>7, Clocked DEF PollInv
  <2>. QED BY <2>2, <2>6, <2>8 DEF DevInv
<1>. QED BY <1>3, <1>5

\* An ESP that answers a poll as ready waits for the edge, and so do those before it.
LEMMA Answered ==
  ASSUME EspInv, host.pc = "clock", host.op = "poll",
         reply[host.d], NEW e \in Dev, e <= host.d
  PROVE  mt[e] = "sync" /\ edge[e] = 0 /\ ~Loaded(e) /\ done[e] # <<>> /\ Last(done[e]) = made
<1>1. host.d \in Dev
  BY DEF EspInv, LinkTypeOK
<1>3. Called(host.d) /\ ev[host.d] = "armed"
  <2>1. Called(host.d)
    BY DEF Called
  <2>. QED BY <1>1, <2>1, OneEsp DEF BusInv
<1>4. mt[host.d] = "sync"
  BY <1>1, <1>3, OneEsp DEF BusInv
<1>5. mt[e] = "sync"
  <2>1. CASE e = host.d
    BY <1>4, <2>1
  <2>2. CASE e < host.d
    BY <2>2, OneEsp DEF PollInv
  <2>. QED BY <1>1, <2>1, <2>2 DEF Dev
<1>6. ~Loaded(e)
  BY <1>5, OneEsp DEF MsgInv
<1>. QED BY <1>5, <1>6, OneEsp DEF PollInv

LEMMA KeepClockPoll ==
  ASSUME EspInv, Clock, host.op = "poll"
  PROVE  HostInv' /\ \A e \in Dev : DevInv(e)'
<1>1. PICK v :
        /\ v = [view EXCEPT ![host.d] = IF OnBus = {host.d} THEN reply[host.d] ELSE FALSE]
        /\ host' = Asked(v)
        /\ edge' = IF AllReady(v) THEN [e \in Dev |-> 1] ELSE edge
  BY DEF Clock
<1>0. v[host.d] => reply[host.d]
  BY <1>1 DEF EspInv, LinkTypeOK
<1>2. host.d \in 1..Esps /\ host.pc = "clock" /\ host.msg = Recv
  BY Clocked DEF EspInv, LinkTypeOK, HostInv, Dev
<1>3. host' = IF host.d = Esps /\ v[host.d] THEN Idle
              ELSE [host EXCEPT !.pc = "send", !.d = IF v[host.d] THEN host.d + 1 ELSE 1]
  BY <1>1 DEF Asked, AllReady
<1>4. /\ host'.pc \in {"idle", "send"} /\ host'.msg = Recv /\ Recv.kind = "RECEIVE"
      /\ IF host.d = Esps /\ v[host.d] THEN host'.pc = "idle" /\ host'.op = "none"
         ELSE host'.pc = "send" /\ host'.op = "poll" /\ host'.d = IF v[host.d] THEN host.d + 1 ELSE 1
  BY <1>2, <1>3 DEF Idle, Recv, EspInv, LinkTypeOK
<1>5. HostInv'
  <2>1. HostInv /\ UNCHANGED <<waiting, spiSem, made>>
    BY Clocked DEF EspInv
  <2>2. ~waiting /\ spiSem = 0 /\ 0 \in 0..MaxStale
    BY <1>2, <2>1, LinkAssumption DEF HostInv
  <2>. QED BY <1>4, <2>1, <2>2 DEF HostInv
<1>6. ASSUME NEW e \in Dev PROVE DevInv(e)'
  <2>1. ~Called(e)' /\ ~Calls(e)' /\ ~Calls(e)
    BY <1>2, <1>4 DEF Called, Calls
  <2>2. BusInv(e)'
    BY <2>1, ClockedBus
  <2>3. UNCHANGED <<mt, mq, done, sent, made>>
    BY Clocked
  <2>4. /\ Called(e) => ev'[e] = "done" /\ buf'[e] = Recv
        /\ ~Called(e) => ev'[e] = ev[e] /\ buf'[e] = buf[e]
    BY <1>2, Clocked
  <2>5. (Loaded(e)' <=> Loaded(e)) /\ (Loaded(e) => ~Called(e))
    <3>1. CASE Called(e)
      BY <1>4, <2>4, <3>1, CalledIsFree DEF Loaded, Message
    <3>2. CASE ~Called(e)
      BY <2>3, <2>4, <3>2 DEF Loaded, Message
    <3>. QED BY <3>1, <3>2
  <2>6. MsgInv(e) /\ PollInv(e) /\ e \in 1..Esps
    BY OneEsp DEF Dev
  <2>7. sent'[e] = (done'[e] \o (IF Loaded(e)' THEN <<buf'[e].id>> ELSE <<>>))
                           \o (IF Calls(e)' THEN <<host'.msg.id>> ELSE <<>>)
    <3>1. sent[e] = (done[e] \o (IF Loaded(e) THEN <<buf[e].id>> ELSE <<>>)) \o <<>>
      BY <2>1, <2>6 DEF MsgInv
    <3>2. (IF Loaded(e)' THEN <<buf'[e].id>> ELSE <<>>) = (IF Loaded(e) THEN <<buf[e].id>> ELSE <<>>)
      BY <2>4, <2>5
    <3>. QED BY <2>1, <2>3, <3>1, <3>2
  <2>8. CASE host.d = Esps /\ v[host.d]
    <3>1. mt[e] = "sync" /\ ~Loaded(e)
      BY <1>0, <1>2, <2>6, <2>8, Answered
    <3>2. edge'[e] = 1 /\ host'.op = "none"
      BY <1>1, <1>4, <2>8 DEF AllReady
    <3>3. MsgInv(e)'
      BY <2>3, <2>5, <2>7, <3>1, <3>2 DEF MsgInv
    <3>4. PollInv(e)'
      BY <3>2 DEF PollInv
    <3>. QED BY <2>2, <3>3, <3>4 DEF DevInv
  <2>9. CASE ~(host.d = Esps /\ v[host.d])
    <3>1. edge' = edge /\ host'.op = "poll"
      BY <1>1, <1>4, <2>9 DEF AllReady
    <3>2. MsgInv(e)'
      <4>1. CASE Called(e)
        BY <2>3, <2>4, <2>5, <2>6, <2>7, <3>1, <4>1, CalledIsFree DEF MsgInv
      <4>2. CASE ~Called(e)
        BY <2>3, <2>4, <2>5, <2>6, <2>7, <3>1, <4>2 DEF MsgInv
      <4>. QED BY <4>1, <4>2
    <3>3. e < host'.d => mt[e] = "sync"
      <4>1. CASE v[host.d]
        <5>1. host'.d = host.d + 1
          BY <1>4, <2>9, <4>1
        <5>. QED BY <1>0, <1>2, <2>6, <4>1, <5>1, Answered
      <4>2. CASE ~v[host.d]
        BY <1>4, <2>6, <2>9, <4>2
      <4>. QED BY <4>1, <4>2
    <3>4. PollInv(e)'
      BY <2>3, <2>4, <2>5, <2>6, <3>1, <3>3 DEF PollInv
    <3>. QED BY <2>2, <3>2, <3>4 DEF DevInv
  <2>. QED BY <2>8, <2>9
<1>. QED BY <1>5, <1>6

LEMMA EspStart == LinkInit => EspInv
<1> SUFFICES ASSUME LinkInit PROVE EspInv
  OBVIOUS
<1>1. Recv \in [kind : {"RECEIVE", "COMMAND", "MOVE"}, id : 0..MaxMsgs] /\ Recv.kind = "RECEIVE"
      /\ Blank \in [kind : {"PRINT_INFO", "RECEIVE", "COMMAND", "MOVE"}, id : 0..MaxMsgs]
      /\ Blank.kind = "PRINT_INFO" /\ 1 \in Dev /\ 1 \in 0..MaxMsgs
  BY LinkAssumption DEF Recv, Blank, Dev
<1>2. host \in [pc : {"idle", "send", "trigger", "wait", "clock"}, op : {"none", "one", "group", "poll"},
                d : Dev, msg : [kind : {"RECEIVE", "COMMAND", "MOVE"}, id : 0..MaxMsgs]]
  BY <1>1 DEF LinkInit, First
<1>3. LinkTypeOK
  <2>1. spiSem \in 0..(MaxStale + 1) /\ made \in 0..MaxMsgs
    BY LinkAssumption DEF LinkInit
  <2>6. waiting \in BOOLEAN /\ view \in [Dev -> BOOLEAN] /\ reply \in [Dev -> BOOLEAN]
    BY DEF LinkInit
  <2>2. evq \in [Dev -> {<<>>, <<"LIMIT_SWITCH">>, <<"SPI_RECV_MSG">>}]
    BY DEF LinkInit
  <2>3. /\ spi \in [Dev -> {"IDLE", "RECEIVING"}]
        /\ ev \in [Dev -> {"wait", "setup", "armed", "done", "queue"}]
        /\ mq \in [Dev -> 0..1] /\ edge \in [Dev -> 0..1]
        /\ mt \in [Dev -> {"idle", "read", "move", "begin", "sync"}]
    BY DEF LinkInit
  <2>4. buf \in [Dev -> [kind : {"PRINT_INFO", "RECEIVE", "COMMAND", "MOVE"}, id : 0..MaxMsgs]]
    BY <1>1 DEF LinkInit
  <2>5. sent \in [Dev -> Seq(0..MaxMsgs)] /\ done \in [Dev -> Seq(0..MaxMsgs)]
    <3>1. <<>> \in Seq(0..MaxMsgs) /\ <<1>> \in Seq(0..MaxMsgs)
      BY <1>1
    <3>. QED BY <3>1 DEF LinkInit
  <2>. QED BY <1>2, <2>1, <2>2, <2>3, <2>4, <2>5, <2>6 DEF LinkTypeOK
<1>4. HostInv
  BY <1>1 DEF LinkInit, First, HostInv
<1>5. ASSUME NEW d \in Dev PROVE DevInv(d)
  <2>1. ~Called(d) /\ (Calls(d) <=> d = 1) /\ ~Loaded(d)
    BY <1>1 DEF LinkInit, First, Called, Calls, Loaded, Message
  <2>2. BusInv(d)
    BY <2>1, EventQueues DEF LinkInit, BusInv
  <2>3. MsgInv(d)
    <3>1. /\ mt[d] = "idle" /\ edge[d] = 0 /\ done[d] = <<>> /\ host.msg.id = 1
          /\ sent[d] = IF d = 1 THEN <<1>> ELSE <<>>
      BY DEF LinkInit, First
    <3>2. (<<>> \o <<>>) \o <<1>> = <<1>> /\ (<<>> \o <<>>) \o <<>> = <<>>
      <4>1. <<>> \in Seq(Nat) /\ <<1>> \in Seq(Nat)
        OBVIOUS
      <4>2. \A q \in Seq(Nat) : q \o <<>> = q /\ <<>> \o q = q
        BY ConcatEmptySeq
      <4>3. <<>> \o <<>> = <<>>
        BY <4>1, <4>2
      <4>4. <<>> \o <<1>> = <<1>>
        BY <4>1, <4>2
      <4>. QED BY <4>3, <4>4
    <3>3. sent[d] = (done[d] \o (IF Loaded(d) THEN <<buf[d].id>> ELSE <<>>))
                            \o (IF Calls(d) THEN <<host.msg.id>> ELSE <<>>)
      <4>1. CASE d = 1
        BY <2>1, <3>1, <3>2, <4>1
      <4>2. CASE d # 1
        BY <2>1, <3>1, <3>2, <4>2
      <4>. QED BY <4>1, <4>2
    <3>. QED BY <2>1, <3>1, <3>3 DEF MsgInv
  <2>4. PollInv(d)
    BY DEF LinkInit, First, PollInv
  <2>. QED BY <2>2, <2>3, <2>4 DEF DevInv
<1>. QED BY <1>3, <1>4, <1>5 DEF EspInv

LEMMA EspSteps == "prompt" \in LinkCalm /\ EspInv /\ [LinkNext]_linkVars => EspInv'
<1> SUFFICES ASSUME "prompt" \in LinkCalm, EspInv, [LinkNext]_linkVars PROVE EspInv'
  OBVIOUS
<1>1. LinkTypeOK'
  BY EspTypes DEF EspInv
<1>2. CASE GroupMove
  BY <1>1, <1>2, KeepGroupMove DEF EspInv, Dev
<1>3. CASE HostGoesOn
  <2>1. CASE Clock
    BY <1>1, <2>1, Clocked, KeepClockOne, KeepClockGroup, KeepClockPoll DEF EspInv, Dev
  <2>. QED BY <1>1, <1>3, <2>1, KeepDrain, KeepHandshake, KeepWaited DEF HostGoesOn, EspInv, Dev
<1>4. CASE \E d \in Dev : SendCommand(d) \/ Receive(d) \/ LimitSwitch(d)
  BY <1>1, <1>4, KeepSendCommand, KeepReceive, KeepLimitSwitch DEF EspInv, Dev
<1>5. CASE \E d \in Dev : EventTask(d)
  BY <1>1, <1>5, KeepEventTake, KeepSetUp, KeepReceived, KeepQueue DEF EventTask, EspInv, Dev
<1>6. CASE \E d \in Dev : MsgTask(d)
  BY <1>1, <1>6, KeepMsgTake, KeepMsgRead, KeepMsgMove, KeepBegun, KeepSyncTake DEF MsgTask, EspInv, Dev
<1>7. CASE UNCHANGED linkVars
  <2>1. HostInv'
    BY <1>7, HostRests DEF EspInv, linkVars, hostVars, history
  <2>2. ASSUME NEW e \in Dev PROVE DevInv(e)'
    BY <1>7, Untouched DEF EspInv, linkVars, hostVars, event, msg, history
  <2>. QED BY <1>1, <2>1, <2>2 DEF EspInv, Dev
<1>. QED BY <1>2, <1>3, <1>4, <1>5, <1>6, <1>7 DEF LinkNext

\* What is followed by more is a prefix of it.
LEMMA PrefixOfMore ==
  ASSUME NEW S, NEW s \in Seq(S), NEW a \in Seq(S), NEW b \in Seq(S)
  PROVE  IsPrefix(s, (s \o a) \o b)
<1>1. s \o a \in Seq(S)
  BY ConcatProperties
<1> DEFINE t == (s \o a) \o b
<1>2. /\ t \in Seq(S) /\ Len(t) = Len(s) + Len(a) + Len(b) /\ Len(s) \in Nat /\ Len(a) \in Nat /\ Len(b) \in Nat
  BY <1>1, ConcatProperties, LenProperties
<1>3. \A i \in 1..Len(s) : t[i] = s[i]
  BY <1>1
<1>4. SubSeq(t, 1, Len(s)) = s
  BY <1>2, <1>3
<1>5. SubSeq(s, 1, Len(s)) = s
  BY SubSeqFull
<1>6. Len(s) <= Len(t)
  BY <1>2
<1>. QED BY <1>4, <1>5, <1>6 DEF IsPrefix

LEMMA EspDelivers == EspInv => OnceInOrder /\ OnlyTheCalled
<1> SUFFICES ASSUME EspInv PROVE OnceInOrder /\ OnlyTheCalled
  OBVIOUS
<1>1. OnlyTheCalled
  BY CalledOnBus DEF OnlyTheCalled
<1>2. ASSUME NEW d \in Dev
      PROVE  IsPrefix(done[d], sent[d]) /\ (host.pc = "idle" /\ Settled(d) => done[d] = sent[d])
  <2> DEFINE a == IF Loaded(d) THEN <<buf[d].id>> ELSE <<>>
             b == IF Calls(d) THEN <<host.msg.id>> ELSE <<>>
             M == 0..MaxMsgs
  <2>1. done[d] \in Seq(M) /\ buf[d].id \in M /\ host.msg.id \in M
    BY OneEsp DEF EspInv, LinkTypeOK
  <2>2. a \in Seq(M) /\ b \in Seq(M)
    <3>1. <<buf[d].id>> \in Seq(M) /\ <<host.msg.id>> \in Seq(M) /\ <<>> \in Seq(M)
      BY <2>1
    <3>. QED BY <3>1
  <2>3. sent[d] = (done[d] \o a) \o b
    BY OneEsp DEF MsgInv
  <2>4. ASSUME host.pc = "idle", Settled(d) PROVE done[d] = sent[d]
    <3>1. ~Calls(d)
      BY <2>4, IdleHost
    <3>2. ~Loaded(d)
      <4>1. MsgInv(d)
        BY OneEsp
      <4>. QED BY <2>4, <4>1 DEF Settled, Loaded, MsgInv
    <3>3. done[d] \o <<>> = done[d]
      BY <2>1, ConcatEmptySeq
    <3>. QED BY <2>3, <3>1, <3>2, <3>3
  <2> HIDE DEF a, b, M
  <2>5. IsPrefix(done[d], sent[d])
    BY <2>1, <2>2, <2>3, PrefixOfMore
  <2>. QED BY <2>4, <2>5
<1>. QED BY <1>1, <1>2 DEF OnceInOrder

\* The edge of the SYNC pin finds every ESP waiting.
LEMMA EspTogether == "prompt" \in LinkCalm /\ EspInv /\ [LinkNext]_linkVars => AllWait
<1> SUFFICES ASSUME EspInv, [LinkNext]_linkVars, edge' # edge, \E d \in Dev : edge'[d] > edge[d]
             PROVE  \A d \in Dev : mt[d] = "sync" /\ edge[d] = 0 /\ Last(done[d]) = made
  BY DEF AllWait
<1>1. CASE Clock
  <2>1. host.op = "poll"
    BY <1>1 DEF Clock
  <2>2. PICK v :
        /\ v = [view EXCEPT ![host.d] = IF OnBus = {host.d} THEN reply[host.d] ELSE FALSE]
        /\ edge' = IF AllReady(v) THEN [e \in Dev |-> 1] ELSE edge
    BY <1>1, <2>1 DEF Clock
  <2>3. host.pc = "clock" /\ host.d = Esps /\ v[host.d] /\ reply[host.d]
    BY <1>1, <2>2 DEF AllReady, Clock, EspInv, LinkTypeOK
  <2>4. ASSUME NEW e \in Dev PROVE mt[e] = "sync" /\ edge[e] = 0 /\ Last(done[e]) = made
    <3>1. e <= host.d
      BY <2>3 DEF Dev
    <3>. QED BY <2>1, <2>2, <2>3, <3>1, Answered
  <2>. QED BY <2>4
<1>2. CASE \E d \in Dev : SyncTake(d)
  <2>1. PICK d \in Dev : SyncTake(d)
    BY <1>2
  <2>2. \A e \in Dev : ~(edge'[e] > edge[e])
    BY <2>1 DEF SyncTake, EspInv, LinkTypeOK
  <2>. QED BY <2>2
<1>3. CASE ~Clock /\ ~\E d \in Dev : SyncTake(d)
  <2>1. edge' = edge
    BY <1>3 DEF LinkNext, HostGoesOn, EventTask, MsgTask, GroupMove, Drain, Handshake, Waited,
      SendCommand, Receive, LimitSwitch, EventTake, SetUp, Received, Queue, MsgTake, MsgRead, MsgMove,
      Begun, linkVars
  <2>. QED BY <2>1
<1>. QED BY <1>1, <1>2, <1>3

\* The link keeps its invariant: every message on its way is at one place, whole,
\* and every ESP called takes part in the transfer (spiHost::send, recv_spi_msg,
\* msg_task), for any number of ESPs and messages.
THEOREM EspInvHolds == ASSUME "prompt" \in LinkCalm PROVE LinkSpec => []EspInv
<1>1. LinkInit => EspInv
  BY EspStart
<1>2. EspInv /\ [LinkNext]_linkVars => EspInv'
  BY EspSteps
<1>. QED BY <1>1, <1>2, PTL DEF LinkSpec

\* Each ESP carries out what it is sent, once and in order, alone on the bus when it
\* is called alone; and the ESPs of a group start together (espStepperGroup::move).
THEOREM EspLinkIsCorrect == ASSUME "prompt" \in LinkCalm PROVE LinkSpec => EspLinkCorrect
<1>1. EspInv => LinkTypeOK /\ OnceInOrder /\ OnlyTheCalled
  BY EspDelivers DEF EspInv
<1>2. EspInv /\ [LinkNext]_linkVars => [AllWait]_linkVars
  BY EspTogether
<1>. QED BY <1>1, <1>2, EspInvHolds, PTL DEF LinkSpec, EspLinkCorrect

-----------------------------------------------------------------------------
(* The laser machine. *)

\* The program's place: after RESET none, with no timer left; before and after
\* its blocks at its end.
ProgramInv ==
  /\ prog = None => reset
  /\ reset => timers = {} /\ pid = 0 /\ ~inProgram
  /\ ~inProgram /\ prog # None => pid = Len(prog)

\* Only a program moves the axes other than by jogs, and only in AUTO; HOLD
\* leaves an axis held, which no timer of the group takes for the end of a block.
AxesInv ==
  /\ \A a \in Axes : IF inProgram THEN ax[a] # "jog" ELSE ax[a] \in {"ready", "jog"}
  /\ inProgram => mode = "AUTO"
  /\ holding /\ inProgram => (\A a \in Axes : ~InMotion(a)) /\ (\E a \in Axes : ax[a] = "held")

LaserInv ==
  /\ LaserTypeOK /\ ProgramInv /\ AxesInv
  /\ dead = "no"
  /\ prog = None => ~beam

\* A set of numbers that is not empty has a least one.
LEMMA LeastNumber ==
  ASSUME NEW T \in SUBSET Nat, T # {}
  PROVE  Min(T) \in T /\ \A y \in T : Min(T) <= y
<1> DEFINE R == {ss \in Nat \X Nat : ss[1] < ss[2]}
<1>1. IsWellFoundedOn(R, Nat)
  BY NatLessThanWellFounded DEF OpToRel
<1>2. \E x \in T : \A y \in T : ~(<<y, x>> \in R)
  <2> HIDE DEF R
  <2>. QED BY <1>1, WFMin
<1>3. \E x \in T : \A y \in T : ~(y < x)
  BY <1>2
<1>4. \E x \in T : \A y \in T : x <= y
  <2> HIDE DEF R
  <2>. QED BY <1>3
<1>. QED BY <1>4 DEF Min

\* There is a number for one timer more.
LEMMA TimersLeft ==
  ASSUME NEW ts \in SUBSET (1..(MaxTimers + 1)), Cardinality(ts) <= MaxTimers
  PROVE  NewTimer(ts) \in 1..(MaxTimers + 1) /\ NewTimer(ts) \notin ts
<1>1. IsFiniteSet(1..(MaxTimers + 1)) /\ Cardinality(1..(MaxTimers + 1)) = MaxTimers + 1
  BY FS_Interval, LaserAssumption
<1>2. ts # 1..(MaxTimers + 1)
  BY <1>1, LaserAssumption
<1>3. \E t \in 1..(MaxTimers + 1) : t \notin ts
  BY <1>2
<1>. QED BY <1>3 DEF NewTimer

LEMMA OneTimerLess ==
  ASSUME NEW ts \in SUBSET (1..(MaxTimers + 1)), NEW t \in ts
  PROVE  NewTimer(ts \ {t}) \in 1..(MaxTimers + 1)
<1>1. \E u \in 1..(MaxTimers + 1) : u \notin ts \ {t}
  OBVIOUS
<1>. QED BY <1>1 DEF NewTimer

\* The next block of the group, or the end, is found; the blocks passed over are the laser's.
LEMMA SkipsLaser ==
  ASSUME NEW p \in Seq(Blocks), NEW i \in Nat, i <= Len(p) + 1
  PROVE  /\ Skips(p, i) \in Nat /\ i <= Skips(p, i) /\ Skips(p, i) <= Len(p) + 1
         /\ Skips(p, i) <= Len(p) => p[Skips(p, i)] \notin LaserBlocks
         /\ \A k \in i..(Skips(p, i) - 1) : p[k] \in LaserBlocks
<1> DEFINE T == {k \in i..Len(p) : p[k] \notin LaserBlocks} \cup {Len(p) + 1}
<1>1. T \in SUBSET Nat /\ T # {} /\ Len(p) + 1 \in T
  OBVIOUS
<1> DEFINE k0 == Min(T)
<1>2. k0 \in T /\ \A y \in T : k0 <= y
  BY <1>1, LeastNumber
<1>3. Skips(p, i) = k0
  BY DEF Skips
<1>4. \A k \in i..(k0 - 1) : k \in Nat /\ k <= Len(p) /\ k \notin T
  BY <1>1, <1>2
<1>5. ASSUME NEW k \in i..(k0 - 1) PROVE p[k] \in LaserBlocks
  BY <1>4
<1>6. k0 \in Nat /\ i <= k0 /\ k0 <= Len(p) + 1 /\ (k0 <= Len(p) => p[k0] \notin LaserBlocks)
  BY <1>1, <1>2
<1> HIDE DEF k0
<1>. QED BY <1>3, <1>5, <1>6

\* A program that there is, is one of those a program can be.
LEMMA NoneIsNone ==
  ASSUME NEW p \in Programs \cup {<<>>}
  PROVE  p # None /\ p \in Seq(Blocks)
<1>1. p \in Seq(Blocks)
  <2>1. Programs \subseteq Seq(Blocks)
    BY LaserAssumption
  <2>2. <<>> \in Seq(Blocks)
    OBVIOUS
  <2>. QED BY <2>1, <2>2
<1>2. Len(p) = 1 => p[1] \in Blocks
  BY <1>1
<1>3. Len(None) = 1 /\ None[1] = "no program"
  BY DEF None
<1>4. ASSUME p = None PROVE FALSE
  <2>1. "no program" \in Blocks
    <3>1. Len(p) = 1 /\ p[1] = "no program"
      BY <1>3, <1>4
    <3>2. p[1] \in Blocks
      BY <1>2, <3>1
    <3>. QED BY <3>1, <3>2
  <2>. QED BY <2>1 DEF Blocks
<1>. QED BY <1>1, <1>4

\* A block that the axes carry out, from rest.
LEMMA BlockRuns ==
  ASSUME LaserTypeOK, BothReady, NEW b, b \in {"line", "curve", "other"}, NEW ts, runBlock(b, ts),
         ts \subseteq 1..(MaxTimers + 1), NewTimer(ts) \in 1..(MaxTimers + 1)
  PROVE  /\ dead' = dead /\ ax' \in [Axes -> {"ready", "moving"}]
         /\ timers' \subseteq 1..(MaxTimers + 1) /\ timerId' \in 0..(MaxTimers + 1)
<1>1. ~ \E a \in Axes : InMotion(a)
  BY DEF BothReady, InMotion
<1>2. ax \in [Axes -> {"ready", "moving"}]
  BY DEF BothReady, LaserTypeOK
<1>0. 0 \in 0..(MaxTimers + 1)
  BY LaserAssumption
<1>3. CASE b \in {"line", "curve"}
  <2>1. moveAxes
    BY <1>3 DEF runBlock
  <2>2. dead' = dead /\ ax' \in [Axes -> {"ready", "moving"}]
    BY <1>1, <2>1 DEF moveAxes
  <2>3. timers' = ts \cup {NewTimer(ts)} /\ timerId' \in {0, NewTimer(ts)}
    BY <1>3 DEF runBlock
  <2>4. NewTimer(ts) \in 0..(MaxTimers + 1)
    BY LaserAssumption
  <2> HIDE DEF NewTimer
  <2>. QED BY <1>0, <2>2, <2>3, <2>4
<1>4. CASE b = "other"
  BY <1>0, <1>2, <1>4 DEF runBlock
<1>. QED BY <1>3, <1>4

\* The next block of a program, from its block i and from rest.
LEMMA NextBlock ==
  ASSUME LaserTypeOK, BothReady, NEW p \in Programs \cup {<<>>}, NEW i \in Nat, i <= Len(p),
         NEW ts, run_next(p, i, ts),
         ts \subseteq 1..(MaxTimers + 1), NewTimer(ts) \in 1..(MaxTimers + 1)
  PROVE  /\ prog' = p /\ beam' \in BOOLEAN /\ reset' = (reset /\ i >= Len(p)) /\ dead' = dead
         /\ pid' \in Nat /\ pid' <= Len(p)
         /\ timers' \subseteq 1..(MaxTimers + 1) /\ timerId' \in 0..(MaxTimers + 1)
         /\ \/ /\ inProgram' = FALSE /\ pid' = Len(p) /\ ax' = ax /\ timers' = ts
            \/ /\ inProgram' = TRUE /\ ax' \in [Axes -> {"ready", "moving"}] /\ i < Len(p)
               /\ \A k \in (i + 1)..(pid' - 1) : p[k] \in LaserBlocks
<1> DEFINE k == Skips(p, i + 1)
<1>1. p \in Seq(Blocks) /\ Len(p) \in Nat
  BY NoneIsNone
<1>2. /\ k \in Nat /\ i + 1 <= k /\ k <= Len(p) + 1
      /\ k <= Len(p) => p[k] \notin LaserBlocks
      /\ \A j \in (i + 1)..(k - 1) : p[j] \in LaserBlocks
  BY <1>1, SkipsLaser
<1>3. /\ prog' = p /\ beam' = Lit(p, i + 1, k) /\ reset' = (reset /\ i >= Len(p))
      /\ IF k > Len(p)
         THEN /\ pid' = Len(p) /\ inProgram' = FALSE
              /\ timers' = ts /\ timerId' = 0 /\ UNCHANGED <<ax, dead>>
         ELSE /\ pid' = k /\ inProgram' = TRUE /\ runBlock(p[k], ts)
  BY DEF run_next, Next1
<1> HIDE DEF k
<1>4. beam' \in BOOLEAN
  <2>1. Lit(p, i + 1, k) \in BOOLEAN
    BY DEF Lit, LaserTypeOK
  <2>. QED BY <1>3, <2>1
<1>5. CASE k > Len(p)
  <2>1. /\ pid' = Len(p) /\ inProgram' = FALSE
        /\ timers' = ts /\ timerId' = 0 /\ UNCHANGED <<ax, dead>>
    BY <1>3, <1>5
  <2>2. 0 \in 0..(MaxTimers + 1)
    BY LaserAssumption
  <2>. QED BY <1>1, <1>3, <1>4, <2>1, <2>2
<1>6. CASE k <= Len(p)
  <2>1. p[k] \in {"line", "curve", "other"}
    BY <1>1, <1>2, <1>6 DEF Blocks, LaserBlocks
  <2>2. pid' = k /\ inProgram' = TRUE /\ runBlock(p[k], ts)
    BY <1>1, <1>2, <1>3, <1>6
  <2>3. /\ dead' = dead /\ ax' \in [Axes -> {"ready", "moving"}]
        /\ timers' \subseteq 1..(MaxTimers + 1) /\ timerId' \in 0..(MaxTimers + 1)
    BY <2>1, <2>2, BlockRuns
  <2>4. i < Len(p) /\ \A j \in (i + 1)..(pid' - 1) : p[j] \in LaserBlocks
    BY <1>1, <1>2, <1>6, <2>2
  <2>5. prog' = p /\ reset' = (reset /\ i >= Len(p))
    BY <1>3
  <2>6. pid' \in Nat /\ pid' <= Len(p)
    BY <1>2, <1>6, <2>2
  <2>. QED BY <1>4, <2>2, <2>3, <2>4, <2>5, <2>6
<1>7. k > Len(p) \/ k <= Len(p)
  BY <1>1, <1>2
<1>. QED BY <1>5, <1>6, <1>7

\* All the operator is assumed to respect.
Respected == {"clean", "held", "still", "motion", "dark"} \subseteq LaserCalm

LEMMA KeepStart ==
  ASSUME Respected, LaserInv, Start
  PROVE  LaserInv' /\ BlockByBlock
<1>1. PICK p \in Programs : run_next(p, pid, timers)
  BY DEF Start
<1>2. mode = "AUTO" /\ reset /\ ~Jogging /\ holding' = FALSE /\ mode' = mode
  BY DEF Start, Respected
<1>3. timers = {} /\ pid = 0 /\ ~inProgram
  BY <1>2 DEF LaserInv, ProgramInv
<1>4. BothReady
  BY <1>2, <1>3 DEF LaserInv, AxesInv, BothReady, Jogging
<1>5. p \in Programs \cup {<<>>} /\ p # None /\ Len(p) \in Nat
  BY NoneIsNone
<1>6. NewTimer(timers) \in 1..(MaxTimers + 1)
  <2>1. 1 \in 1..(MaxTimers + 1) /\ 1 \notin timers
    BY <1>3, LaserAssumption
  <2>. QED BY <2>1 DEF NewTimer
<1>7. /\ prog' = p /\ beam' \in BOOLEAN /\ reset' = (reset /\ pid >= Len(p)) /\ dead' = dead
      /\ pid' \in Nat /\ pid' <= Len(p)
      /\ timers' \subseteq 1..(MaxTimers + 1) /\ timerId' \in 0..(MaxTimers + 1)
      /\ \/ /\ inProgram' = FALSE /\ pid' = Len(p) /\ ax' = ax /\ timers' = timers
         \/ /\ inProgram' = TRUE /\ ax' \in [Axes -> {"ready", "moving"}] /\ pid < Len(p)
            /\ \A k \in (pid + 1)..(pid' - 1) : p[k] \in LaserBlocks
  <2>1. pid \in Nat /\ pid <= Len(p) /\ timers \subseteq 1..(MaxTimers + 1) /\ LaserTypeOK
    BY <1>3, <1>5 DEF LaserInv
  <2>. QED BY <1>1, <1>4, <1>5, <1>6, <2>1, NextBlock
<1>8. reset' <=> Len(p) = 0
  <2>1. reset' <=> reset /\ pid >= Len(p)
    BY <1>7
  <2>. QED BY <1>2, <1>3, <1>5, <2>1
<1>9. LaserTypeOK'
  <2>1. prog' \in Programs \cup {<<>>, None} /\ (prog' # None => pid' <= Len(prog'))
    BY <1>5, <1>7
  <2>2. reset' \in BOOLEAN /\ inProgram' \in BOOLEAN
    BY <1>7
  <2>3. ax' \in [Axes -> {"ready", "moving", "held", "jog"}]
    BY <1>7 DEF LaserInv, LaserTypeOK
  <2>4. mode' \in {"AUTO", "JOG", "EDIT"} /\ dead' \in {"no", "hung", "crashed"} /\ holding' \in BOOLEAN
    BY <1>2, <1>7 DEF LaserInv, LaserTypeOK
  <2>. QED BY <1>7, <2>1, <2>2, <2>3, <2>4 DEF LaserTypeOK
<1>10. ProgramInv'
  <2>1. prog' = p /\ prog' # None
    BY <1>5, <1>7
  <2>2. ASSUME Len(p) = 0 PROVE timers' = {} /\ pid' = 0 /\ ~inProgram'
    BY <1>3, <1>5, <1>7, <2>2
  <2>3. ~inProgram' => pid' = Len(prog')
    BY <1>7
  <2>. QED BY <1>8, <2>1, <2>2, <2>3 DEF ProgramInv
<1>11. AxesInv'
  BY <1>2, <1>4, <1>7 DEF AxesInv, BothReady
<1>12. BlockByBlock
  BY <1>4, <1>7 DEF BlockByBlock
<1>. QED BY <1>5, <1>7, <1>9, <1>10, <1>11, <1>12 DEF LaserInv

LEMMA KeepTick ==
  ASSUME LaserInv, NEW t \in timers, Tick(t)
  PROVE  LaserInv' /\ BlockByBlock
<1>1. BothReady /\ mode' = mode /\ holding' = holding /\ ~reset /\ prog # None
  <2>1. timers # {} /\ ~reset
    BY DEF LaserInv, ProgramInv
  <2>. QED BY <2>1 DEF LaserInv, ProgramInv, Tick, Completed
<1>2. run_next(prog, pid, timers \ {t})
  BY <1>1 DEF Tick
<1>3. prog \in Programs \cup {<<>>} /\ Len(prog) \in Nat /\ pid \in Nat /\ pid <= Len(prog)
  <2>1. prog \in Programs \cup {<<>>} /\ pid \in Nat /\ pid <= Len(prog)
    BY <1>1 DEF LaserInv, LaserTypeOK
  <2>. QED BY <2>1, NoneIsNone
<1>4. timers \subseteq 1..(MaxTimers + 1)
  BY DEF LaserInv, LaserTypeOK
<1>5. NewTimer(timers \ {t}) \in 1..(MaxTimers + 1)
  BY <1>4, OneTimerLess
<1>6. /\ prog' = prog /\ beam' \in BOOLEAN /\ reset' = (reset /\ pid >= Len(prog)) /\ dead' = dead
      /\ pid' \in Nat /\ pid' <= Len(prog)
      /\ timers' \subseteq 1..(MaxTimers + 1) /\ timerId' \in 0..(MaxTimers + 1)
      /\ \/ /\ inProgram' = FALSE /\ pid' = Len(prog) /\ ax' = ax /\ timers' = timers \ {t}
         \/ /\ inProgram' = TRUE /\ ax' \in [Axes -> {"ready", "moving"}] /\ pid < Len(prog)
            /\ \A k \in (pid + 1)..(pid' - 1) : prog[k] \in LaserBlocks
  <2>1. LaserTypeOK /\ timers \ {t} \subseteq 1..(MaxTimers + 1)
    BY <1>4 DEF LaserInv
  <2>. QED BY <1>1, <1>2, <1>3, <1>5, <2>1, NextBlock
<1>7. reset' = FALSE
  BY <1>1, <1>6
<1>8. LaserTypeOK'
  <2>1. prog' \in Programs \cup {<<>>, None} /\ (prog' # None => pid' <= Len(prog'))
    BY <1>3, <1>6
  <2>2. reset' \in BOOLEAN /\ inProgram' \in BOOLEAN
    BY <1>6, <1>7
  <2>3. ax' \in [Axes -> {"ready", "moving", "held", "jog"}]
    BY <1>6 DEF LaserInv, LaserTypeOK
  <2>4. mode' \in {"AUTO", "JOG", "EDIT"} /\ dead' \in {"no", "hung", "crashed"} /\ holding' \in BOOLEAN
    BY <1>1, <1>6 DEF LaserInv, LaserTypeOK
  <2>. QED BY <1>6, <2>1, <2>2, <2>3, <2>4 DEF LaserTypeOK
<1>9. ProgramInv'
  BY <1>1, <1>6, <1>7 DEF ProgramInv
<1>10. inProgram' => inProgram /\ mode = "AUTO" /\ ~holding
  <2>1. inProgram' => inProgram
    BY <1>1, <1>3, <1>6 DEF LaserInv, ProgramInv
  <2>2. inProgram => mode = "AUTO" /\ ~holding
    BY <1>1 DEF LaserInv, AxesInv, BothReady, LaserTypeOK
  <2>. QED BY <2>1, <2>2
<1>11. AxesInv'
  BY <1>1, <1>6, <1>10 DEF AxesInv, BothReady
<1>12. BlockByBlock
  BY <1>1, <1>6 DEF BlockByBlock
<1>. QED BY <1>1, <1>6, <1>8, <1>9, <1>11, <1>12 DEF LaserInv

LEMMA KeepContinue ==
  ASSUME Respected, LaserInv, Continue
  PROVE  LaserInv' /\ BlockByBlock
<1>1. /\ mode = "AUTO" /\ inProgram /\ ~reset /\ (\A a \in Axes : ax[a] = "held")
      /\ Cardinality(timers) < MaxTimers
      /\ ax' = [a \in Axes |-> "moving"] /\ timers' = Watched /\ holding' = FALSE
      /\ UNCHANGED <<mode, prog, pid, inProgram, reset, beam, dead, timerId>>
  BY DEF Continue, Respected, resume, m_paused, program
<1>2. timers' \subseteq 1..(MaxTimers + 1)
  <2>1. timers \in SUBSET (1..(MaxTimers + 1))
    BY DEF LaserInv, LaserTypeOK
  <2>2. Cardinality(timers) <= MaxTimers
    <3>1. IsFiniteSet(1..(MaxTimers + 1))
      BY FS_Interval, LaserAssumption
    <3>2. Cardinality(timers) \in Nat
      BY <2>1, <3>1, FS_Subset, FS_CardinalityType
    <3>. QED BY <1>1, <3>2, LaserAssumption
  <2>3. NewTimer(timers) \in 1..(MaxTimers + 1)
    BY <2>1, <2>2, TimersLeft
  <2>. QED BY <1>1, <2>1, <2>3 DEF Watched
<1>3. LaserTypeOK'
  BY <1>1, <1>2 DEF LaserInv, LaserTypeOK
<1>4. ProgramInv'
  BY <1>1 DEF LaserInv, ProgramInv
<1>5. AxesInv'
  BY <1>1 DEF AxesInv
<1>6. BlockByBlock
  BY <1>1 DEF BlockByBlock
<1>. QED BY <1>1, <1>3, <1>4, <1>5, <1>6 DEF LaserInv

LEMMA KeepHold ==
  ASSUME Respected, LaserInv, hold
  PROVE  LaserInv' /\ BlockByBlock
<1>1. UNCHANGED <<mode, prog, pid, inProgram, reset, beam, dead>>
  BY DEF hold, program
<1>2. BlockByBlock
  BY <1>1 DEF BlockByBlock
<1>3. CASE inProgram
  <2>1. /\ ax' = [a \in Axes |-> IF InMotion(a) THEN "held" ELSE ax[a]]
        /\ timers' = timers \ {timerId} /\ timerId' = 0 /\ holding' = TRUE
        /\ \E a \in Axes : InMotion(a)
    BY <1>3 DEF hold, Respected, Paused, Killed
  <2>2. ax' \in [Axes -> {"ready", "held"}]
    BY <2>1 DEF LaserInv, LaserTypeOK, InMotion
  <2>3. LaserTypeOK'
    BY <1>1, <2>1, <2>2, LaserAssumption DEF LaserInv, LaserTypeOK
  <2>4. ProgramInv'
    BY <1>1, <1>3, <2>1 DEF LaserInv, ProgramInv
  <2>5. AxesInv'
    BY <1>1, <1>3, <2>1, <2>2 DEF LaserInv, AxesInv, InMotion
  <2>. QED BY <1>1, <1>2, <2>3, <2>4, <2>5 DEF LaserInv
<1>4. CASE ~inProgram
  <2>1. UNCHANGED <<ax, timers, timerId, holding>>
    BY <1>4 DEF hold, watch
  <2>2. LaserTypeOK'
    BY <1>1, <2>1 DEF LaserInv, LaserTypeOK
  <2>3. ProgramInv' /\ AxesInv'
    BY <1>1, <2>1 DEF LaserInv, ProgramInv, AxesInv, InMotion
  <2>. QED BY <1>1, <1>2, <2>2, <2>3 DEF LaserInv
<1>. QED BY <1>3, <1>4

LEMMA KeepResetAll ==
  ASSUME Respected, LaserInv, ResetAll
  PROVE  LaserInv' /\ BlockByBlock
<1>1. /\ ax' = [a \in Axes |-> "ready"] /\ timers' = {} /\ timerId' = 0
      /\ beam' = FALSE /\ prog' = None /\ pid' = 0 /\ inProgram' = FALSE /\ reset' = TRUE
      /\ holding' = FALSE /\ UNCHANGED <<mode, dead>>
  BY DEF ResetAll, Respected, Off, Killed
<1>2. LaserTypeOK'
  <2>1. 0 \in 0..(MaxTimers + 1) /\ {} \subseteq 1..(MaxTimers + 1)
    BY LaserAssumption
  <2>2. ax' \in [Axes -> {"ready", "moving", "held", "jog"}] /\ None \in Programs \cup {<<>>, None}
    BY <1>1
  <2>3. /\ inProgram' \in BOOLEAN /\ reset' \in BOOLEAN /\ beam' \in BOOLEAN /\ holding' \in BOOLEAN
    BY <1>1
  <2>. QED BY <1>1, <2>1, <2>2, <2>3 DEF LaserInv, LaserTypeOK
<1>3. ProgramInv' /\ AxesInv'
  BY <1>1 DEF ProgramInv, AxesInv
<1>4. BlockByBlock
  BY <1>1 DEF BlockByBlock
<1>. QED BY <1>1, <1>2, <1>3, <1>4 DEF LaserInv

LEMMA KeepJogs ==
  ASSUME LaserInv, NEW a \in Axes, jog(a) \/ Arrive(a)
  PROVE  LaserInv' /\ BlockByBlock
<1>1. UNCHANGED <<mode, prog, pid, inProgram, reset, timers, timerId, beam, dead, holding>>
  BY DEF jog, Arrive, program, watch
<1>2. \/ /\ ~inProgram
         /\ ax' = ax \/ ax' = [ax EXCEPT ![a] = "jog"]
      \/ InMotion(a) /\ ax' = [ax EXCEPT ![a] = "ready"]
  <2>1. CASE jog(a)
    <3>1. mode = "JOG"
      BY <2>1 DEF jog
    <3>2. ~inProgram
      BY <3>1 DEF LaserInv, AxesInv
    <3>3. ax' = [ax EXCEPT ![a] = ax[a]] \/ ax' = [ax EXCEPT ![a] = "jog"]
      BY <2>1 DEF jog
    <3>4. [ax EXCEPT ![a] = ax[a]] = ax
      BY DEF LaserInv, LaserTypeOK
    <3>. QED BY <3>2, <3>3, <3>4
  <2>2. CASE Arrive(a)
    BY <2>2 DEF Arrive
  <2>. QED BY <2>1, <2>2
<1>3. LaserTypeOK'
  BY <1>1, <1>2 DEF LaserInv, LaserTypeOK
<1>4. ProgramInv'
  BY <1>1 DEF LaserInv, ProgramInv
<1>5. AxesInv'
  BY <1>1, <1>2 DEF LaserInv, LaserTypeOK, AxesInv, InMotion
<1>6. BlockByBlock
  BY <1>1 DEF BlockByBlock
<1>. QED BY <1>1, <1>3, <1>4, <1>5, <1>6 DEF LaserInv

LEMMA LaserStart == LaserInit => LaserInv
<1> SUFFICES ASSUME LaserInit PROVE LaserInv
  OBVIOUS
<1>1. prog = <<>> /\ Len(prog) = 0 /\ prog # None
  BY NoneIsNone DEF LaserInit
<1>2. LaserTypeOK
  <2>1. timerId \in 0..(MaxTimers + 1) /\ timers \subseteq 1..(MaxTimers + 1)
    BY LaserAssumption DEF LaserInit
  <2>2. ax \in [Axes -> {"ready", "moving", "held", "jog"}] /\ prog \in Programs \cup {<<>>, None}
    BY DEF LaserInit
  <2>3. /\ inProgram \in BOOLEAN /\ reset \in BOOLEAN /\ beam \in BOOLEAN /\ holding \in BOOLEAN
    BY DEF LaserInit
  <2>. QED BY <1>1, <2>1, <2>2, <2>3 DEF LaserInit, LaserTypeOK
<1>. QED BY <1>1, <1>2 DEF LaserInit, LaserInv, ProgramInv, AxesInv

LEMMA LaserSteps == Respected /\ LaserInv /\ [LaserNext]_laserVars => LaserInv' /\ [BlockByBlock]_laserVars
<1> SUFFICES ASSUME Respected, LaserInv, [LaserNext]_laserVars PROVE LaserInv' /\ [BlockByBlock]_laserVars
  OBVIOUS
<1>1. CASE modeChange
  <2>1. ~inProgram /\ mode' \in {"AUTO", "JOG", "EDIT"}
        /\ UNCHANGED <<prog, pid, inProgram, reset, ax, timers, timerId, beam, dead, holding>>
    BY <1>1 DEF modeChange, program, watch
  <2>2. LaserTypeOK'
    BY <2>1 DEF LaserInv, LaserTypeOK
  <2>3. ProgramInv' /\ AxesInv' /\ BlockByBlock
    BY <2>1 DEF LaserInv, ProgramInv, AxesInv, InMotion, BlockByBlock
  <2>. QED BY <2>1, <2>2, <2>3 DEF LaserInv
<1>2. CASE LaserPanel
  <2>1. ~reset /\ beam' \in BOOLEAN
        /\ UNCHANGED <<mode, prog, pid, inProgram, reset, ax, timers, timerId, dead, holding>>
    BY <1>2 DEF LaserPanel, Respected, program, watch
  <2>2. LaserTypeOK'
    BY <2>1 DEF LaserInv, LaserTypeOK
  <2>3. ProgramInv' /\ AxesInv' /\ BlockByBlock
    BY <2>1 DEF LaserInv, ProgramInv, AxesInv, InMotion, BlockByBlock
  <2>. QED BY <2>1, <2>2, <2>3 DEF LaserInv, ProgramInv
<1>3. CASE UNCHANGED laserVars
  <2>1. UNCHANGED <<mode, prog, pid, inProgram, reset, ax, timers, timerId, beam, dead, holding>>
    BY <1>3 DEF laserVars, program, watch
  <2>2. LaserTypeOK'
    BY <2>1 DEF LaserInv, LaserTypeOK
  <2>3. ProgramInv' /\ AxesInv'
    BY <2>1 DEF LaserInv, ProgramInv, AxesInv, InMotion
  <2>. QED BY <1>3, <2>1, <2>2, <2>3 DEF LaserInv
<1>. QED BY <1>1, <1>2, <1>3, KeepStart, KeepContinue, KeepHold, KeepResetAll, KeepJogs, KeepTick
         DEF LaserNext

\* The laser machine keeps its invariant, for any set of programs (pincLaser2D).
THEOREM LaserInvHolds == ASSUME Respected PROVE LaserSpec => []LaserInv
<1>1. LaserInit => LaserInv
  BY LaserStart
<1>2. LaserInv /\ [LaserNext]_laserVars => LaserInv'
  BY LaserSteps
<1>. QED BY <1>1, <1>2, PTL DEF LaserSpec

\* Programs run block by block, hold and reset hold, and no handler hangs or finds
\* a null pointer (pincLaser2D::run, hold, reset, run_next).
THEOREM LaserIsCorrect == ASSUME Respected PROVE LaserSpec => LaserCorrect
<1>1. LaserInv => LaserTypeOK /\ NeverHangs /\ NeverCrashes /\ HoldHolds /\ ResetDark
  <2> SUFFICES ASSUME LaserInv PROVE LaserTypeOK /\ NeverHangs /\ NeverCrashes /\ HoldHolds /\ ResetDark
    OBVIOUS
  <2>1. LaserTypeOK /\ NeverHangs /\ NeverCrashes
    BY DEF LaserInv, NeverHangs, NeverCrashes
  <2>2. HoldHolds
    BY DEF LaserInv, AxesInv, HoldHolds
  <2>3. ResetDark
    BY DEF LaserInv, AxesInv, ResetDark
  <2>. QED BY <2>1, <2>2, <2>3
<1>2. LaserInv /\ [LaserNext]_laserVars => [BlockByBlock]_laserVars
  BY LaserSteps
<1>. QED BY <1>1, <1>2, LaserInvHolds, PTL DEF LaserSpec, LaserCorrect

-----------------------------------------------------------------------------
(* The paths of the ESP32 axis. *)

\* A point of a walk around a circle and the steps along each axis until there.
Leg == [end : Point, own : Point]
Further(so, r, cw) ==
  LET s == CircularStep(so.end, r, cw)
  IN  [end |-> Moved(so.end, s.axis, s.by), own |-> Moved(so.own, s.axis, 1)]
FirstLeg(r, i) == [end |-> Corner(r, i), own |-> Zero]

LEMMA PointAt == ASSUME NEW x \in Int, NEW y \in Int
                 PROVE  At(x, y) \in Point /\ At(x, y)["X"] = x /\ At(x, y)["Y"] = y
  BY DEF At, Point, XY

LEMMA MovedPoint ==
  ASSUME NEW p \in Point, NEW a \in XY, NEW d \in Int
  PROVE  /\ Moved(p, a, d) \in Point /\ Moved(p, a, d)[a] = p[a] + d
         /\ \A b \in XY \ {a} : Moved(p, a, d)[b] = p[b]
  BY DEF Moved, Point

LEMMA MovedBy ==
  ASSUME NEW p \in Point, NEW a \in XY, NEW b \in XY, NEW d \in Int
  PROVE  Moved(p, a, d)[b] = p[b] + (IF a = b THEN d ELSE 0)
<1>1. p[b] \in Int
  BY DEF Point
<1>2. CASE a = b
  BY <1>1, <1>2, MovedPoint
<1>3. CASE a # b
  BY <1>1, <1>3, MovedPoint
<1>. QED BY <1>2, <1>3

LEMMA Corners4 ==
  ASSUME NEW r \in Nat, NEW i \in 0..3
  PROVE  /\ Corner(r, i) \in Point
         /\ i = 0 => Corner(r, i)["X"] = r /\ Corner(r, i)["Y"] = 0
         /\ i = 1 => Corner(r, i)["X"] = 0 /\ Corner(r, i)["Y"] = r
         /\ i = 2 => Corner(r, i)["X"] = -r /\ Corner(r, i)["Y"] = 0
         /\ i = 3 => Corner(r, i)["X"] = 0 /\ Corner(r, i)["Y"] = -r
<1>1. /\ i = 0 => Corner(r, i) = At(r, 0)
      /\ i = 1 => Corner(r, i) = At(0, r)
      /\ i = 2 => Corner(r, i) = At(-r, 0)
      /\ i = 3 => Corner(r, i) = At(0, -r)
  BY DEF Corner
<1>2. r \in Int /\ -r \in Int /\ 0 \in Int
  OBVIOUS
<1>3. i = 0 \/ i = 1 \/ i = 2 \/ i = 3
  OBVIOUS
<1>. QED BY <1>1, <1>2, <1>3, PointAt

LEMMA FirstIsLeg ==
  ASSUME NEW r \in Nat, NEW i \in 0..3
  PROVE  FirstLeg(r, i) \in Leg
  BY Corners4, PointAt DEF FirstLeg, Leg, Zero

LEMMA StepTypes ==
  ASSUME NEW p, NEW r, NEW cw
  PROVE  CircularStep(p, r, cw).axis \in XY /\ CircularStep(p, r, cw).by \in {1, -1}
  BY DEF CircularStep, Along, Sign, XY

LEMMA FurtherLeg ==
  ASSUME NEW so \in Leg, NEW r, NEW cw
  PROVE  /\ Further(so, r, cw) \in Leg
         /\ LET s == CircularStep(so.end, r, cw) IN
            /\ Further(so, r, cw).end = Moved(so.end, s.axis, s.by)
            /\ Further(so, r, cw).own = Moved(so.own, s.axis, 1)
<1> DEFINE s == CircularStep(so.end, r, cw)
<1>1. s.axis \in XY /\ s.by \in Int
  BY StepTypes
<1>2. so.end \in Point /\ so.own \in Point
  BY DEF Leg
<1> HIDE DEF s
<1>3. Moved(so.end, s.axis, s.by) \in Point /\ Moved(so.own, s.axis, 1) \in Point
  BY <1>1, <1>2, MovedPoint
<1>. QED BY <1>3 DEF Further, Leg, s

\* There is a walk of any number of steps.
LEMMA WalkExists ==
  ASSUME NEW r \in Nat, NEW i \in 0..3, NEW cw \in BOOLEAN, NEW m \in Nat
  PROVE  \E f \in [0..m -> Leg] :
            f[0] = FirstLeg(r, i) /\ \A k \in 1..m : f[k] = Further(f[k - 1], r, cw)
<1> DEFINE Exists(n) == \E f \in [0..n -> Leg] :
              f[0] = FirstLeg(r, i) /\ \A k \in 1..n : f[k] = Further(f[k - 1], r, cw)
           T == {n \in Nat : ~Exists(n)}
<1>1. Exists(0)
  <2>1. FirstLeg(r, i) \in Leg
    BY FirstIsLeg
  <2> DEFINE f == [k \in 0..0 |-> FirstLeg(r, i)]
  <2>2. f \in [0..0 -> Leg] /\ f[0] = FirstLeg(r, i) /\ 1..0 = {}
    BY <2>1
  <2>. QED BY <2>2
<1>2. ASSUME NEW n \in Nat, Exists(n) PROVE Exists(n + 1)
  <2>1. PICK f \in [0..n -> Leg] :
              f[0] = FirstLeg(r, i) /\ \A k \in 1..n : f[k] = Further(f[k - 1], r, cw)
    BY <1>2
  <2>2. Further(f[n], r, cw) \in Leg
    BY <2>1, FurtherLeg
  <2> DEFINE g == [k \in 0..(n + 1) |-> IF k = n + 1 THEN Further(f[n], r, cw) ELSE f[k]]
  <2>3. \A k \in 0..n : g[k] = f[k]
    BY <2>1
  <2>4. g[n + 1] = Further(f[n], r, cw)
    OBVIOUS
  <2>5. g \in [0..(n + 1) -> Leg]
    <3>1. \A k \in 0..(n + 1) : k # n + 1 => k \in 0..n
      OBVIOUS
    <3>. QED BY <2>1, <2>2, <3>1
  <2>6. g[0] = FirstLeg(r, i)
    BY <2>1, <2>3
  <2> HIDE DEF g
  <2>7. ASSUME NEW k \in 1..(n + 1) PROVE g[k] = Further(g[k - 1], r, cw)
    <3>1. k - 1 \in 0..n /\ g[k - 1] = f[k - 1]
      BY <2>3
    <3>2. CASE k = n + 1
      <4>1. k - 1 = n
        BY <3>2
      <4>. QED BY <2>4, <3>1, <3>2, <4>1
    <3>3. CASE k # n + 1
      <4>1. k \in 1..n /\ k \in 0..n
        BY <3>3
      <4>. QED BY <2>1, <2>3, <3>1, <4>1
    <3>. QED BY <3>2, <3>3
  <2>. QED BY <2>5, <2>6, <2>7
<1> HIDE DEF Exists
<1>3. T = {}
  <2> SUFFICES ASSUME T # {} PROVE FALSE
    OBVIOUS
  <2>1. Min(T) \in T /\ \A y \in T : Min(T) <= y
    BY LeastNumber
  <2>2. Min(T) \in Nat /\ Min(T) # 0
    BY <1>1, <2>1
  <2>3. Min(T) - 1 \in Nat /\ Min(T) - 1 \notin T
    BY <2>1, <2>2
  <2>4. Exists(Min(T) - 1)
    BY <2>3
  <2>5. Exists(Min(T) - 1 + 1)
    BY <1>2, <2>3, <2>4
  <2>6. Min(T) - 1 + 1 = Min(T)
    BY <2>2
  <2>. QED BY <2>1, <2>5, <2>6
<1>. QED BY <1>3 DEF Exists

\* So the walk of the model is what its recursion says.
LEMMA WalkIs ==
  ASSUME NEW r \in Nat, NEW i \in 0..3, NEW cw \in BOOLEAN
  PROVE  /\ Walk(r, i, cw) \in [0..(8 * r) -> Leg]
         /\ Walk(r, i, cw)[0] = FirstLeg(r, i)
         /\ \A n \in 1..(8 * r) :
              Walk(r, i, cw)[n] = Further(Walk(r, i, cw)[n - 1], r, cw)
<1> DEFINE Is(f) == f = [n \in 0..(8 * r) |->
                          IF n = 0 THEN FirstLeg(r, i) ELSE Further(f[n - 1], r, cw)]
<1>1. 8 * r \in Nat
  OBVIOUS
<1>2. PICK f \in [0..(8 * r) -> Leg] :
            f[0] = FirstLeg(r, i) /\ \A k \in 1..(8 * r) : f[k] = Further(f[k - 1], r, cw)
  BY <1>1, WalkExists
<1>3. Is(f)
  <2>1. \A n \in 0..(8 * r) : n # 0 => n \in 1..(8 * r)
    BY <1>1
  <2>2. \A n \in 0..(8 * r) : f[n] = IF n = 0 THEN FirstLeg(r, i) ELSE Further(f[n - 1], r, cw)
    BY <1>2, <2>1
  <2>. QED BY <1>2, <2>2
<1>4. Walk(r, i, cw) = CHOOSE g : Is(g)
  BY DEF Walk, FirstLeg, Further
<1>5. Is(Walk(r, i, cw))
  <2> HIDE DEF Is
  <2>. QED BY <1>3, <1>4
<1> DEFINE w == Walk(r, i, cw)
           T == {n \in 0..(8 * r) : w[n] \notin Leg}
<1>6. /\ DOMAIN w = 0..(8 * r)
      /\ \A n \in 0..(8 * r) : w[n] = IF n = 0 THEN FirstLeg(r, i) ELSE Further(w[n - 1], r, cw)
      /\ w = [n \in 0..(8 * r) |-> w[n]]
  <2>1. w = [n \in 0..(8 * r) |-> IF n = 0 THEN FirstLeg(r, i) ELSE Further(w[n - 1], r, cw)]
    BY <1>5
  <2> HIDE DEF w
  <2>. QED BY <2>1
<1> HIDE DEF w
<1>7. w[0] = FirstLeg(r, i)
  <2>1. 0 \in 0..(8 * r)
    BY <1>1
  <2>2. w[0] = IF 0 = 0 THEN FirstLeg(r, i) ELSE Further(w[0 - 1], r, cw)
    BY <2>1, <1>6, Zenon
  <2>. QED BY <2>2
<1>8. T = {}
  <2> SUFFICES ASSUME T # {} PROVE FALSE
    OBVIOUS
  <2>1. T \in SUBSET Nat /\ \A n \in 0..(8 * r) : n \in T <=> w[n] \notin Leg
    <3>1. T \subseteq 0..(8 * r) /\ 0..(8 * r) \subseteq Nat
      BY <1>1
    <3>. QED BY <3>1
  <2>2. FirstLeg(r, i) \in Leg
    BY FirstIsLeg
  <2>3. 0 \in 0..(8 * r)
    BY <1>1
  <2>4. \A n \in T : n \in 0..(8 * r)
    OBVIOUS
  <2> HIDE DEF T
  <2>5. PICK m \in T : \A y \in T : m <= y
    BY <2>1, LeastNumber
  <2>6. m \in 0..(8 * r) /\ w[m] \notin Leg /\ m # 0
    BY <1>7, <2>1, <2>2, <2>3, <2>5, <2>4
  <2>7. m - 1 \in 0..(8 * r) /\ ~(m <= m - 1)
    BY <1>1, <2>6
  <2>8. w[m - 1] \in Leg
    BY <2>1, <2>5, <2>7
  <2>9. w[m] = Further(w[m - 1], r, cw)
    BY <1>6, <2>6
  <2>. QED BY <2>6, <2>8, <2>9, FurtherLeg
<1>9. w \in [0..(8 * r) -> Leg]
  <2>1. \A n \in 0..(8 * r) : w[n] \in Leg
    BY <1>8
  <2>. QED BY <1>6, <2>1
<1>10. \A n \in 1..(8 * r) : w[n] = Further(w[n - 1], r, cw)
  <2>1. \A n \in 1..(8 * r) : n \in 0..(8 * r) /\ n # 0
    BY <1>1
  <2>. QED BY <1>6, <2>1
<1>. QED BY <1>7, <1>9, <1>10 DEF w

-----------------------------------------------------------------------------
(* Lines. *)

LEMMA DivFacts == ASSUME NEW a \in Nat, NEW b \in Nat \ {0}
                  PROVE  (a \div b) \in Nat /\ (a \div b) * b <= a
  BY SMTT(20)

LEMMA LessFactor == ASSUME NEW a \in Nat, NEW b \in Nat, NEW c \in Nat, a * c < b * c
                    PROVE  a < b
  BY SMTT(20)

LEMMA LessProduct == ASSUME NEW a \in Nat, NEW b \in Nat, NEW c \in Nat \ {0}, a < b
                     PROVE  c * a < c * b
  BY SMTT(20)

LEMMA AbsProduct == ASSUME NEW a \in Int, NEW b \in Int
                    PROVE  Abs(a * b) \in Nat /\ Abs(a * b) = Abs(a) * Abs(b)
  BY SMTT(20) DEF Abs

LEMMA ProductSign == ASSUME NEW a \in Int, NEW b \in Int
                     PROVE  /\ a > 0 => ((a * b < 0) <=> (b < 0))
                            /\ a < 0 => ((a * b < 0) <=> (b > 0))
                            /\ a * 0 = 0 /\ 0 * b = 0
  BY SMTT(20)

Within(n, a) == (0 <= n /\ n <= a) \/ (a <= n /\ n <= 0)

\* Before the end of the line in x, its height is short of the height of its
\* end: what the conversion to int loses is on the side of the start.
LEMMA TruncShort ==
  ASSUME NEW e \in Int, NEW d \in Int, NEW x \in Int, Within(x, d), x # d
  PROVE  LET t == Trunc(e * x, d) IN
         /\ t \in Int
         /\ e > 0 => 0 <= t /\ t < e
         /\ e < 0 => e < t /\ t <= 0
         /\ e = 0 => t = 0
<1> DEFINE q == Abs(e * x) \div Abs(d)
<1>1. d # 0 /\ Abs(d) \in Nat \ {0} /\ Abs(x) \in Nat /\ Abs(x) < Abs(d) /\ Abs(e) \in Nat
  BY DEF Within, Abs
<1>2. Abs(e * x) \in Nat /\ Abs(e * x) = Abs(e) * Abs(x)
  BY AbsProduct
<1>3. q \in Nat /\ q * Abs(d) <= Abs(e) * Abs(x)
  BY <1>1, <1>2, DivFacts
<1>4. e # 0 => q < Abs(e)
  <2> SUFFICES ASSUME e # 0 PROVE q < Abs(e)
    OBVIOUS
  <2>1. Abs(e) \in Nat \ {0}
    BY DEF Abs
  <2>2. Abs(e) * Abs(x) < Abs(e) * Abs(d)
    BY <1>1, <2>1, LessProduct
  <2>3. q * Abs(d) < Abs(e) * Abs(d)
    <3> HIDE DEF q
    <3>1. q * Abs(d) \in Int /\ Abs(e) * Abs(x) \in Int /\ Abs(e) * Abs(d) \in Int
      BY <1>1, <1>3
    <3>. QED BY <1>3, <2>2, <3>1
  <2>4. Abs(d) \in Nat
    BY <1>1
  <2> HIDE DEF q
  <2>. QED BY <1>1, <1>3, <2>3, <2>4, LessFactor
<1>5. x = 0 \/ e = 0 => q = 0
  <2> SUFFICES ASSUME x = 0 \/ e = 0 PROVE q = 0
    OBVIOUS
  <2>1. Abs(e) * Abs(x) = 0
    BY DEF Abs
  <2>2. Abs(e * x) = 0
    BY <1>2, <2>1
  <2>. QED BY <1>1, <2>2
<1>6. /\ x # 0 /\ e > 0 => ((e * x < 0) <=> (d < 0))
      /\ x # 0 /\ e < 0 => ((e * x < 0) <=> ~(d < 0))
  <2>1. /\ e > 0 => ((e * x < 0) <=> (x < 0))
        /\ e < 0 => ((e * x < 0) <=> (x > 0))
    BY ProductSign
  <2>2. x # 0 => ((x < 0) <=> (d < 0)) /\ ((x > 0) <=> ~(d < 0))
    BY DEF Within
  <2>. QED BY <2>1, <2>2
<1>7. Trunc(e * x, d) = IF (e * x < 0) = (d < 0) THEN q ELSE -q
  BY DEF Trunc
<1> HIDE DEF q
<1>8. Abs(e) = IF e < 0 THEN -e ELSE e
  BY DEF Abs
<1>9. CASE x = 0 \/ e = 0
  <2>1. Trunc(e * x, d) = 0
    BY <1>5, <1>7, <1>9
  <2>. QED BY <2>1
<1>10. CASE x # 0 /\ e > 0
  <2>1. Trunc(e * x, d) = q
    BY <1>6, <1>7, <1>10
  <2>. QED BY <1>3, <1>4, <1>8, <1>10, <2>1
<1>11. CASE x # 0 /\ e < 0
  <2>1. Trunc(e * x, d) = -q
    BY <1>6, <1>7, <1>11
  <2>. QED BY <1>3, <1>4, <1>8, <1>11, <2>1
<1>. QED BY <1>9, <1>10, <1>11

-----------------------------------------------------------------------------
(* Circles. *)

\* Squares of whole numbers, on both sides of 0.
LEMMA Square == ASSUME NEW a \in Int, NEW b \in Nat
                PROVE  /\ a * a \in Nat
                       /\ a >= b => a * a >= b * b
                       /\ a <= -b => a * a >= b * b
  BY SMTT(20)

\* Inside the circle no coordinate reaches the radius; outside, next to an axis,
\* the other one has it.
LEMMA Circle ==
  ASSUME NEW r \in Nat \ {0, 1}, NEW x \in (-r)..r, NEW y \in (-r)..r
  PROVE  /\ x * x + y * y < r * r => -r < x /\ x < r /\ -r < y /\ y < r
         /\ x * x + y * y >= r * r /\ x \in -1..1 => y = r \/ y = -r
         /\ x * x + y * y >= r * r /\ y \in -1..1 => x = r \/ x = -r
<1>1. x \in Int /\ y \in Int /\ r \in Nat /\ r - 1 \in Nat
  OBVIOUS
<1>2. x * x \in Nat /\ y * y \in Nat /\ r * r \in Nat
  BY <1>1, Square
<1>3. /\ x >= r => x * x >= r * r
      /\ x <= -r => x * x >= r * r
      /\ y >= r => y * y >= r * r
      /\ y <= -r => y * y >= r * r
  BY <1>1, Square
<1>4. /\ r - 1 >= x => -x >= -(r - 1)
      /\ (r - 1) * (r - 1) = r * r - 2 * r + 1
  BY <1>1, SMTT(20)
<1>5. ASSUME NEW z \in Int, -r < z, z < r PROVE z * z <= (r - 1) * (r - 1)
  <2>1. CASE z >= 0
    <3>1. z \in Nat /\ r - 1 >= z
      BY <1>5, <2>1
    <3>. QED BY <1>1, <3>1, Square
  <2>2. CASE z < 0
    <3>1. -z \in Nat /\ r - 1 >= -z /\ (-z) * (-z) = z * z
      BY <1>5, <2>2
    <3>2. (r - 1) * (r - 1) >= (-z) * (-z)
      BY <1>1, <3>1, Square
    <3>. QED BY <3>1, <3>2
  <2>. QED BY <1>5, <2>1, <2>2
<1>6. \A z \in -1..1 : z * z \in 0..1
  OBVIOUS
<1>7. x * x + y * y < r * r => -r < x /\ x < r /\ -r < y /\ y < r
  <2> DEFINE xx == x * x  yy == y * y  rr == r * r
  <2> HIDE DEF xx, yy, rr
  <2>1. xx \in Nat /\ yy \in Nat /\ rr \in Nat
    BY <1>2 DEF xx, yy, rr
  <2>2. /\ x >= r => xx >= rr
        /\ x <= -r => xx >= rr
        /\ y >= r => yy >= rr
        /\ y <= -r => yy >= rr
    BY <1>3 DEF xx, yy, rr
  <2>3. xx + yy < rr => -r < x /\ x < r /\ -r < y /\ y < r
    BY <1>1, <2>1, <2>2
  <2>. QED BY <2>3 DEF xx, yy, rr
<1>8. ASSUME x * x + y * y >= r * r, x \in -1..1 PROVE y = r \/ y = -r
  <2>1. x * x <= 1
    BY <1>6, <1>8
  <2>2. y * y >= r * r - 1
    <3> DEFINE xx == x * x  yy == y * y  rr == r * r
    <3> HIDE DEF xx, yy, rr
    <3>1. xx \in Nat /\ yy \in Nat /\ rr \in Nat /\ xx <= 1 /\ xx + yy >= rr
      BY <1>2, <1>8, <2>1 DEF xx, yy, rr
    <3>2. yy >= rr - 1
      BY <3>1
    <3>. QED BY <3>2 DEF yy, rr
  <2>3. ~(-r < y /\ y < r)
    <3> SUFFICES ASSUME -r < y, y < r PROVE FALSE
      OBVIOUS
    <3>1. y * y <= r * r - 2 * r + 1
      BY <1>1, <1>4, <1>5
    <3>. QED BY <1>2, <2>2, <3>1
  <2>. QED BY <1>1, <2>3
<1>9. ASSUME x * x + y * y >= r * r, y \in -1..1 PROVE x = r \/ x = -r
  <2>1. y * y <= 1
    BY <1>6, <1>9
  <2>2. x * x >= r * r - 1
    <3> DEFINE xx == x * x  yy == y * y  rr == r * r
    <3> HIDE DEF xx, yy, rr
    <3>1. xx \in Nat /\ yy \in Nat /\ rr \in Nat /\ yy <= 1 /\ xx + yy >= rr
      BY <1>2, <1>9, <2>1 DEF xx, yy, rr
    <3>2. xx >= rr - 1
      BY <3>1
    <3>. QED BY <3>2 DEF xx, rr
  <2>3. ~(-r < x /\ x < r)
    <3> SUFFICES ASSUME -r < x, x < r PROVE FALSE
      OBVIOUS
    <3>1. x * x <= r * r - 2 * r + 1
      BY <1>1, <1>4, <1>5
    <3>. QED BY <1>2, <2>2, <3>1
  <2>. QED BY <1>1, <2>3
<1>. QED BY <1>7, <1>8, <1>9

\* One step of a line that has not arrived stays in the rectangle between start
\* and end, and leads away from the start.
LEMMA LineStepAway ==
  ASSUME NEW p \in Point, NEW e \in Point, p # e, \A a \in XY : Within(p[a], e[a])
  PROVE  LET s == LinearStep(p, e)
             q == Moved(p, s.axis, s.by)
         IN  /\ s.axis \in XY /\ s.by \in {1, -1} /\ q \in Point
             /\ \A a \in XY : Within(q[a], e[a])
             /\ \A a \in XY : /\ q[a] = p[a] + (IF a = s.axis THEN s.by ELSE 0)
                              /\ Abs(q[a]) = Abs(p[a]) + (IF a = s.axis THEN 1 ELSE 0)
<1> DEFINE x == p["X"]  y == p["Y"]  dx == e["X"]  dy == e["Y"]
           f == IF x # dx THEN Trunc(dy * x, dx) ELSE dy
           s == LinearStep(p, e)
           q == Moved(p, s.axis, s.by)
           up == dy > 0  above == y > f
<1>1. x \in Int /\ y \in Int /\ dx \in Int /\ dy \in Int
  BY DEF Point, XY
<1>2. ~(x = dx /\ y = dy)
  BY DEF Point, XY
<1>3. Within(x, dx) /\ Within(y, dy)
  BY DEF XY
<1>4. /\ f \in Int
      /\ x = dx => f = dy
      /\ x # dx /\ dy > 0 => 0 <= f /\ f < dy
      /\ x # dx /\ dy < 0 => dy < f /\ f <= 0
      /\ x # dx /\ dy = 0 => f = 0
  <2>1. CASE x = dx
    BY <1>1, <2>1
  <2>2. CASE x # dx
    <3>1. f = Trunc(dy * x, dx)
      BY <2>2
    <3> HIDE DEF f, x, dx, dy
    <3>. QED BY <1>1, <1>3, <2>2, <3>1, TruncShort
  <2>. QED BY <2>1, <2>2
<1>5. s = IF above # up THEN [axis |-> "Y", by |-> IF up THEN 1 ELSE -1]
                        ELSE [axis |-> "X", by |-> IF dx > 0 THEN 1 ELSE -1]
  BY DEF LinearStep, Along, Sign
<1> DEFINE Is(a, b) == s = [axis |-> a, by |-> b]
<1> HIDE DEF x, y, dx, dy, f, s, q
<1>6. \/ Is("Y", 1) /\ y < dy /\ 0 <= y
      \/ Is("Y", -1) /\ dy < y /\ y <= 0
      \/ Is("X", 1) /\ x < dx /\ 0 <= x
      \/ Is("X", -1) /\ dx < x /\ x <= 0
  <2>1. CASE dy > 0 /\ ~(y > f)
    <3>1. up = TRUE /\ above = FALSE
      BY <2>1
    <3>2. Is("Y", 1)
      BY <1>5, <3>1, Zenon
    <3>3. y < dy /\ 0 <= y
      BY <1>1, <1>2, <1>3, <1>4, <2>1 DEF Within
    <3>. QED BY <3>2, <3>3
  <2>2. CASE dy > 0 /\ y > f
    <3>1. up = TRUE /\ above = TRUE
      BY <2>2
    <3>2. Is("X", IF dx > 0 THEN 1 ELSE -1)
      BY <1>5, <3>1, Zenon
    <3>3. x # dx
      BY <1>1, <1>3, <1>4, <2>2 DEF Within
    <3>. QED BY <1>1, <1>3, <3>2, <3>3 DEF Within
  <2>3. CASE ~(dy > 0) /\ y > f
    <3>1. up = FALSE /\ above = TRUE
      BY <2>3
    <3>2. Is("Y", -1)
      BY <1>5, <3>1, Zenon
    <3>3. dy < y /\ y <= 0
      BY <1>1, <1>2, <1>3, <1>4, <2>3 DEF Within
    <3>. QED BY <3>2, <3>3
  <2>4. CASE ~(dy > 0) /\ ~(y > f)
    <3>1. up = FALSE /\ above = FALSE
      BY <2>4
    <3>2. Is("X", IF dx > 0 THEN 1 ELSE -1)
      BY <1>5, <3>1, Zenon
    <3>3. x # dx
      BY <1>1, <1>2, <1>3, <1>4, <2>4 DEF Within
    <3>. QED BY <1>1, <1>3, <3>2, <3>3 DEF Within
  <2>. QED BY <2>1, <2>2, <2>3, <2>4
<1>7. s.axis \in XY /\ s.by \in {1, -1} /\ s.by \in Int
  BY <1>6 DEF XY
<1>8. /\ q \in Point
      /\ q[s.axis] = p[s.axis] + s.by
      /\ \A b \in XY \ {s.axis} : q[b] = p[b]
  BY <1>7, MovedPoint DEF q
<1>9. /\ s.axis = "Y" => q["X"] = x /\ q["Y"] = y + s.by
      /\ s.axis = "X" => q["Y"] = y /\ q["X"] = x + s.by
  BY <1>8 DEF x, y, XY
<1> DEFINE u == q["X"]  w == q["Y"]
<1> HIDE DEF u, w
<1>10. \/ s.axis = "Y" /\ s.by = 1 /\ u = x /\ w = y + 1 /\ y < dy /\ 0 <= y
       \/ s.axis = "Y" /\ s.by = -1 /\ u = x /\ w = y - 1 /\ dy < y /\ y <= 0
       \/ s.axis = "X" /\ s.by = 1 /\ u = x + 1 /\ w = y /\ x < dx /\ 0 <= x
       \/ s.axis = "X" /\ s.by = -1 /\ u = x - 1 /\ w = y /\ dx < x /\ x <= 0
  BY <1>1, <1>6, <1>9 DEF u, w
<1>11. /\ Within(u, dx) /\ Within(w, dy)
       /\ u = x + (IF "X" = s.axis THEN s.by ELSE 0)
       /\ w = y + (IF "Y" = s.axis THEN s.by ELSE 0)
       /\ Abs(u) = Abs(x) + (IF "X" = s.axis THEN 1 ELSE 0)
       /\ Abs(w) = Abs(y) + (IF "Y" = s.axis THEN 1 ELSE 0)
  <2>1. CASE s.axis = "Y"
    BY <1>1, <1>3, <1>10, <2>1 DEF Within, Abs
  <2>2. CASE s.axis = "X"
    BY <1>1, <1>3, <1>10, <2>2 DEF Within, Abs
  <2>. QED BY <1>10, <2>1, <2>2
<1>. QED BY <1>7, <1>8, <1>11 DEF XY, s, q, x, y, dx, dy, u, w

\* The way around the circle, counterclockwise, from (r, 0) to p.
Turn(p, r) == IF p["Y"] >= 0 THEN IF p["X"] >= 0 THEN r - p["X"] + p["Y"]
                                                 ELSE 3 * r - p["X"] - p["Y"]
                             ELSE IF p["X"] >= 0 THEN 7 * r + p["X"] + p["Y"]
                                                 ELSE 5 * r + p["X"] - p["Y"]

\* The square around the circle, which a walk never leaves.
OnCircle(p, r) == p \in Point /\ p["X"] \in (-r)..r /\ p["Y"] \in (-r)..r

LEMMA TurnRange ==
  ASSUME NEW r \in Nat \ {0}, NEW p, OnCircle(p, r)
  PROVE  Turn(p, r) \in 0..(8 * r - 1)
<1> DEFINE x == p["X"]  y == p["Y"]
<1>1. x \in (-r)..r /\ y \in (-r)..r /\ r \in Int
  BY DEF OnCircle
<1>2. Turn(p, r) = IF y >= 0 THEN IF x >= 0 THEN r - x + y ELSE 3 * r - x - y
                             ELSE IF x >= 0 THEN 7 * r + x + y ELSE 5 * r + x - y
  BY DEF Turn
<1> HIDE DEF x, y
<1>. QED BY <1>1, <1>2

\* Where circular_interpolation_2D goes from a point of each quadrant.
LEMMA CircularSteps ==
  ASSUME NEW p \in Point, NEW r \in Nat, NEW cw \in BOOLEAN
  PROVE  LET s == CircularStep(p, r, cw)
             q == Moved(p, s.axis, s.by)
             in == p["X"] * p["X"] + p["Y"] * p["Y"] < r * r
             Goes(a, b) == q["X"] = p["X"] + a /\ q["Y"] = p["Y"] + b
             a == p["X"] >= 0
             b == p["Y"] >= 0
         IN  /\ a /\ b => IF cw THEN IF in THEN Goes(1, 0) ELSE Goes(0, -1)
                                ELSE IF in THEN Goes(0, 1) ELSE Goes(-1, 0)
             /\ ~a /\ b => IF cw THEN IF in THEN Goes(0, 1) ELSE Goes(1, 0)
                                 ELSE IF in THEN Goes(-1, 0) ELSE Goes(0, -1)
             /\ ~a /\ ~b => IF cw THEN IF in THEN Goes(-1, 0) ELSE Goes(0, 1)
                                  ELSE IF in THEN Goes(0, -1) ELSE Goes(1, 0)
             /\ a /\ ~b => IF cw THEN IF in THEN Goes(0, -1) ELSE Goes(-1, 0)
                                 ELSE IF in THEN Goes(1, 0) ELSE Goes(0, 1)
<1> DEFINE s == CircularStep(p, r, cw)
           q == Moved(p, s.axis, s.by)
           in == p["X"] * p["X"] + p["Y"] * p["Y"] < r * r
           Goes(u, v) == q["X"] = p["X"] + u /\ q["Y"] = p["Y"] + v
           a == p["X"] >= 0
           b == p["Y"] >= 0
           Is(t, u) == s = [axis |-> t, by |-> u]
<1>1. p["X"] \in Int /\ p["Y"] \in Int
  BY DEF Point, XY
<1>2. in \in BOOLEAN /\ a \in BOOLEAN /\ b \in BOOLEAN /\ cw \in BOOLEAN
  OBVIOUS
<1>3. s = IF (in = cw) = (a = b) THEN [axis |-> "X", by |-> IF a = in THEN 1 ELSE -1]
                                 ELSE [axis |-> "Y", by |-> IF b = in THEN 1 ELSE -1]
  BY DEF CircularStep, Along, Sign
<1>4. \A u \in {1, -1} : /\ Is("X", u) => Goes(u, 0)
                         /\ Is("Y", u) => Goes(0, u)
  <2> SUFFICES ASSUME NEW u \in {1, -1}
               PROVE  (Is("X", u) => Goes(u, 0)) /\ (Is("Y", u) => Goes(0, u))
    OBVIOUS
  <2>1. u \in Int /\ "X" \in XY /\ "Y" \in XY /\ "X" # "Y"
    BY DEF XY
  <2>2. Is("X", u) => q = Moved(p, "X", u)
    OBVIOUS
  <2>3. Is("Y", u) => q = Moved(p, "Y", u)
    OBVIOUS
  <2>4. /\ Moved(p, "X", u)["X"] = p["X"] + u /\ Moved(p, "X", u)["Y"] = p["Y"]
        /\ Moved(p, "Y", u)["Y"] = p["Y"] + u /\ Moved(p, "Y", u)["X"] = p["X"]
    BY <2>1, MovedPoint DEF XY
  <2> HIDE DEF q, s
  <2>. QED BY <1>1, <2>2, <2>3, <2>4
<1> HIDE DEF s, q, in, a, b
<1>5. a = TRUE /\ b = TRUE => IF cw THEN IF in THEN Is("X", 1) ELSE Is("Y", -1)
                                    ELSE IF in THEN Is("Y", 1) ELSE Is("X", -1)
  BY <1>2, <1>3, Zenon
<1>6. a = FALSE /\ b = TRUE => IF cw THEN IF in THEN Is("Y", 1) ELSE Is("X", 1)
                                     ELSE IF in THEN Is("X", -1) ELSE Is("Y", -1)
  BY <1>2, <1>3, Zenon
<1>7. a = FALSE /\ b = FALSE => IF cw THEN IF in THEN Is("X", -1) ELSE Is("Y", 1)
                                      ELSE IF in THEN Is("Y", -1) ELSE Is("X", 1)
  BY <1>2, <1>3, Zenon
<1>8. a = TRUE /\ b = FALSE => IF cw THEN IF in THEN Is("Y", -1) ELSE Is("X", -1)
                                     ELSE IF in THEN Is("X", 1) ELSE Is("Y", 1)
  BY <1>2, <1>3, Zenon
<1>9. /\ a /\ b => IF cw THEN IF in THEN Goes(1, 0) ELSE Goes(0, -1)
                         ELSE IF in THEN Goes(0, 1) ELSE Goes(-1, 0)
      /\ ~a /\ b => IF cw THEN IF in THEN Goes(0, 1) ELSE Goes(1, 0)
                          ELSE IF in THEN Goes(-1, 0) ELSE Goes(0, -1)
      /\ ~a /\ ~b => IF cw THEN IF in THEN Goes(-1, 0) ELSE Goes(0, 1)
                           ELSE IF in THEN Goes(0, -1) ELSE Goes(1, 0)
      /\ a /\ ~b => IF cw THEN IF in THEN Goes(0, -1) ELSE Goes(-1, 0)
                          ELSE IF in THEN Goes(1, 0) ELSE Goes(0, 1)
  <2> HIDE DEF Goes, Is
  <2>1. /\ Is("X", 1) => Goes(1, 0)
        /\ Is("X", -1) => Goes(-1, 0)
        /\ Is("Y", 1) => Goes(0, 1)
        /\ Is("Y", -1) => Goes(0, -1)
    BY <1>4 DEF Goes, Is
  <2>2. CASE a = TRUE /\ b = TRUE
    BY <1>2, <1>5, <2>1, <2>2
  <2>3. CASE a = FALSE /\ b = TRUE
    BY <1>2, <1>6, <2>1, <2>3
  <2>4. CASE a = FALSE /\ b = FALSE
    BY <1>2, <1>7, <2>1, <2>4
  <2>5. CASE a = TRUE /\ b = FALSE
    BY <1>2, <1>8, <2>1, <2>5
  <2>. QED BY <1>2, <2>2, <2>3, <2>4, <2>5
<1>. QED BY <1>9 DEF s, q, in, a, b

\* A step goes one on around the circle, in the right direction.
LEMMA TurnStep ==
  ASSUME NEW r \in Nat \ {0, 1}, NEW cw \in BOOLEAN, NEW p, OnCircle(p, r)
  PROVE  LET s == CircularStep(p, r, cw)
             q == Moved(p, s.axis, s.by)
         IN  /\ OnCircle(q, r)
             /\ IF cw THEN Turn(q, r) \in {Turn(p, r) - 1, Turn(p, r) - 1 + 8 * r}
                      ELSE Turn(q, r) \in {Turn(p, r) + 1, Turn(p, r) + 1 - 8 * r}
<1> DEFINE s == CircularStep(p, r, cw)
           q == Moved(p, s.axis, s.by)
           x == p["X"]  y == p["Y"]  u == q["X"]  w == q["Y"]
           in == x * x + y * y < r * r
           Goes(m, n) == u = x + m /\ w = y + n
           a == Turn(p, r)  b == Turn(q, r)
<1>1. x \in (-r)..r /\ y \in (-r)..r /\ r \in Nat \ {0, 1} /\ x \in Int /\ y \in Int /\ r \in Int
  BY DEF OnCircle
<1>2. in => -r < x /\ x < r /\ -r < y /\ y < r
  BY <1>1, Circle
<1>3. ~in => /\ x \in -1..1 => y = r \/ y = -r
             /\ y \in -1..1 => x = r \/ x = -r
  <2> SUFFICES ASSUME ~in PROVE /\ x \in -1..1 => y = r \/ y = -r
                                /\ y \in -1..1 => x = r \/ x = -r
    OBVIOUS
  <2>1. x * x + y * y >= r * r
    <3>1. x * x \in Int /\ y * y \in Int /\ r * r \in Int
      BY <1>1
    <3>. QED BY <3>1
  <2>. QED BY <1>1, <2>1, Circle
<1>4. a = IF y >= 0 THEN IF x >= 0 THEN r - x + y ELSE 3 * r - x - y
                    ELSE IF x >= 0 THEN 7 * r + x + y ELSE 5 * r + x - y
  BY DEF Turn
<1>5. b = IF w >= 0 THEN IF u >= 0 THEN r - u + w ELSE 3 * r - u - w
                    ELSE IF u >= 0 THEN 7 * r + u + w ELSE 5 * r + u - w
  BY DEF Turn
<1>6. p \in Point /\ r \in Nat
  BY DEF OnCircle
<1>7. /\ x >= 0 /\ y >= 0 => IF cw THEN IF in THEN Goes(1, 0) ELSE Goes(0, -1)
                                   ELSE IF in THEN Goes(0, 1) ELSE Goes(-1, 0)
      /\ ~(x >= 0) /\ y >= 0 => IF cw THEN IF in THEN Goes(0, 1) ELSE Goes(1, 0)
                                      ELSE IF in THEN Goes(-1, 0) ELSE Goes(0, -1)
      /\ ~(x >= 0) /\ ~(y >= 0) => IF cw THEN IF in THEN Goes(-1, 0) ELSE Goes(0, 1)
                                         ELSE IF in THEN Goes(0, -1) ELSE Goes(1, 0)
      /\ x >= 0 /\ ~(y >= 0) => IF cw THEN IF in THEN Goes(0, -1) ELSE Goes(-1, 0)
                                      ELSE IF in THEN Goes(1, 0) ELSE Goes(0, 1)
  BY <1>6, CircularSteps
<1>8. q \in Point
  BY <1>6, StepTypes, MovedPoint
<1> DEFINE Good == /\ u \in (-r)..r /\ w \in (-r)..r
                   /\ IF cw THEN b \in {a - 1, a - 1 + 8 * r} ELSE b \in {a + 1, a + 1 - 8 * r}
<1>9. Good
  <2> HIDE DEF x, y, u, w, in, a, b, q, s
  <2>1. CASE x >= 0 /\ y >= 0
    BY <1>1, <1>2, <1>3, <1>4, <1>5, <1>7, <2>1
  <2>2. CASE ~(x >= 0) /\ y >= 0
    BY <1>1, <1>2, <1>3, <1>4, <1>5, <1>7, <2>2
  <2>3. CASE ~(x >= 0) /\ ~(y >= 0)
    BY <1>1, <1>2, <1>3, <1>4, <1>5, <1>7, <2>3
  <2>4. CASE x >= 0 /\ ~(y >= 0)
    BY <1>1, <1>2, <1>3, <1>4, <1>5, <1>7, <2>4
  <2>. QED BY <1>1, <2>1, <2>2, <2>3, <2>4
<1>. QED BY <1>8, <1>9 DEF OnCircle

\* How far a walk has come: so far from its corner, once round at the most.
WalkTurn(r, i, cw, n) ==
  IF cw THEN {2 * r * i - n, 2 * r * i - n + 8 * r} ELSE {2 * r * i + n, 2 * r * i + n - 8 * r}

LEMMA WalkGoesRound ==
  ASSUME NEW r \in Nat \ {0, 1}, NEW i \in 0..3, NEW cw \in BOOLEAN
  PROVE  LET w == Walk(r, i, cw) IN \A n \in 0..(8 * r) :
            /\ OnCircle(w[n].end, r)
            /\ Turn(w[n].end, r) \in WalkTurn(r, i, cw, n)
            /\ w[n].own["X"] \in 0..n /\ w[n].own["Y"] \in 0..n
<1> DEFINE w == Walk(r, i, cw)
           Good(n) == /\ OnCircle(w[n].end, r)
                      /\ Turn(w[n].end, r) \in WalkTurn(r, i, cw, n)
                      /\ w[n].own["X"] \in 0..n /\ w[n].own["Y"] \in 0..n
           T == {n \in 0..(8 * r) : ~Good(n)}
<1>1. 8 * r \in Nat /\ r \in Nat
  OBVIOUS
<1>2. /\ w \in [0..(8 * r) -> Leg] /\ w[0] = FirstLeg(r, i)
      /\ \A n \in 1..(8 * r) : w[n] = Further(w[n - 1], r, cw)
  BY <1>1, WalkIs
<1> HIDE DEF w
<1>3. Good(0)
  <2>1. w[0].end = Corner(r, i) /\ w[0].own = Zero
    BY <1>2 DEF FirstLeg
  <2>2. Zero["X"] = 0 /\ Zero["Y"] = 0
    BY PointAt DEF Zero
  <2> DEFINE x == Corner(r, i)["X"]  y == Corner(r, i)["Y"]
  <2>3. /\ i = 0 => x = r /\ y = 0
        /\ i = 1 => x = 0 /\ y = r
        /\ i = 2 => x = -r /\ y = 0
        /\ i = 3 => x = 0 /\ y = -r
        /\ Corner(r, i) \in Point
    BY <1>1, Corners4
  <2>4. Turn(Corner(r, i), r) = IF y >= 0 THEN IF x >= 0 THEN r - x + y ELSE 3 * r - x - y
                                          ELSE IF x >= 0 THEN 7 * r + x + y ELSE 5 * r + x - y
    BY DEF Turn
  <2>5. x \in (-r)..r /\ y \in (-r)..r
    <3> HIDE DEF x, y
    <3>. QED BY <2>3
  <2>6. /\ i = 0 => 2 * r * i = 0
        /\ i = 1 => 2 * r * i = 2 * r
        /\ i = 2 => 2 * r * i = 4 * r
        /\ i = 3 => 2 * r * i = 6 * r
    OBVIOUS
  <2>7. Turn(Corner(r, i), r) = 2 * r * i
    <3> HIDE DEF x, y
    <3>. QED BY <2>3, <2>4, <2>6
  <2>8. 2 * r * i \in Int
    BY <2>6
  <2>9. Turn(Corner(r, i), r) \in WalkTurn(r, i, cw, 0)
    BY <2>7, <2>8 DEF WalkTurn
  <2>. QED BY <2>1, <2>2, <2>3, <2>5, <2>9 DEF OnCircle
<1>4. ASSUME NEW n \in 1..(8 * r), Good(n - 1) PROVE Good(n)
  <2> DEFINE so == w[n - 1]  s == CircularStep(so.end, r, cw)
  <2>1. n - 1 \in 0..(8 * r) /\ w[n] = Further(so, r, cw) /\ so \in Leg
    BY <1>1, <1>2
  <2>2. w[n].end = Moved(so.end, s.axis, s.by) /\ w[n].own = Moved(so.own, s.axis, 1)
    BY <2>1, FurtherLeg
  <2>3. OnCircle(so.end, r) /\ Turn(so.end, r) \in WalkTurn(r, i, cw, n - 1)
    BY <1>4
  <2>4. /\ OnCircle(w[n].end, r)
        /\ IF cw THEN Turn(w[n].end, r) \in {Turn(so.end, r) - 1, Turn(so.end, r) - 1 + 8 * r}
                 ELSE Turn(w[n].end, r) \in {Turn(so.end, r) + 1, Turn(so.end, r) + 1 - 8 * r}
    BY <2>2, <2>3, TurnStep
  <2>5. Turn(w[n].end, r) \in 0..(8 * r - 1) /\ Turn(so.end, r) \in 0..(8 * r - 1)
    BY <2>3, <2>4, TurnRange
  <2>6. 2 * r * i \in {0, 2 * r, 4 * r, 6 * r}
    OBVIOUS
  <2>7. Turn(w[n].end, r) \in WalkTurn(r, i, cw, n)
    <3> DEFINE a == Turn(so.end, r)  b == Turn(w[n].end, r)  c == 2 * r * i
    <3>1. a \in IF cw THEN {c - (n - 1), c - (n - 1) + 8 * r}
                      ELSE {c + (n - 1), c + (n - 1) - 8 * r}
      BY <2>3 DEF WalkTurn
    <3>2. b \in IF cw THEN {a - 1, a - 1 + 8 * r} ELSE {a + 1, a + 1 - 8 * r}
      BY <2>4
    <3>3. b \in 0..(8 * r - 1) /\ a \in 0..(8 * r - 1) /\ c \in {0, 2 * r, 4 * r, 6 * r}
      BY <2>5, <2>6
    <3>4. n \in 1..(8 * r) /\ r \in Nat
      OBVIOUS
    <3> HIDE DEF a, b, c
    <3>5. b \in IF cw THEN {c - n, c - n + 8 * r} ELSE {c + n, c + n - 8 * r}
      BY <3>1, <3>2, <3>3, <3>4
    <3>. QED BY <3>5 DEF WalkTurn, b, c
  <2>8. w[n].own["X"] \in 0..n /\ w[n].own["Y"] \in 0..n
    <3>1. so.own \in Point /\ s.axis \in XY
      BY <2>1, StepTypes DEF Leg
    <3> DEFINE o == so.own  a == s.axis
    <3>2. /\ w[n].own[a] = o[a] + 1
          /\ \A b \in XY \ {a} : w[n].own[b] = o[b]
      <4>1. w[n].own = Moved(o, a, 1) /\ o \in Point /\ a \in XY /\ 1 \in Int
        BY <2>2, <3>1
      <4> HIDE DEF o, a
      <4>. QED BY <4>1, MovedPoint
    <3>3. so.own["X"] \in 0..(n - 1) /\ so.own["Y"] \in 0..(n - 1)
      BY <1>4
    <3>4. s.axis = "X" \/ s.axis = "Y"
      BY <3>1 DEF XY
    <3>5. o["X"] \in 0..(n - 1) /\ o["Y"] \in 0..(n - 1) /\ (a = "X" \/ a = "Y")
      BY <3>3, <3>4
    <3> HIDE DEF o, a
    <3>. QED BY <3>2, <3>5 DEF XY
  <2>. QED BY <2>4, <2>7, <2>8
<1>5. T = {}
  <2> SUFFICES ASSUME T # {} PROVE FALSE
    OBVIOUS
  <2>1. T \in SUBSET Nat /\ \A n \in 0..(8 * r) : n \in T <=> ~Good(n)
    <3>1. T \subseteq 0..(8 * r) /\ 0..(8 * r) \subseteq Nat
      BY <1>1
    <3>. QED BY <3>1
  <2>2. \A n \in T : n \in 0..(8 * r)
    OBVIOUS
  <2> HIDE DEF T, Good
  <2>3. PICK m \in T : \A y \in T : m <= y
    BY <2>1, LeastNumber
  <2>4. m \in 0..(8 * r) /\ ~Good(m)
    BY <2>1, <2>2, <2>3
  <2>5. m # 0
    BY <1>3, <2>4
  <2>6. m \in 1..(8 * r) /\ m - 1 \in 0..(8 * r) /\ ~(m <= m - 1)
    BY <1>1, <2>4, <2>5
  <2>7. Good(m - 1)
    BY <2>1, <2>3, <2>6
  <2>. QED BY <1>4, <2>4, <2>6, <2>7
<1>. QED BY <1>5 DEF w

\* On the way to a point of the circle that point is not met before.
LEMMA MetOnce ==
  ASSUME NEW r \in Nat \ {0, 1}, NEW i \in 0..3, NEW cw \in BOOLEAN,
         NEW n \in 1..(8 * r), NEW k \in 1..(8 * r),
         Walk(r, i, cw)[n].end = Walk(r, i, cw)[k].end
  PROVE  n = k
<1> DEFINE t == Turn(Walk(r, i, cw)[n].end, r)  c == 2 * r * i
<1>1. 1..(8 * r) \subseteq 0..(8 * r)
  OBVIOUS
<1>2. t \in WalkTurn(r, i, cw, n) /\ t \in WalkTurn(r, i, cw, k)
  BY <1>1, WalkGoesRound
<1>3. /\ t \in IF cw THEN {c - n, c - n + 8 * r} ELSE {c + n, c + n - 8 * r}
      /\ t \in IF cw THEN {c - k, c - k + 8 * r} ELSE {c + k, c + k - 8 * r}
  BY <1>2 DEF WalkTurn
<1>4. c \in Int
  OBVIOUS
<1> HIDE DEF t, c
<1>. QED BY <1>3, <1>4

-----------------------------------------------------------------------------
(* The ESP32 axis as a whole. *)

AxisCareful == {"rest", "long", "prompt", "untorn"} \subseteq AxisCalm

\* The step that DIR_PIN and m_step_axis announce, if this ESP is to make it.
OwnStep == IF stepAxis = axis THEN 1 ELSE 0
OwnWay  == IF stepAxis = axis THEN Sign("DIRECTION" \in status) ELSE 0

InJog ==
  /\ "JOG" \in status /\ stepAxis = axis /\ cnt.cur < cnt.end
  /\ IF "DIRECTION" \in status THEN pos = cnt.cur /\ want.pulses = cnt.end
                               ELSE pos + cnt.cur = 0 /\ want.pulses + cnt.end = 0

InLine ==
  /\ "LINE" \in status /\ stepAxis \in XY
  /\ \A a \in XY : Within(cur[a], mv.end[a])
  /\ want.pulses = mv.end[axis] /\ cnt.end = Abs(mv.end[axis])
  /\ cnt.cur + OwnStep = Abs(cur[axis]) /\ pos + OwnWay = cur[axis]

\* A curve of k steps from a corner, `walked' of them taken.
CurveOf(r, i, cw, k) ==
  LET w == Walk(r, i, cw) IN
  /\ mv = [end |-> w[k].end, radius |-> r, cw |-> cw]
  /\ want.pulses = w[k].end[axis] - w[0].end[axis] /\ want.steps = k
  /\ w[k].own[axis] > 1
  /\ walked \in 1..k /\ cur = w[walked].end
  /\ cnt.cur + OwnStep = w[walked].own[axis]
  /\ pos + OwnWay = cur[axis] - w[0].end[axis]

InCurve ==
  /\ "CURV" \in status /\ stepAxis \in XY /\ cnt.end = Clk
  /\ \E r \in Radii, i \in Corners, cw \in BOOLEAN :
       \E k \in 1..(8 * r) : CurveOf(r, i, cw, k)

\* The move goes on, or an interrupt of it is still to be served.
Live == "MOVE_READY" \notin status \/ isr = "entered"

OneMode ==
  /\ "JOG" \in status => "LINE" \notin status /\ "CURV" \notin status
  /\ "LINE" \in status => "CURV" \notin status

\* What each wait of the task knows of the timer and of m_status.
TaskKnows ==
  /\ timer <=> motionPin = 1
  /\ "IN_MOTION" \in status => "MOVE_READY" \notin status
  /\ msgTask \in {"idle", "started"} => (timer <=> "IN_MOTION" \in status)
  /\ msgTask \notin {"idle", "started", "restarted"} => ~timer
  /\ msgTask \in {"sync", "go", "started", "resync", "restart", "restarted"} => isr = "armed"
  /\ msgTask \in {"sync", "go"} =>
       "IN_MOTION" \notin status /\ ("MOVE_READY" \in status => cnt.end = 0)
  /\ msgTask = "stopping" => want.stopped
  /\ msgTask \in {"resync", "restart", "restarted"} =>
       "IN_MOTION" \notin status /\ "MOVE_READY" \notin status
  /\ msgTask = "restarted" => timer
  /\ msgTask \in {"idle", "stopping", "pausing"} => "SYNC_READY" \notin status

Finished ==
  "MOVE_READY" \in status /\ ~want.stopped =>
    /\ isr = "armed" /\ pos = want.pulses
    /\ "CURV" \in status => walked = want.steps

Brakes ==
  \/ cnt.dec = Clk
  \/ cnt.dec = cnt.end - cnt.acc
  \/ cnt.dec = cnt.acc /\ cnt.end <= 2 * cnt.acc + 1

AxisInv ==
  /\ AxisTypeOK /\ want \in [pulses : Int, steps : Nat, stopped : BOOLEAN]
  /\ OneMode /\ TaskKnows /\ Finished /\ Brakes
  /\ Live => InJog \/ InLine \/ InCurve

LEMMA SignIs == Sign(TRUE) = 1 /\ Sign(FALSE) = -1
  BY DEF Sign

LEMMA AxisStart == AxisInit => AxisInv
<1> SUFFICES ASSUME AxisInit PROVE AxisInv
  OBVIOUS
<1>1. Zero \in Point /\ Clk \in Nat
  BY PointAt, AxisAssumption DEF Zero
<1>2. cnt = [cur |-> 0, end |-> Clk, acc |-> Clk, dec |-> Clk]
  BY DEF AxisInit, ResetMove
<1>3. AxisTypeOK
  <2>1. cnt \in [cur : 0..Clk, end : 0..Clk, acc : 0..Clk, dec : 0..Clk]
    BY <1>1, <1>2
  <2>2. mv \in [end : Point, radius : Nat, cw : BOOLEAN] /\ cur \in Point
    BY <1>1 DEF AxisInit, NoMove
  <2>3. axis \in XY /\ stepAxis \in XY \cup {"none"} /\ status \subseteq Bits
    BY DEF AxisInit, Bits
  <2>4. fast \in BOOLEAN /\ timer \in BOOLEAN /\ isr \in {"armed", "entered"}
    BY DEF AxisInit
  <2>5. motionPin \in {0, 1} /\ axisSem \in {0, 1} /\ msgTask = "idle"
        /\ pos \in Int /\ walked \in Nat
    BY DEF AxisInit
  <2>. QED BY <2>1, <2>2, <2>3, <2>4, <2>5 DEF AxisTypeOK
<1>4. want \in [pulses : Int, steps : Nat, stopped : BOOLEAN] /\ want.stopped
  BY DEF AxisInit, NoWant
<1>5. status = {"MOVE_READY"} /\ isr = "armed" /\ msgTask = "idle" /\ ~timer /\ motionPin = 0
  BY DEF AxisInit
<1>6. OneMode /\ TaskKnows /\ ~Live
  BY <1>5 DEF OneMode, TaskKnows, Live
<1>7. Finished /\ Brakes
  BY <1>2, <1>4 DEF Finished, Brakes
<1>. QED BY <1>3, <1>4, <1>6, <1>7 DEF AxisInv

\* What a step does that leaves the move alone.
MoveStays ==
  /\ UNCHANGED <<axis, mv, cur, stepAxis, cnt, fast, pos, walked>>
  /\ want' = want \/ want' = [want EXCEPT !.stopped = TRUE]
  /\ \A b \in Modes \cup {"DIRECTION"} : b \in status' <=> b \in status

LEMMA SameMove ==
  ASSUME AxisInv, MoveStays
  PROVE  /\ InJog => InJog'
         /\ InLine => InLine'
         /\ InCurve => InCurve'
         /\ OneMode' /\ Brakes'
         /\ want' \in [pulses : Int, steps : Nat, stopped : BOOLEAN]
<1>1. /\ "LINE" \in status' <=> "LINE" \in status
      /\ "CURV" \in status' <=> "CURV" \in status
      /\ "JOG" \in status' <=> "JOG" \in status
      /\ "DIRECTION" \in status' <=> "DIRECTION" \in status
  BY DEF MoveStays, Modes
<1>2. want \in [pulses : Int, steps : Nat, stopped : BOOLEAN]
  BY DEF AxisInv
<1>3. /\ want'.pulses = want.pulses /\ want'.steps = want.steps
      /\ want' \in [pulses : Int, steps : Nat, stopped : BOOLEAN]
  BY <1>2 DEF MoveStays
<1>4. /\ axis' = axis /\ mv' = mv /\ cur' = cur /\ stepAxis' = stepAxis
      /\ cnt' = cnt /\ pos' = pos /\ walked' = walked
  BY DEF MoveStays
<1>5. OwnStep' = OwnStep
  BY <1>4 DEF OwnStep
<1>6. OwnWay' = OwnWay
  <2>1. CASE "DIRECTION" \in status
    BY <1>1, <1>4, <2>1 DEF OwnWay, Sign
  <2>2. CASE "DIRECTION" \notin status
    BY <1>1, <1>4, <2>2 DEF OwnWay, Sign
  <2>. QED BY <2>1, <2>2
<1>7. InJog => InJog'
  BY <1>1, <1>3, <1>4 DEF InJog
<1>8. InLine => InLine'
  BY <1>1, <1>3, <1>4, <1>5, <1>6 DEF InLine
<1>9. InCurve => InCurve'
  <2> SUFFICES ASSUME InCurve PROVE InCurve'
    OBVIOUS
  <2>1. PICK r \in Radii, i \in Corners, cw \in BOOLEAN :
               \E k \in 1..(8 * r) : CurveOf(r, i, cw, k)
    BY DEF InCurve
  <2>2. PICK k \in 1..(8 * r) : CurveOf(r, i, cw, k)
    BY <2>1
  <2>3. CurveOf(r, i, cw, k)'
    BY <1>3, <1>4, <1>5, <1>6, <2>2 DEF CurveOf
  <2>4. "CURV" \in status' /\ stepAxis' \in XY /\ cnt'.end = Clk
    BY <1>1, <1>4 DEF InCurve
  <2>. QED BY <2>3, <2>4 DEF InCurve
<1>10. OneMode' /\ Brakes'
  BY <1>1, <1>4 DEF AxisInv, OneMode, Brakes
<1>. QED BY <1>3, <1>7, <1>8, <1>9, <1>10

\* So it is enough to look at the timer, the interrupt and the task.
LEMMA FrameKeeps ==
  ASSUME AxisInv, MoveStays, status' \subseteq Bits,
         timer' \in BOOLEAN, isr' \in {"armed", "entered"}, motionPin' \in {0, 1},
         axisSem' \in {0, 1},
         msgTask' \in {"idle", "sync", "go", "started", "stopping", "pausing",
                       "resync", "restart", "restarted"},
         Live' => Live, TaskKnows', Finished'
  PROVE  AxisInv'
<1>1. AxisTypeOK'
  BY DEF AxisInv, AxisTypeOK, MoveStays
<1>2. /\ InJog => InJog'
      /\ InLine => InLine'
      /\ InCurve => InCurve'
      /\ OneMode' /\ Brakes'
      /\ want' \in [pulses : Int, steps : Nat, stopped : BOOLEAN]
  BY SameMove
<1>3. Live' => InJog' \/ InLine' \/ InCurve'
  BY <1>2 DEF AxisInv
<1>. QED BY <1>1, <1>2, <1>3 DEF AxisInv

\* When nothing of a move is left to do at its start, nothing was wanted.
LEMMA NothingToDo ==
  ASSUME AxisInv, Live, cnt.end = 0
  PROVE  pos = 0 /\ want.pulses = 0 /\ "CURV" \notin status
<1>1. /\ cnt.cur \in Nat /\ cnt.end \in Nat /\ pos \in Int /\ axis \in XY
      /\ mv.end \in Point /\ cur \in Point
  BY AxisAssumption DEF AxisInv, AxisTypeOK
<1>2. CASE InJog
  BY <1>1, <1>2 DEF InJog
<1>3. CASE InLine
  <2> DEFINE e == mv.end[axis]  c == cur[axis]
  <2>1. e \in Int /\ c \in Int
    BY <1>1 DEF Point
  <2>2. Abs(e) = 0 /\ Within(c, e) /\ cnt.cur + OwnStep = Abs(c) /\ pos + OwnWay = c /\ want.pulses = e
    BY <1>1, <1>3 DEF InLine
  <2>3. OwnStep = 0 => OwnWay = 0
    BY DEF OwnStep, OwnWay
  <2>4. OwnStep \in {0, 1}
    BY DEF OwnStep
  <2>5. "CURV" \notin status
    BY <1>3 DEF AxisInv, OneMode, InLine
  <2> HIDE DEF e, c
  <2>6. e = 0 /\ c = 0
    BY <2>1, <2>2 DEF Abs, Within
  <2>7. Abs(c) = 0
    BY <2>6 DEF Abs
  <2>8. OwnStep = 0
    BY <1>1, <2>2, <2>4, <2>7
  <2>. QED BY <1>1, <2>2, <2>3, <2>5, <2>6, <2>8
<1>4. CASE InCurve
  <2>1. PICK r \in Radii : TRUE
    BY <1>4 DEF InCurve
  <2>2. r \in Nat \ {0, 1} /\ 8 * r < Clk /\ Clk \in Nat /\ cnt.end = Clk
    BY <1>4, AxisAssumption DEF InCurve
  <2>. QED BY <2>2
<1>. QED BY <1>2, <1>3, <1>4 DEF AxisInv

-----------------------------------------------------------------------------
(* The steps of the task and of the wires. *)

\* What the types say of what these steps look at.
LEMMA AxisKnows ==
  ASSUME AxisInv
  PROVE  /\ status \subseteq Bits /\ timer \in BOOLEAN /\ isr \in {"armed", "entered"}
         /\ motionPin \in {0, 1} /\ axisSem \in {0, 1}
         /\ msgTask \in {"idle", "sync", "go", "started", "stopping", "pausing",
                         "resync", "restart", "restarted"}
         /\ want \in [pulses : Int, steps : Nat, stopped : BOOLEAN]
         /\ TaskKnows /\ Finished
  BY DEF AxisInv, AxisTypeOK

LEMMA KeepTaken ==
  ASSUME AxisInv, MoveTake \/ ResumeTake
  PROVE  AxisInv'
<1>1. /\ UNCHANGED <<axis, status, timer, isr, motionPin, saw, moving>> /\ axisSem' = 0
      /\ \/ msgTask = "sync" /\ msgTask' = "go"
         \/ msgTask = "resync" /\ msgTask' = "restart"
  BY DEF MoveTake, ResumeTake, Taken
<1>2. MoveStays /\ (Live' => Live)
  BY <1>1 DEF MoveStays, moving, Live
<1>3. TaskKnows'
  BY <1>1, AxisKnows DEF TaskKnows, moving
<1>4. Finished'
  BY <1>1, AxisKnows DEF Finished, moving
<1>. QED BY <1>1, <1>2, <1>3, <1>4, AxisKnows, FrameKeeps

LEMMA KeepSyncEdge ==
  ASSUME AxisInv, SyncEdge
  PROVE  AxisInv'
<1>1. UNCHANGED <<axis, status, timer, isr, motionPin, msgTask, saw, moving>> /\ axisSem' = 1
  BY DEF SyncEdge
<1>2. MoveStays /\ (Live' => Live)
  BY <1>1 DEF MoveStays, moving, Live
<1>3. TaskKnows'
  BY <1>1, AxisKnows DEF TaskKnows, moving
<1>4. Finished'
  BY <1>1, AxisKnows DEF Finished, moving
<1>. QED BY <1>1, <1>2, <1>3, <1>4, AxisKnows, FrameKeeps

LEMMA KeepAlarm ==
  ASSUME AxisCareful, AxisInv, Alarm
  PROVE  AxisInv'
<1>1. /\ UNCHANGED <<axis, status, timer, motionPin, axisSem, msgTask, moving>>
      /\ timer /\ isr = "armed" /\ isr' = "entered" /\ msgTask \notin {"started", "restarted"}
  BY DEF Alarm, AxisCareful
<1>2. "IN_MOTION" \in status /\ "MOVE_READY" \notin status /\ msgTask = "idle"
  BY <1>1, AxisKnows DEF TaskKnows
<1>3. MoveStays /\ Live
  BY <1>1, <1>2 DEF MoveStays, moving, Live
<1>4. TaskKnows'
  BY <1>1, <1>2, AxisKnows DEF TaskKnows, moving
<1>5. Finished'
  BY <1>1, <1>2, AxisKnows DEF Finished, moving
<1>. QED BY <1>1, <1>3, <1>4, <1>5, AxisKnows, FrameKeeps

LEMMA KeepMoveGo ==
  ASSUME AxisInv, MoveGo
  PROVE  AxisInv'
<1>1. /\ msgTask = "go" /\ msgTask' = "started"
      /\ UNCHANGED <<axis, isr, axisSem, moving>>
      /\ IF cnt.end # 0
         THEN status' = status \cup {"IN_MOTION"} /\ motionPin' = 1 /\ timer' = TRUE
         ELSE status' = status \cup {"MOVE_READY"} /\ motionPin' = motionPin /\ timer' = timer
  BY DEF MoveGo
<1>2. isr = "armed" /\ ~timer /\ "IN_MOTION" \notin status /\ ("MOVE_READY" \in status => cnt.end = 0)
  BY <1>1, AxisKnows DEF TaskKnows
<1>3. MoveStays /\ status' \subseteq Bits
  BY <1>1, AxisKnows DEF MoveStays, moving, Modes, Bits
<1>4. Live' => Live
  BY <1>1 DEF Live
<1>5. TaskKnows'
  <2>1. CASE cnt.end # 0
    <3>1. "MOVE_READY" \notin status' /\ "IN_MOTION" \in status' /\ timer' /\ motionPin' = 1
      BY <1>1, <1>2, <2>1
    <3>. QED BY <1>1, <1>2, <3>1 DEF TaskKnows
  <2>2. CASE cnt.end = 0
    <3>1. "IN_MOTION" \notin status' /\ ~timer' /\ timer' = timer /\ motionPin' = motionPin
      BY <1>1, <1>2, <2>2
    <3>. QED BY <1>1, <1>2, <3>1, AxisKnows DEF TaskKnows
  <2>. QED BY <2>1, <2>2
<1>6. Finished'
  <2>1. CASE cnt.end # 0
    <3>1. "MOVE_READY" \notin status'
      BY <1>1, <1>2, <2>1
    <3>. QED BY <3>1 DEF Finished
  <2>2. CASE cnt.end = 0 /\ "MOVE_READY" \in status
    <3>1. status' = status
      BY <1>1, <2>2
    <3>. QED BY <1>1, <3>1, AxisKnows DEF Finished, moving
  <2>3. CASE cnt.end = 0 /\ "MOVE_READY" \notin status
    <3>1. pos = 0 /\ want.pulses = 0 /\ "CURV" \notin status
      BY <2>3, NothingToDo DEF Live
    <3>2. "CURV" \notin status' /\ isr' = "armed" /\ pos' = want'.pulses
      BY <1>1, <1>2, <2>3, <3>1 DEF moving
    <3>. QED BY <3>2 DEF Finished
  <2>. QED BY <2>1, <2>2, <2>3
<1>. QED BY <1>1, <1>3, <1>4, <1>5, <1>6, AxisKnows, FrameKeeps

LEMMA KeepMoveDone ==
  ASSUME AxisCareful, AxisInv, MoveDone
  PROVE  AxisInv'
<1>1. /\ msgTask = "started" /\ msgTask' = "idle" /\ status' = status \ {"SYNC_READY"}
      /\ UNCHANGED <<axis, timer, isr, motionPin, axisSem, moving>>
  BY DEF MoveDone, OnlyStatus, Base, AxisCareful
<1>2. MoveStays /\ status' \subseteq Bits /\ (Live' => Live)
  BY <1>1, AxisKnows DEF MoveStays, moving, Modes, Bits, Live
<1>3. /\ "SYNC_READY" \notin status'
      /\ "IN_MOTION" \in status' <=> "IN_MOTION" \in status
      /\ "MOVE_READY" \in status' <=> "MOVE_READY" \in status
      /\ "CURV" \in status' <=> "CURV" \in status
  BY <1>1
<1>4. TaskKnows'
  BY <1>1, <1>3, AxisKnows DEF TaskKnows
<1>5. Finished'
  BY <1>1, <1>3, AxisKnows DEF Finished, moving
<1>. QED BY <1>1, <1>2, <1>4, <1>5, AxisKnows, FrameKeeps

LEMMA KeepStopTimers ==
  ASSUME AxisInv, StopTimers
  PROVE  AxisInv'
<1>1. /\ msgTask = "idle" /\ msgTask' = "stopping" /\ ~timer' /\ timer' \in BOOLEAN /\ motionPin' = 0
      /\ want' = [want EXCEPT !.stopped = TRUE]
      /\ UNCHANGED <<axis, status, isr, axisSem, mv, cur, stepAxis, cnt, fast, pos, walked>>
  BY DEF StopTimers
<1>2. MoveStays /\ (Live' => Live)
  BY <1>1 DEF MoveStays, Live
<1>3. want'.stopped
  BY <1>1, AxisKnows
<1>4. TaskKnows'
  BY <1>1, <1>3, AxisKnows DEF TaskKnows
<1>5. Finished'
  BY <1>3 DEF Finished
<1>. QED BY <1>1, <1>2, <1>4, <1>5, AxisKnows, FrameKeeps

LEMMA KeepStopStatus ==
  ASSUME AxisCareful, AxisInv, StopStatus
  PROVE  AxisInv'
<1>1. /\ msgTask = "stopping" /\ msgTask' = "idle"
      /\ status' = (status \ {"IN_MOTION"}) \cup {"MOVE_READY"}
      /\ UNCHANGED <<axis, timer, isr, motionPin, axisSem, moving>>
  BY DEF StopStatus, OnlyStatus, Base, AxisCareful, Ready
<1>2. MoveStays /\ status' \subseteq Bits /\ (Live' => Live)
  BY <1>1, AxisKnows DEF MoveStays, moving, Modes, Bits, Live
<1>3. /\ "SYNC_READY" \in status' <=> "SYNC_READY" \in status
      /\ "IN_MOTION" \notin status' /\ "MOVE_READY" \in status'
      /\ ~timer /\ want.stopped
  BY <1>1, AxisKnows DEF TaskKnows
<1>4. TaskKnows'
  BY <1>1, <1>3, AxisKnows DEF TaskKnows
<1>5. Finished'
  BY <1>1, <1>3 DEF Finished, moving
<1>. QED BY <1>1, <1>2, <1>4, <1>5, AxisKnows, FrameKeeps

LEMMA KeepPauseTimers ==
  ASSUME AxisInv, PauseTimers
  PROVE  AxisInv'
<1>1. /\ msgTask = "idle" /\ msgTask' = "pausing" /\ ~timer' /\ timer' \in BOOLEAN /\ motionPin' = 0
      /\ UNCHANGED <<axis, status, isr, axisSem, moving>>
  BY DEF PauseTimers
<1>2. MoveStays /\ (Live' => Live)
  BY <1>1 DEF MoveStays, moving, Live
<1>3. TaskKnows'
  BY <1>1, AxisKnows DEF TaskKnows
<1>4. Finished'
  BY <1>1, AxisKnows DEF Finished, moving
<1>. QED BY <1>1, <1>2, <1>3, <1>4, AxisKnows, FrameKeeps

LEMMA KeepPauseStatus ==
  ASSUME AxisCareful, AxisInv, PauseStatus
  PROVE  AxisInv'
<1>1. /\ msgTask = "pausing" /\ msgTask' = "idle" /\ status' = status \ {"IN_MOTION"}
      /\ UNCHANGED <<axis, timer, isr, motionPin, axisSem, moving>>
  BY DEF PauseStatus, OnlyStatus, Base, AxisCareful
<1>2. MoveStays /\ status' \subseteq Bits /\ (Live' => Live)
  BY <1>1, AxisKnows DEF MoveStays, moving, Modes, Bits, Live
<1>3. /\ "SYNC_READY" \in status' <=> "SYNC_READY" \in status
      /\ "IN_MOTION" \notin status' /\ ~timer
      /\ "MOVE_READY" \in status' <=> "MOVE_READY" \in status
      /\ "CURV" \in status' <=> "CURV" \in status
  BY <1>1, AxisKnows DEF TaskKnows
<1>4. TaskKnows'
  BY <1>1, <1>3, AxisKnows DEF TaskKnows
<1>5. Finished'
  BY <1>1, <1>3, AxisKnows DEF Finished, moving
<1>. QED BY <1>1, <1>2, <1>4, <1>5, AxisKnows, FrameKeeps

LEMMA KeepResume ==
  ASSUME AxisInv, Resume
  PROVE  AxisInv'
<1>1. /\ msgTask = "idle" /\ msgTask' \in {"resync", "restart"} /\ isr # "entered"
      /\ "MOVE_READY" \notin status /\ "IN_MOTION" \notin status
      /\ status' = status \/ status' = status \cup {"SYNC_READY"}
      /\ UNCHANGED <<axis, timer, isr, motionPin, axisSem, moving>>
  BY DEF Resume, OnlyStatus, NotOver
<1>2. MoveStays /\ status' \subseteq Bits /\ (Live' => Live)
  BY <1>1, AxisKnows DEF MoveStays, moving, Modes, Bits, Live
<1>3. /\ "IN_MOTION" \notin status' /\ ~timer /\ "MOVE_READY" \notin status' /\ isr = "armed"
  BY <1>1, AxisKnows DEF TaskKnows
<1>4. TaskKnows'
  BY <1>1, <1>3, AxisKnows DEF TaskKnows
<1>5. Finished'
  BY <1>3 DEF Finished
<1>. QED BY <1>1, <1>2, <1>4, <1>5, AxisKnows, FrameKeeps

LEMMA KeepResumeGo ==
  ASSUME AxisInv, ResumeGo
  PROVE  AxisInv'
<1>1. /\ msgTask = "restart" /\ msgTask' = "restarted" /\ timer' = TRUE /\ motionPin' = 1
      /\ UNCHANGED <<axis, status, isr, axisSem, moving>>
  BY DEF ResumeGo
<1>2. MoveStays /\ (Live' => Live)
  BY <1>1 DEF MoveStays, moving, Live
<1>3. TaskKnows'
  BY <1>1, AxisKnows DEF TaskKnows
<1>4. Finished'
  BY <1>1, AxisKnows DEF Finished, moving
<1>. QED BY <1>1, <1>2, <1>3, <1>4, AxisKnows, FrameKeeps

LEMMA KeepResumeStatus ==
  ASSUME AxisCareful, AxisInv, ResumeStatus
  PROVE  AxisInv'
<1>1. /\ msgTask = "restarted" /\ msgTask' = "idle"
      /\ status' = (status \cup {"IN_MOTION"}) \ {"SYNC_READY"}
      /\ UNCHANGED <<axis, timer, isr, motionPin, axisSem, moving>>
  BY DEF ResumeStatus, OnlyStatus, Base, AxisCareful
<1>2. MoveStays /\ status' \subseteq Bits /\ (Live' => Live)
  BY <1>1, AxisKnows DEF MoveStays, moving, Modes, Bits, Live
<1>3. /\ "SYNC_READY" \notin status' /\ "IN_MOTION" \in status' /\ timer
      /\ "MOVE_READY" \notin status'
  BY <1>1, AxisKnows DEF TaskKnows
<1>4. TaskKnows'
  BY <1>1, <1>3, AxisKnows DEF TaskKnows
<1>5. Finished'
  BY <1>3 DEF Finished
<1>. QED BY <1>1, <1>2, <1>4, <1>5, AxisKnows, FrameKeeps

-----------------------------------------------------------------------------
(* A message that starts a move. *)

LEMMA DirectedIs ==
  ASSUME NEW s, NEW d \in {1, -1}
  PROVE  /\ "DIRECTION" \in Directed(s, d) <=> d = 1
         /\ \A b : b # "DIRECTION" => (b \in Directed(s, d) <=> b \in s)
         /\ s \subseteq Bits => Directed(s, d) \subseteq Bits
  BY DEF Directed, Bits

\* A message that comes finds the axis at rest, and the move begins.
LEMMA MoveBegins ==
  ASSUME AxisCareful, AxisInv, MoveComes, NEW how \in SUBSET Modes, NEW d \in {1, -1},
         NEW m, NEW p, NEW n, NEW w, Move(how, d, m, p, n, w)
  PROVE  \E s \in SUBSET Bits :
           /\ Begin(s, m, p, n, w)
           /\ \A b \in Modes : b \in s <=> b \in how
           /\ "MOVE_READY" \notin s /\ "IN_MOTION" \notin s /\ "SYNC_READY" \notin s
           /\ "DIRECTION" \in s <=> d = 1
           /\ ~timer /\ motionPin = 0 /\ axis' = axis /\ axisSem' = axisSem
<1>1. "IN_MOTION" \notin status /\ msgTask = "idle"
  BY DEF MoveComes, AxisCareful
<1>2. ~timer /\ motionPin = 0 /\ status \subseteq Bits /\ "SYNC_READY" \notin status
  BY <1>1, AxisKnows DEF TaskKnows
<1> DEFINE s0 == (status \ Modes) \cup how
           s1 == s0 \ {"MOVE_READY"}
           s  == Directed(s1, d)
<1>3. "IN_MOTION" \notin s0
  BY <1>1 DEF Modes
<1>4. Begin(s, m, p, n, w) /\ axis' = axis /\ axisSem' = axisSem
  BY <1>3 DEF Move
<1>5. /\ s1 \subseteq Bits
      /\ \A b \in Modes : b \in s1 <=> b \in how
      /\ "MOVE_READY" \notin s1 /\ "IN_MOTION" \notin s1 /\ "SYNC_READY" \notin s1
  BY <1>1, <1>2 DEF Modes, Bits
<1> HIDE DEF s0, s1
<1>6. /\ "DIRECTION" \in s <=> d = 1
      /\ \A b : b # "DIRECTION" => (b \in s <=> b \in s1)
      /\ s \subseteq Bits
  BY <1>5, DirectedIs
<1> HIDE DEF s
<1>7. \A b \in Modes : b \in s <=> b \in how
  BY <1>5, <1>6 DEF Modes
<1>. QED BY <1>2, <1>4, <1>5, <1>6, <1>7

\* What a move sets at its beginning, whatever it is.
LEMMA BeginSets ==
  ASSUME AxisInv, NEW s \in SUBSET Bits, NEW m \in [end : Point, radius : Nat, cw : BOOLEAN],
         NEW p, NEW n \in 0..Clk, NEW w \in [pulses : Int, steps : Nat, stopped : BOOLEAN],
         Begin(s, m, p, n, w), ~timer, motionPin = 0, axis' = axis, axisSem' = axisSem
  PROVE  /\ mv' = m /\ want' = w /\ pos' = 0 /\ fast' \in BOOLEAN
         /\ cnt' \in [cur : 0..Clk, end : 0..Clk, acc : 0..Clk, dec : 0..Clk]
         /\ cnt'.cur = 0 /\ cnt'.end = n /\ Brakes'
         /\ ~timer' /\ timer' \in BOOLEAN /\ isr' = "armed" /\ motionPin' = 0
         /\ msgTask' \in {"sync", "go"} /\ axis' \in XY /\ axisSem' \in {0, 1}
<1>1. Clk \in Nat
  BY AxisAssumption
<1>2. cnt' = [cur |-> 0, end |-> n, acc |-> Clk, dec |-> Clk]
  BY DEF Begin, ResetMove
<1>3. /\ cnt' \in [cur : 0..Clk, end : 0..Clk, acc : 0..Clk, dec : 0..Clk]
      /\ cnt'.cur = 0 /\ cnt'.end = n /\ cnt'.dec = Clk
  BY <1>1, <1>2
<1>4. Brakes'
  BY <1>3 DEF Brakes
<1>5. /\ mv' = m /\ want' = w /\ pos' = 0 /\ fast' \in BOOLEAN
      /\ timer' = FALSE /\ isr' = "armed" /\ motionPin' = 0
      /\ msgTask' \in {"sync", "go"}
  BY DEF Begin
<1>6. axis \in XY /\ axisSem \in {0, 1}
  BY DEF AxisInv, AxisTypeOK
<1>. QED BY <1>3, <1>4, <1>5, <1>6

\* And what is left to show of it.
LEMMA BegunWell ==
  ASSUME AxisInv, NEW s \in SUBSET Bits, NEW m \in [end : Point, radius : Nat, cw : BOOLEAN],
         NEW p, NEW n \in 0..Clk, NEW w \in [pulses : Int, steps : Nat, stopped : BOOLEAN],
         Begin(s, m, p, n, w), ~timer, motionPin = 0, axis' = axis, axisSem' = axisSem,
         status' \subseteq Bits, stepAxis' \in XY \cup {"none"}, cur' \in Point, walked' \in Nat,
         OneMode', "IN_MOTION" \notin status',
         \/ "MOVE_READY" \notin status' /\ (InJog' \/ InLine' \/ InCurve')
         \/ "MOVE_READY" \in status' /\ n = 0 /\ w.pulses = 0 /\ "CURV" \notin status'
  PROVE  AxisInv'
<1>1. /\ mv' = m /\ want' = w /\ pos' = 0 /\ fast' \in BOOLEAN
      /\ cnt' \in [cur : 0..Clk, end : 0..Clk, acc : 0..Clk, dec : 0..Clk]
      /\ cnt'.cur = 0 /\ cnt'.end = n /\ Brakes'
      /\ ~timer' /\ timer' \in BOOLEAN /\ isr' = "armed" /\ motionPin' = 0
      /\ msgTask' \in {"sync", "go"} /\ axis' \in XY /\ axisSem' \in {0, 1}
  BY BeginSets
<1>2. AxisTypeOK'
  BY <1>1 DEF AxisTypeOK
<1>3. TaskKnows'
  BY <1>1 DEF TaskKnows
<1>4. Finished'
  BY <1>1 DEF Finished
<1>5. Live' => "MOVE_READY" \notin status'
  BY <1>1 DEF Live
<1>. QED BY <1>1, <1>2, <1>3, <1>4, <1>5 DEF AxisInv

LEMMA KeepMoveJog ==
  ASSUME AxisCareful, AxisInv, MoveJog
  PROVE  AxisInv'
<1>1. MoveComes
  BY DEF MoveJog
<1>2. PICK n \in Jogs, d \in {1, -1} :
             Move({"JOG"}, d, [NoMove EXCEPT !.end = At(n, 0)], Zero, n,
                  Wanted(d * n, 0))
  BY DEF MoveJog
<1> DEFINE m == [NoMove EXCEPT !.end = At(n, 0)]
           w == Wanted(d * n, 0)
<1>3. n \in 0..Clk /\ n \in Nat \ {0} /\ n < Clk
  BY AxisAssumption
<1>4. Zero \in Point /\ At(n, 0) \in Point
  BY <1>3, PointAt DEF Zero
<1>5. m \in [end : Point, radius : Nat, cw : BOOLEAN]
  BY <1>4 DEF NoMove
<1>6. /\ w \in [pulses : Int, steps : Nat, stopped : BOOLEAN]
      /\ d = 1 => w.pulses = n
      /\ d = -1 => w.pulses = -n
  BY <1>3 DEF Wanted
<1> HIDE DEF m, w
<1>7. {"JOG"} \in SUBSET Modes
  BY DEF Modes
<1>8. PICK s \in SUBSET Bits :
           /\ Begin(s, m, Zero, n, w)
           /\ \A b \in Modes : b \in s <=> b \in {"JOG"}
           /\ "MOVE_READY" \notin s /\ "IN_MOTION" \notin s /\ "SYNC_READY" \notin s
           /\ "DIRECTION" \in s <=> d = 1
           /\ ~timer /\ motionPin = 0 /\ axis' = axis /\ axisSem' = axisSem
  BY <1>1, <1>2, <1>7, MoveBegins DEF m, w
<1>9. "JOG" \in s /\ "LINE" \notin s /\ "CURV" \notin s /\ "SYNC" \notin s
  BY <1>8 DEF Modes
<1>10. /\ mv' = m /\ want' = w /\ pos' = 0
       /\ cnt' \in [cur : 0..Clk, end : 0..Clk, acc : 0..Clk, dec : 0..Clk]
       /\ cnt'.cur = 0 /\ cnt'.end = n /\ axis' \in XY
  BY <1>3, <1>5, <1>6, <1>8, BeginSets
<1>11. status' = s /\ stepAxis' = axis /\ cur' = Zero /\ walked' = 0
  BY <1>8, <1>9 DEF Begin
<1>12. InJog'
  <2>1. "JOG" \in status' /\ stepAxis' = axis' /\ cnt'.cur < cnt'.end
    BY <1>3, <1>8, <1>9, <1>10, <1>11
  <2>2. d = 1 => "DIRECTION" \in status' /\ want'.pulses = n
    BY <1>6, <1>8, <1>10, <1>11
  <2>3. d = -1 => "DIRECTION" \notin status' /\ want'.pulses = -n
    BY <1>6, <1>8, <1>10, <1>11
  <2>4. CASE d = 1
    <3>1. "DIRECTION" \in status' /\ pos' = cnt'.cur /\ want'.pulses = cnt'.end
      BY <1>10, <2>2, <2>4
    <3>. QED BY <2>1, <3>1 DEF InJog
  <2>5. CASE d = -1
    <3>1. "DIRECTION" \notin status' /\ pos' + cnt'.cur = 0 /\ want'.pulses + cnt'.end = 0
      BY <1>3, <1>10, <2>3, <2>5
    <3>. QED BY <2>1, <3>1 DEF InJog
  <2>. QED BY <2>4, <2>5
<1>13. OneMode' /\ "MOVE_READY" \notin status' /\ "IN_MOTION" \notin status' /\ status' \subseteq Bits
  BY <1>8, <1>9, <1>11 DEF OneMode
<1>14. stepAxis' \in XY \cup {"none"} /\ cur' \in Point /\ walked' \in Nat
  BY <1>4, <1>8, <1>10, <1>11
<1>. QED BY <1>3, <1>5, <1>6, <1>8, <1>12, <1>13, <1>14, BegunWell

\* The bits of m_status once the first step of a path is announced.
LEMMA Announced ==
  ASSUME NEW s \in SUBSET Bits, NEW d \in {1, -1},
         status' = Directed(s, d) \cup {"SYNC_READY"}
  PROVE  /\ status' \subseteq Bits
         /\ "DIRECTION" \in status' <=> d = 1
         /\ "LINE" \in status' <=> "LINE" \in s
         /\ "CURV" \in status' <=> "CURV" \in s
         /\ "JOG" \in status' <=> "JOG" \in s
         /\ "MOVE_READY" \in status' <=> "MOVE_READY" \in s
         /\ "IN_MOTION" \in status' <=> "IN_MOTION" \in s
<1> DEFINE t == Directed(s, d)
<1>1. /\ "DIRECTION" \in t <=> d = 1
      /\ \A b : b # "DIRECTION" => (b \in t <=> b \in s)
      /\ t \subseteq Bits
  BY DirectedIs
<1>2. status' = t \cup {"SYNC_READY"}
  OBVIOUS
<1> HIDE DEF t
<1>. QED BY <1>1, <1>2 DEF Bits

LEMMA KeepMoveLine ==
  ASSUME AxisCareful, AxisInv, MoveLine
  PROVE  AxisInv'
<1>1. MoveComes
  BY DEF MoveLine
<1>2. PICK x \in (-Far)..Far, y \in (-Far)..Far :
             Move({"SYNC", "LINE"}, 1, [NoMove EXCEPT !.end = At(x, y)], Zero,
                  Abs(At(x, y)[axis]), Wanted(At(x, y)[axis], 0))
  BY DEF MoveLine
<1> DEFINE e == At(x, y)
           m == [NoMove EXCEPT !.end = e]
           n == Abs(e[axis])
           w == Wanted(e[axis], 0)
<1>3. axis \in XY
  BY DEF AxisInv, AxisTypeOK
<1>4. x \in Int /\ y \in Int
  BY AxisAssumption
<1>5. e \in Point /\ e["X"] = x /\ e["Y"] = y
  BY <1>4, PointAt
<1>6. Zero \in Point /\ Zero["X"] = 0 /\ Zero["Y"] = 0
  BY PointAt DEF Zero
<1>7. e[axis] \in (-Far)..Far
  BY <1>3, <1>5 DEF XY
<1>8. n \in 0..Clk /\ n \in Nat
  BY <1>7, AxisAssumption DEF Abs
<1>9. m \in [end : Point, radius : Nat, cw : BOOLEAN] /\ m.end = e
  BY <1>5 DEF NoMove
<1>10. w \in [pulses : Int, steps : Nat, stopped : BOOLEAN] /\ w.pulses = e[axis]
  BY <1>7, AxisAssumption DEF Wanted
<1> HIDE DEF m, w, e, n
<1>11. {"SYNC", "LINE"} \in SUBSET Modes
  BY DEF Modes
<1>12. PICK s \in SUBSET Bits :
           /\ Begin(s, m, Zero, n, w)
           /\ \A b \in Modes : b \in s <=> b \in {"SYNC", "LINE"}
           /\ "MOVE_READY" \notin s /\ "IN_MOTION" \notin s /\ "SYNC_READY" \notin s
           /\ "DIRECTION" \in s <=> 1 = 1
           /\ ~timer /\ motionPin = 0 /\ axis' = axis /\ axisSem' = axisSem
  BY <1>1, <1>2, <1>11, MoveBegins DEF m, w, n, e
<1>13. "JOG" \notin s /\ "LINE" \in s /\ "CURV" \notin s
  BY <1>12 DEF Modes
<1>14. /\ mv' = m /\ want' = w /\ pos' = 0
       /\ cnt' \in [cur : 0..Clk, end : 0..Clk, acc : 0..Clk, dec : 0..Clk]
       /\ cnt'.cur = 0 /\ cnt'.end = n /\ axis' \in XY
  BY <1>8, <1>9, <1>10, <1>12, BeginSets
<1>15. CASE Zero = e
  <2>1. Arrived(s, Zero, m.end, 0)
    BY <1>9, <1>13, <1>15 DEF Arrived
  <2>2. /\ status' = ((s \ {"IN_MOTION"}) \cup {"MOVE_READY"}) \cup {"SYNC_READY"}
        /\ cur' = Zero /\ walked' = 0 /\ stepAxis' = stepAxis
    BY <1>12, <1>13, <2>1 DEF Begin, Ready
  <2>3. status' \subseteq Bits /\ OneMode' /\ "IN_MOTION" \notin status' /\ "CURV" \notin status'
        /\ "MOVE_READY" \in status'
    BY <1>13, <2>2 DEF OneMode, Bits
  <2>4. e[axis] = 0
    BY <1>3, <1>6, <1>15 DEF XY
  <2>5. n = 0 /\ w.pulses = 0
    BY <1>10, <2>4 DEF n, Abs
  <2>6. stepAxis' \in XY \cup {"none"} /\ cur' \in Point /\ walked' \in Nat
    BY <1>6, <2>2 DEF AxisInv, AxisTypeOK
  <2>. QED BY <1>8, <1>9, <1>10, <1>12, <2>3, <2>5, <2>6, BegunWell
<1>16. CASE Zero # e
  <2> DEFINE d == LinearStep(Zero, e)
             q == Moved(Zero, d.axis, d.by)
  <2>1. ~Arrived(s, Zero, m.end, 0)
    BY <1>9, <1>16 DEF Arrived
  <2>2. /\ status' = Directed(s, d.by) \cup {"SYNC_READY"}
        /\ cur' = q /\ walked' = 1 /\ stepAxis' = d.axis
    BY <1>9, <1>12, <1>13, <2>1 DEF Begin
  <2>3. \A a \in XY : Within(Zero[a], e[a])
    <3>1. e["X"] \in Int /\ e["Y"] \in Int
      BY <1>4, <1>5
    <3>. QED BY <1>6, <3>1 DEF Within, XY
  <2>4. /\ d.axis \in XY /\ d.by \in {1, -1} /\ q \in Point
        /\ \A a \in XY : Within(q[a], e[a])
        /\ \A a \in XY : /\ q[a] = Zero[a] + (IF a = d.axis THEN d.by ELSE 0)
                         /\ Abs(q[a]) = Abs(Zero[a]) + (IF a = d.axis THEN 1 ELSE 0)
    BY <1>5, <1>6, <1>16, <2>3, LineStepAway
  <2> DEFINE by == d.by  along == d.axis
  <2> HIDE DEF d, q
  <2>5. /\ status' \subseteq Bits
        /\ "DIRECTION" \in status' <=> by = 1
        /\ "LINE" \in status' <=> "LINE" \in s
        /\ "CURV" \in status' <=> "CURV" \in s
        /\ "JOG" \in status' <=> "JOG" \in s
        /\ "MOVE_READY" \in status' <=> "MOVE_READY" \in s
        /\ "IN_MOTION" \in status' <=> "IN_MOTION" \in s
    BY <2>2, <2>4, Announced
  <2>6. /\ Zero[axis] = 0 /\ Abs(Zero[axis]) = 0
    BY <1>3, <1>6 DEF XY, Abs
  <2>7. OwnStep' = IF along = axis THEN 1 ELSE 0
    BY <1>12, <2>2 DEF OwnStep
  <2>8. OwnWay' = IF along = axis THEN by ELSE 0
    <3>1. by = 1 \/ by = -1
      BY <2>4
    <3>2. by = 1 => Sign("DIRECTION" \in status') = 1
      BY <2>5 DEF Sign
    <3>3. by = -1 => Sign("DIRECTION" \in status') = -1
      BY <2>5 DEF Sign
    <3>4. OwnWay' = IF along = axis THEN Sign("DIRECTION" \in status') ELSE 0
      BY <1>12, <2>2 DEF OwnWay
    <3>. QED BY <3>1, <3>2, <3>3, <3>4
  <2>9. cnt'.cur + OwnStep' = Abs(cur'[axis]) /\ pos' + OwnWay' = cur'[axis]
    <3>1. /\ q[axis] = IF axis = along THEN by ELSE 0
          /\ Abs(q[axis]) = IF axis = along THEN 1 ELSE 0
      <4>1. /\ q[axis] = Zero[axis] + (IF axis = along THEN by ELSE 0)
            /\ Abs(q[axis]) = Abs(Zero[axis]) + (IF axis = along THEN 1 ELSE 0)
        BY <1>3, <2>4
      <4>2. by \in Int
        BY <2>4
      <4> HIDE DEF by, along
      <4>. QED BY <2>6, <4>1, <4>2
    <3>2. by \in Int
      BY <2>4
    <3> HIDE DEF by, along
    <3>. QED BY <1>14, <2>2, <2>7, <2>8, <3>1, <3>2
  <2>10. InLine'
    <3>1. \A a \in XY : Within(cur'[a], mv'.end[a])
      BY <1>9, <1>14, <2>2, <2>4
    <3>2. want'.pulses = mv'.end[axis'] /\ cnt'.end = Abs(mv'.end[axis'])
      BY <1>9, <1>10, <1>12, <1>14 DEF n
    <3>3. "LINE" \in status' /\ stepAxis' \in XY
      BY <1>13, <2>2, <2>4, <2>5
    <3>. QED BY <1>12, <2>9, <3>1, <3>2, <3>3 DEF InLine
  <2>11. OneMode' /\ "MOVE_READY" \notin status' /\ "IN_MOTION" \notin status'
    BY <1>12, <1>13, <2>5 DEF OneMode
  <2>12. stepAxis' \in XY \cup {"none"} /\ cur' \in Point /\ walked' \in Nat
    BY <2>2, <2>4
  <2>. QED BY <1>8, <1>9, <1>10, <1>12, <2>5, <2>10, <2>11, <2>12, BegunWell
<1>. QED BY <1>15, <1>16

\* What an arc of the model is made of.
LEMMA ArcIs ==
  ASSUME NEW c \in Arcs
  PROVE  \E r \in Radii, i \in Corners, cw \in BOOLEAN : \E n \in 1..(8 * r) :
           LET w == Walk(r, i, cw) IN
           c = [from |-> w[0].end, end |-> w[n].end, radius |-> r, cw |-> cw, steps |-> n,
                own |-> w[n].own]
<1>1. PICK r \in Radii, i \in Corners, cw \in BOOLEAN : c \in {Arc(r, i, cw, n) : n \in 1..(8 * r)}
  BY DEF Arcs
<1>2. PICK n \in 1..(8 * r) : c = Arc(r, i, cw, n)
  BY <1>1
<1>. QED BY <1>2 DEF Arc

LEMMA KeepMoveCurve ==
  ASSUME AxisCareful, AxisInv, MoveCurve
  PROVE  AxisInv'
<1>1. MoveComes
  BY DEF MoveCurve
<1>2. PICK c \in Arcs :
        /\ \A a \in XY : c.own[a] > 1
        /\ Move({"SYNC", "CURV"}, 1, [end |-> c.end, radius |-> c.radius, cw |-> c.cw],
                c.from, Clk, Wanted(c.end[axis] - c.from[axis], c.steps))
  BY DEF MoveCurve, AxisCareful
<1>3. PICK r \in Radii, i \in Corners, cw \in BOOLEAN : \E k \in 1..(8 * r) :
           LET v == Walk(r, i, cw) IN
           c = [from |-> v[0].end, end |-> v[k].end, radius |-> r, cw |-> cw, steps |-> k,
                own |-> v[k].own]
  BY ArcIs
<1> DEFINE v == Walk(r, i, cw)
<1>4. PICK k \in 1..(8 * r) :
           c = [from |-> v[0].end, end |-> v[k].end, radius |-> r, cw |-> cw, steps |-> k,
                own |-> v[k].own]
  BY <1>3
<1>5. /\ c.from = v[0].end /\ c.end = v[k].end /\ c.radius = r /\ c.cw = cw
      /\ c.steps = k /\ c.own = v[k].own
  BY <1>4
<1>6. r \in Nat \ {0, 1} /\ r \in Nat /\ i \in 0..3 /\ 8 * r < Clk /\ Clk \in Nat
  BY AxisAssumption
<1>7. /\ v \in [0..(8 * r) -> Leg] /\ v[0] = FirstLeg(r, i)
      /\ \A n \in 1..(8 * r) : v[n] = Further(v[n - 1], r, cw)
  BY <1>6, WalkIs
<1> DEFINE e == v[k].end  p == v[0].end
           m == [end |-> e, radius |-> r, cw |-> cw]
           w == Wanted(e[axis] - p[axis], k)
           d == CircularStep(p, r, cw)
<1> HIDE DEF v
<1>8. axis \in XY
  BY DEF AxisInv, AxisTypeOK
<1>9. 0 \in 0..(8 * r) /\ k \in 0..(8 * r) /\ 1 \in 1..(8 * r) /\ 1 - 1 = 0 /\ k \in Nat
  BY <1>6
<1>10. e \in Point /\ p \in Point /\ v[0].own = Zero
  BY <1>7, <1>9 DEF Leg, FirstLeg
<1>11. e[axis] \in Int /\ p[axis] \in Int
  BY <1>8, <1>10 DEF Point
<1>12. m \in [end : Point, radius : Nat, cw : BOOLEAN]
  BY <1>6, <1>10
<1>13. /\ w \in [pulses : Int, steps : Nat, stopped : BOOLEAN]
       /\ w.pulses = e[axis] - p[axis] /\ w.steps = k
  BY <1>9, <1>11 DEF Wanted
<1>14. Move({"SYNC", "CURV"}, 1, m, p, Clk, w)
  BY <1>2, <1>5
<1>15. {"SYNC", "CURV"} \in SUBSET Modes
  BY DEF Modes
<1>16. m.end = e /\ m.radius = r /\ m.cw = cw
  OBVIOUS
<1>17. v[k].own[axis] > 1
  BY <1>2, <1>5, <1>8
<1> HIDE DEF e, p, m, w
<1>18. PICK s \in SUBSET Bits :
           /\ Begin(s, m, p, Clk, w)
           /\ \A b \in Modes : b \in s <=> b \in {"SYNC", "CURV"}
           /\ "MOVE_READY" \notin s /\ "IN_MOTION" \notin s /\ "SYNC_READY" \notin s
           /\ "DIRECTION" \in s <=> 1 = 1
           /\ ~timer /\ motionPin = 0 /\ axis' = axis /\ axisSem' = axisSem
  BY <1>1, <1>14, <1>15, MoveBegins
<1>19. "JOG" \notin s /\ "LINE" \notin s /\ "CURV" \in s
  BY <1>18 DEF Modes
<1>20. Clk \in 0..Clk
  BY <1>6
<1>21. /\ mv' = m /\ want' = w /\ pos' = 0
       /\ cnt' \in [cur : 0..Clk, end : 0..Clk, acc : 0..Clk, dec : 0..Clk]
       /\ cnt'.cur = 0 /\ cnt'.end = Clk /\ axis' \in XY
  BY <1>12, <1>13, <1>18, <1>20, BeginSets
<1>22. ~Arrived(s, p, m.end, 0)
  BY <1>19 DEF Arrived
<1>23. /\ status' = Directed(s, d.by) \cup {"SYNC_READY"}
       /\ cur' = Moved(p, d.axis, d.by) /\ walked' = 1 /\ stepAxis' = d.axis
  BY <1>16, <1>18, <1>19, <1>22 DEF Begin
<1>24. d.axis \in XY /\ d.by \in {1, -1}
  BY StepTypes
<1>25. v[1] = Further(v[0], r, cw) /\ v[0] \in Leg
  BY <1>7, <1>9
<1>26. v[1].end = Moved(p, d.axis, d.by) /\ v[1].own = Moved(Zero, d.axis, 1)
  BY <1>10, <1>25, FurtherLeg DEF p
<1> DEFINE by == d.by  along == d.axis
<1> HIDE DEF d
<1>27. /\ status' \subseteq Bits
       /\ "DIRECTION" \in status' <=> by = 1
       /\ "LINE" \in status' <=> "LINE" \in s
       /\ "CURV" \in status' <=> "CURV" \in s
       /\ "JOG" \in status' <=> "JOG" \in s
       /\ "MOVE_READY" \in status' <=> "MOVE_READY" \in s
       /\ "IN_MOTION" \in status' <=> "IN_MOTION" \in s
  BY <1>23, <1>24, Announced
<1>28. OwnStep' = IF along = axis THEN 1 ELSE 0
  BY <1>18, <1>23 DEF OwnStep
<1>29. OwnWay' = IF along = axis THEN by ELSE 0
  <2>1. by = 1 \/ by = -1
    BY <1>24
  <2>2. by = 1 => Sign("DIRECTION" \in status') = 1
    BY <1>27 DEF Sign
  <2>3. by = -1 => Sign("DIRECTION" \in status') = -1
    BY <1>27 DEF Sign
  <2>4. OwnWay' = IF along = axis THEN Sign("DIRECTION" \in status') ELSE 0
    BY <1>18, <1>23 DEF OwnWay
  <2>. QED BY <2>1, <2>2, <2>3, <2>4
<1>30. /\ v[1].own[axis] = IF along = axis THEN 1 ELSE 0
       /\ v[1].end[axis] = p[axis] + (IF along = axis THEN by ELSE 0)
       /\ v[1].end \in Point
  <2>1. Zero \in Point /\ Zero["X"] = 0 /\ Zero["Y"] = 0
    BY PointAt DEF Zero
  <2>2. Zero[axis] = 0
    BY <1>8, <2>1 DEF XY
  <2>3. along \in XY /\ by \in Int /\ 1 \in Int
    BY <1>24
  <2> HIDE DEF along, by
  <2>4. v[1].end = Moved(p, along, by) /\ v[1].own = Moved(Zero, along, 1)
    BY <1>26 DEF along, by
  <2>5. /\ Moved(p, along, by)[along] = p[along] + by
        /\ axis # along => Moved(p, along, by)[axis] = p[axis]
        /\ Moved(p, along, by) \in Point
    <3>1. p \in Point /\ along \in XY /\ by \in Int
      BY <1>10, <2>3
    <3>. QED BY <1>8, <3>1, MovedPoint
  <2>6. /\ Moved(Zero, along, 1)[along] = Zero[along] + 1
        /\ axis # along => Moved(Zero, along, 1)[axis] = Zero[axis]
    BY <1>8, <2>1, <2>3, MovedPoint
  <2>. QED BY <1>11, <2>2, <2>4, <2>5, <2>6
<1>31. CurveOf(r, i, cw, k)'
  <2>1. mv' = [end |-> v[k].end, radius |-> r, cw |-> cw]
    BY <1>21 DEF m, e
  <2>2. want'.pulses = v[k].end[axis'] - v[0].end[axis'] /\ want'.steps = k
    BY <1>13, <1>18, <1>21 DEF e, p
  <2>3. v[k].own[axis'] > 1
    BY <1>17, <1>18
  <2>4. walked' \in 1..k /\ cur' = v[walked'].end
    <3>1. 1 \in 1..k
      BY <1>9
    <3>. QED BY <1>23, <1>26, <3>1 DEF along, by
  <2>5. cnt'.cur + OwnStep' = v[walked'].own[axis']
    <3>1. v[walked'].own[axis'] = IF along = axis THEN 1 ELSE 0
      BY <1>18, <1>23, <1>30
    <3>. QED BY <1>21, <1>28, <3>1
  <2>6. pos' + OwnWay' = cur'[axis'] - v[0].end[axis']
    <3>1. by \in Int
      BY <1>24
    <3>2. cur'[axis'] = p[axis] + (IF along = axis THEN by ELSE 0) /\ v[0].end[axis'] = p[axis]
      BY <1>18, <1>23, <1>26, <1>30 DEF p, along, by
    <3> HIDE DEF by, along
    <3>. QED BY <1>11, <1>21, <1>29, <3>1, <3>2
  <2>. QED BY <2>1, <2>2, <2>3, <2>4, <2>5, <2>6 DEF CurveOf, v
<1>32. InCurve'
  BY <1>19, <1>21, <1>23, <1>24, <1>27, <1>31 DEF InCurve
<1>33. OneMode' /\ "MOVE_READY" \notin status' /\ "IN_MOTION" \notin status'
  BY <1>18, <1>19, <1>27 DEF OneMode
<1>34. stepAxis' \in XY \cup {"none"} /\ cur' \in Point /\ walked' \in Nat
  <2>1. cur' \in Point
    BY <1>23, <1>26, <1>30
  <2>. QED BY <1>23, <1>24, <2>1
<1>. QED BY <1>12, <1>13, <1>18, <1>20, <1>27, <1>32, <1>33, <1>34, BegunWell

-----------------------------------------------------------------------------
(* The step interrupt. *)

\* What update_divider counts stays in range, and the brakes stay right.
LEMMA DividerKeeps ==
  ASSUME AxisInv, NEW n \in 0..Clk, update_divider(n)
  PROVE  /\ cnt' \in [cur : 0..Clk, end : 0..Clk, acc : 0..Clk, dec : 0..Clk]
         /\ fast' \in BOOLEAN /\ cnt'.cur = n /\ cnt'.end = cnt.end /\ Brakes'
<1>1. /\ cnt \in [cur : 0..Clk, end : 0..Clk, acc : 0..Clk, dec : 0..Clk]
      /\ fast \in BOOLEAN /\ Brakes /\ Clk \in Nat
  BY AxisAssumption DEF AxisInv, AxisTypeOK
<1>2. CASE ~fast /\ n < cnt.acc
  <2>1. fast' \in BOOLEAN /\ cnt' = [cnt EXCEPT !.cur = n]
    BY <1>2 DEF update_divider
  <2>. QED BY <1>1, <2>1 DEF Brakes
<1>3. CASE fast /\ n < cnt.acc
  <2> DEFINE b == BrakeFrom(n)
  <2>1. fast' = fast /\ cnt' = [cnt EXCEPT !.cur = n, !.dec = b, !.acc = n]
    BY <1>3 DEF update_divider
  <2>2. cnt.end \in 0..Clk
    BY <1>1
  <2>3. b \in 0..Clk /\ (b = cnt.end - n \/ (b = n /\ cnt.end <= 2 * n + 1))
    <3> DEFINE e == cnt.end
    <3>1. b = IF n < e \div 2 THEN e - n ELSE n
      BY DEF BrakeFrom
    <3>2. e \in 0..Clk
      BY <2>2
    <3>3. n \in 0..Clk
      OBVIOUS
    <3> HIDE DEF e, b
    <3>4. n < e \div 2 => 2 * n < e
      BY <1>1, <3>2, <3>3
    <3>5. ~(n < e \div 2) => e <= 2 * n + 1
      BY <1>1, <3>2, <3>3
    <3>6. b \in 0..Clk /\ (b = e - n \/ (b = n /\ e <= 2 * n + 1))
      BY <1>1, <3>1, <3>2, <3>3, <3>4, <3>5
    <3>. QED BY <3>6 DEF e
  <2> HIDE DEF b
  <2>4. cnt'.cur = n /\ cnt'.end = cnt.end /\ cnt'.dec = b /\ cnt'.acc = n
    BY <1>1, <2>1
  <2>5. cnt' \in [cur : 0..Clk, end : 0..Clk, acc : 0..Clk, dec : 0..Clk]
    BY <1>1, <2>1, <2>3
  <2>. QED BY <1>1, <2>1, <2>3, <2>4, <2>5 DEF Brakes
<1>4. CASE ~(n < cnt.acc)
  <2>1. fast' = fast /\ cnt' = [cnt EXCEPT !.cur = n]
    BY <1>4 DEF update_divider
  <2>. QED BY <1>1, <2>1 DEF Brakes
<1>. QED BY <1>2, <1>3, <1>4

\* The interrupt in the terms of the invariant: n own steps are made, the last
\* of them or not, the end of the path is there or not.
Served(n, last, there, d) ==
  /\ n = cnt.cur + OwnStep
  /\ last <=> stepAxis = axis /\ n = cnt.end
  /\ there <=> cur = mv.end /\ ("LINE" \in status \/ ("CURV" \in status /\ n > 1))
  /\ pos' = pos + OwnWay
  /\ timer' <=> timer /\ ~last /\ ~there
  /\ timer' \in BOOLEAN
  /\ motionPin' = IF last \/ there THEN 0 ELSE motionPin
  /\ IF ("LINE" \in status \/ "CURV" \in status) /\ ~there
     THEN /\ cur' = Moved(cur, d.axis, d.by) /\ stepAxis' = d.axis /\ walked' = walked + 1
          /\ "DIRECTION" \in status' <=> d.by = 1
     ELSE /\ UNCHANGED <<cur, stepAxis, walked>>
          /\ "DIRECTION" \in status' <=> "DIRECTION" \in status
  /\ "MOVE_READY" \in status' <=> "MOVE_READY" \in status \/ last \/ there
  /\ "IN_MOTION" \in status' <=> "IN_MOTION" \in status /\ ~last /\ ~there
  /\ \A b \in Modes \cup {"SYNC_READY"} : b \in status' <=> b \in status
  /\ status' \subseteq Bits
  /\ isr = "entered" /\ isr' = "armed"
  /\ update_divider(n)
  /\ UNCHANGED <<axis, axisSem, msgTask, mv, want>>

LEMMA WaysOfLines == ASSUME NEW p, NEW e PROVE LinearStep(p, e).by \in {1, -1}
  BY DEF LinearStep, Along, Sign

LEMMA IsrServes ==
  ASSUME AxisCareful, AxisInv, step_timer_isr
  PROVE  \E n, d : \E last \in BOOLEAN, there \in BOOLEAN :
           /\ Served(n, last, there, d)
           /\ d = IF "LINE" \in status THEN LinearStep(cur, mv.end)
                                       ELSE CircularStep(cur, mv.radius, mv.cw)
<1> DEFINE own   == stepAxis = axis
           n     == cnt.cur + (IF own THEN 1 ELSE 0)
           last  == own /\ n = cnt.end
           s     == IF last THEN Ready(status) ELSE status
           there == Arrived(s, cur, mv.end, n)
           d     == IF "LINE" \in s THEN LinearStep(cur, mv.end)
                                    ELSE CircularStep(cur, mv.radius, mv.cw)
           step  == s \cap {"LINE", "CURV"} # {} /\ ~there
<1>1. /\ isr = "entered" /\ isr' = "armed"
      /\ pos' = pos + (IF own THEN Sign("DIRECTION" \in status) ELSE 0)
      /\ timer' = (timer /\ ~last /\ ~there)
      /\ motionPin' = IF last \/ there THEN 0 ELSE motionPin
      /\ IF step
         THEN cur' = Moved(cur, d.axis, d.by) /\ stepAxis' = d.axis /\ walked' = walked + 1
         ELSE UNCHANGED <<cur, stepAxis, walked>>
      /\ status' = IF step THEN Directed(s, d.by) ELSE IF there THEN Ready(s) ELSE s
      /\ update_divider(n)
      /\ UNCHANGED <<axis, axisSem, msgTask, mv, want>>
  BY DEF step_timer_isr, Base, AxisCareful, LastStep
<1>2. timer \in BOOLEAN /\ status \subseteq Bits
  BY AxisKnows
<1>3. last \in BOOLEAN /\ there \in BOOLEAN /\ step \in BOOLEAN
  BY DEF Arrived
<1> HIDE DEF last
<1>4. /\ \A b \in Modes \cup {"SYNC_READY", "DIRECTION"} : b \in s <=> b \in status
      /\ "MOVE_READY" \in s <=> "MOVE_READY" \in status \/ last
      /\ "IN_MOTION" \in s <=> "IN_MOTION" \in status /\ ~last
      /\ s \subseteq Bits
  BY <1>2 DEF Ready, Modes, Bits
<1> HIDE DEF s
<1>5. ("LINE" \in s <=> "LINE" \in status) /\ ("CURV" \in s <=> "CURV" \in status)
  BY <1>4 DEF Modes
<1>6. there <=> cur = mv.end /\ ("LINE" \in status \/ ("CURV" \in status /\ n > 1))
  BY <1>5 DEF Arrived
<1>7. step <=> ("LINE" \in status \/ "CURV" \in status) /\ ~there
  BY <1>5
<1>8. d = IF "LINE" \in status THEN LinearStep(cur, mv.end)
                               ELSE CircularStep(cur, mv.radius, mv.cw)
  BY <1>5
<1>9. d.by \in {1, -1}
  BY WaysOfLines, StepTypes
<1> HIDE DEF there, step, d
<1> DEFINE t == Directed(s, d.by)
<1>10. /\ "DIRECTION" \in t <=> d.by = 1
       /\ \A b : b # "DIRECTION" => (b \in t <=> b \in s)
       /\ t \subseteq Bits
  BY <1>4, <1>9, DirectedIs
<1> HIDE DEF t
<1>11. step => ~there
  BY <1>7
<1>12. /\ status' \subseteq Bits
       /\ \A b \in Modes \cup {"SYNC_READY"} : b \in status' <=> b \in status
       /\ "MOVE_READY" \in status' <=> "MOVE_READY" \in status \/ last \/ there
       /\ "IN_MOTION" \in status' <=> "IN_MOTION" \in status /\ ~last /\ ~there
       /\ "DIRECTION" \in status' <=> IF step THEN d.by = 1 ELSE "DIRECTION" \in status
  <2>1. CASE step
    <3>1. status' = t
      BY <1>1, <2>1 DEF t
    <3>2. \A b \in Modes \cup {"SYNC_READY"} : b # "DIRECTION"
      BY DEF Modes
    <3>3. "MOVE_READY" # "DIRECTION" /\ "IN_MOTION" # "DIRECTION"
      OBVIOUS
    <3>. QED BY <1>4, <1>10, <1>11, <2>1, <3>1, <3>2, <3>3
  <2>2. CASE ~step /\ there
    <3>1. status' = (s \ {"IN_MOTION"}) \cup {"MOVE_READY"}
      BY <1>1, <2>2 DEF Ready
    <3>. QED BY <1>4, <2>2, <3>1 DEF Modes, Bits
  <2>3. CASE ~step /\ ~there
    <3>1. status' = s
      BY <1>1, <2>3
    <3>. QED BY <1>4, <2>3, <3>1
  <2>. QED BY <1>3, <2>1, <2>2, <2>3
<1>13. n = cnt.cur + OwnStep /\ pos' = pos + OwnWay
  BY <1>1 DEF OwnStep, OwnWay
<1>14. last <=> stepAxis = axis /\ n = cnt.end
  BY DEF last
<1> HIDE DEF n
<1>15. Served(n, last, there, d)
  <2>1. timer' \in BOOLEAN /\ (timer' <=> timer /\ ~last /\ ~there)
    BY <1>1, <1>2, <1>3
  <2>2. CASE step
    BY <1>1, <1>6, <1>7, <1>12, <1>13, <1>14, <2>1, <2>2 DEF Served
  <2>3. CASE ~step
    BY <1>1, <1>6, <1>7, <1>12, <1>13, <1>14, <2>1, <2>3 DEF Served
  <2>. QED BY <1>3, <2>2, <2>3
<1>. QED BY <1>3, <1>8, <1>15

\* What the interrupt leaves to show, according to the kind of move.
LEMMA ServedWell ==
  ASSUME AxisInv, NEW n \in 0..Clk, NEW last \in BOOLEAN, NEW there \in BOOLEAN, NEW d,
         Served(n, last, there, d),
         stepAxis' \in XY, cur' \in Point, walked' \in Nat, pos' \in Int,
         ~last /\ ~there => InJog' \/ InLine' \/ InCurve',
         last \/ there => pos' = want.pulses /\ ("CURV" \in status => walked' = want.steps)
  PROVE  AxisInv'
<1>1. /\ cnt' \in [cur : 0..Clk, end : 0..Clk, acc : 0..Clk, dec : 0..Clk]
      /\ fast' \in BOOLEAN /\ cnt'.cur = n /\ cnt'.end = cnt.end /\ Brakes'
  BY DividerKeeps DEF Served
<1>2. /\ timer' <=> timer /\ ~last /\ ~there
      /\ timer' \in BOOLEAN
      /\ motionPin' = IF last \/ there THEN 0 ELSE motionPin
      /\ "MOVE_READY" \in status' <=> "MOVE_READY" \in status \/ last \/ there
      /\ "IN_MOTION" \in status' <=> "IN_MOTION" \in status /\ ~last /\ ~there
      /\ status' \subseteq Bits
      /\ isr = "entered" /\ isr' = "armed"
      /\ UNCHANGED <<axis, axisSem, msgTask, mv, want>>
  BY DEF Served
<1>3. /\ "LINE" \in status' <=> "LINE" \in status
      /\ "CURV" \in status' <=> "CURV" \in status
      /\ "JOG" \in status' <=> "JOG" \in status
      /\ "SYNC_READY" \in status' <=> "SYNC_READY" \in status
  BY DEF Served, Modes
<1>4. AxisTypeOK'
  BY <1>1, <1>2 DEF AxisInv, AxisTypeOK
<1>5. OneMode'
  BY <1>3 DEF AxisInv, OneMode
<1>6. msgTask \in {"idle", "stopping", "pausing"}
  BY <1>2, AxisKnows DEF TaskKnows
<1>7. TaskKnows'
  BY <1>2, <1>3, <1>6, AxisKnows DEF TaskKnows
<1>8. Finished'
  BY <1>2, <1>3, AxisKnows DEF Finished
<1>9. Live' => ~last /\ ~there
  BY <1>2 DEF Live
<1>10. want' \in [pulses : Int, steps : Nat, stopped : BOOLEAN]
  BY <1>2, AxisKnows
<1>. QED BY <1>1, <1>4, <1>5, <1>7, <1>8, <1>9, <1>10 DEF AxisInv

LEMMA ServeJog ==
  ASSUME AxisInv, InJog, NEW n, NEW last \in BOOLEAN, NEW there \in BOOLEAN, NEW d,
         Served(n, last, there, d)
  PROVE  AxisInv'
<1>1. "LINE" \notin status /\ "CURV" \notin status
  BY DEF AxisInv, OneMode, InJog
<1>2. /\ cnt.cur \in 0..Clk /\ cnt.end \in 0..Clk /\ pos \in Int /\ Clk \in Nat
      /\ cur \in Point /\ walked \in Nat /\ axis \in XY
  BY AxisAssumption DEF AxisInv, AxisTypeOK
<1>3. stepAxis = axis /\ cnt.cur < cnt.end /\ n = cnt.cur + 1
  BY DEF InJog, Served, OwnStep
<1>4. n \in 0..Clk
  BY <1>2, <1>3
<1>5. /\ last <=> n = cnt.end
      /\ there = FALSE
      /\ pos' = pos + OwnWay
      /\ cur' = cur /\ stepAxis' = stepAxis /\ walked' = walked
      /\ "DIRECTION" \in status' <=> "DIRECTION" \in status
      /\ "JOG" \in status' <=> "JOG" \in status
      /\ axis' = axis /\ want' = want
  BY <1>1, <1>3 DEF Served, Modes
<1>6. cnt'.cur = n /\ cnt'.end = cnt.end
  BY <1>4, DividerKeeps DEF Served
<1>7. OwnWay = IF "DIRECTION" \in status THEN 1 ELSE -1
  BY <1>3 DEF OwnWay, Sign
<1>8. IF "DIRECTION" \in status THEN pos = cnt.cur /\ want.pulses = cnt.end
                                ELSE pos + cnt.cur = 0 /\ want.pulses + cnt.end = 0
  BY DEF InJog
<1>9. want.pulses \in Int
  BY AxisKnows
<1>10. pos' \in Int /\ IF "DIRECTION" \in status THEN pos' = n ELSE pos' + n = 0
  BY <1>2, <1>3, <1>5, <1>7, <1>8
<1>11. last => pos' = want.pulses
  BY <1>2, <1>5, <1>8, <1>9, <1>10
<1>12. ~last => InJog'
  <2> SUFFICES ASSUME ~last PROVE InJog'
    OBVIOUS
  <2>1. n < cnt.end
    BY <1>2, <1>3, <1>5
  <2>2. "JOG" \in status' /\ stepAxis' = axis' /\ cnt'.cur < cnt'.end
    BY <1>3, <1>5, <1>6, <2>1 DEF InJog
  <2>3. want'.pulses = want.pulses
    BY <1>5
  <2>4. CASE "DIRECTION" \in status
    <3>1. "DIRECTION" \in status' /\ pos' = cnt'.cur /\ want'.pulses = cnt'.end
      BY <1>5, <1>6, <1>8, <1>10, <2>3, <2>4
    <3>. QED BY <2>2, <3>1 DEF InJog
  <2>5. CASE "DIRECTION" \notin status
    <3>1. "DIRECTION" \notin status' /\ pos' + cnt'.cur = 0 /\ want'.pulses + cnt'.end = 0
      BY <1>5, <1>6, <1>8, <1>10, <2>3, <2>5
    <3>. QED BY <2>2, <3>1 DEF InJog
  <2>. QED BY <2>4, <2>5
<1>13. stepAxis' \in XY /\ cur' \in Point /\ walked' \in Nat
  BY <1>2, <1>3, <1>5
<1>. QED BY <1>1, <1>4, <1>5, <1>10, <1>11, <1>12, <1>13, ServedWell

\* OwnStep and OwnWay once the next step is announced.
LEMMA NextOwn ==
  ASSUME NEW n, NEW last, NEW there, NEW d, Served(n, last, there, d),
         "LINE" \in status \/ "CURV" \in status, ~there, d.by \in {1, -1}
  PROVE  /\ OwnStep' = IF d.axis = axis THEN 1 ELSE 0
         /\ OwnWay' = IF d.axis = axis THEN d.by ELSE 0
<1> DEFINE by == d.by  along == d.axis
<1>1. stepAxis' = along /\ axis' = axis /\ ("DIRECTION" \in status' <=> by = 1)
  BY DEF Served
<1>2. by = 1 \/ by = -1
  OBVIOUS
<1> HIDE DEF by, along
<1>3. OwnStep' = IF along = axis THEN 1 ELSE 0
  BY <1>1 DEF OwnStep
<1>4. by = 1 => Sign("DIRECTION" \in status') = 1
  BY <1>1 DEF Sign
<1>5. by = -1 => Sign("DIRECTION" \in status') = -1
  BY <1>1 DEF Sign
<1>6. OwnWay' = IF along = axis THEN Sign("DIRECTION" \in status') ELSE 0
  BY <1>1 DEF OwnWay
<1>7. OwnWay' = IF along = axis THEN by ELSE 0
  BY <1>2, <1>4, <1>5, <1>6
<1>. QED BY <1>3, <1>7 DEF by, along

LEMMA ServeLine ==
  ASSUME AxisInv, InLine, NEW n, NEW last \in BOOLEAN, NEW there \in BOOLEAN, NEW d,
         Served(n, last, there, d), d = LinearStep(cur, mv.end)
  PROVE  AxisInv'
<1>1. "LINE" \in status /\ "CURV" \notin status
  BY DEF AxisInv, OneMode, InLine
<1>2. /\ cnt.cur \in 0..Clk /\ cnt.end \in 0..Clk /\ pos \in Int /\ Clk \in Nat
      /\ cur \in Point /\ mv.end \in Point /\ walked \in Nat /\ axis \in XY
  BY AxisAssumption DEF AxisInv, AxisTypeOK
<1> DEFINE e == mv.end[axis]  c == cur[axis]
<1>3. e \in Int /\ c \in Int
  BY <1>2 DEF Point
<1>4. /\ stepAxis \in XY /\ \A a \in XY : Within(cur[a], mv.end[a])
      /\ want.pulses = e /\ cnt.end = Abs(e)
      /\ cnt.cur + OwnStep = Abs(c) /\ pos + OwnWay = c /\ Within(c, e)
  BY <1>2 DEF InLine
<1>5. /\ last <=> stepAxis = axis /\ n = cnt.end
      /\ there <=> cur = mv.end
      /\ pos' = pos + OwnWay /\ n = cnt.cur + OwnStep
      /\ axis' = axis /\ want' = want /\ mv' = mv
      /\ "LINE" \in status'
  BY <1>1 DEF Served, Modes
<1>6. n = Abs(c) /\ pos' = c
  BY <1>4, <1>5
<1> HIDE DEF c, e
<1>7. n \in 0..Clk
  BY <1>2, <1>3, <1>4, <1>6 DEF Within, Abs
<1>8. last => c = e
  BY <1>3, <1>4, <1>5, <1>6 DEF Within, Abs
<1>9. there => c = e
  BY <1>5 DEF c, e
<1>10. cnt'.cur = n /\ cnt'.end = cnt.end
  BY <1>7, DividerKeeps DEF Served
<1>11. last \/ there => pos' = want.pulses
  BY <1>4, <1>6, <1>8, <1>9
<1>12. CASE there
  <2>1. cur' = cur /\ stepAxis' = stepAxis /\ walked' = walked
    BY <1>12 DEF Served
  <2>2. stepAxis' \in XY /\ cur' \in Point /\ walked' \in Nat /\ pos' \in Int
    BY <1>2, <1>3, <1>4, <1>6, <2>1
  <2>. QED BY <1>1, <1>7, <1>11, <1>12, <2>2, ServedWell
<1>13. CASE ~there
  <2> DEFINE q == Moved(cur, d.axis, d.by)
  <2>1. cur # mv.end
    BY <1>5, <1>13
  <2>2. /\ d.axis \in XY /\ d.by \in {1, -1} /\ q \in Point
        /\ \A a \in XY : Within(q[a], mv.end[a])
        /\ \A a \in XY : /\ q[a] = cur[a] + (IF a = d.axis THEN d.by ELSE 0)
                         /\ Abs(q[a]) = Abs(cur[a]) + (IF a = d.axis THEN 1 ELSE 0)
    BY <1>2, <1>4, <2>1, LineStepAway
  <2>3. cur' = q /\ stepAxis' = d.axis /\ walked' = walked + 1
    BY <1>1, <1>13 DEF Served
  <2>4. /\ OwnStep' = IF d.axis = axis THEN 1 ELSE 0
        /\ OwnWay' = IF d.axis = axis THEN d.by ELSE 0
    BY <1>1, <1>13, <2>2, NextOwn
  <2>5. /\ q[axis] = c + (IF axis = d.axis THEN d.by ELSE 0)
        /\ Abs(q[axis]) = Abs(c) + (IF axis = d.axis THEN 1 ELSE 0)
    BY <1>2, <2>2 DEF c
  <2>6. InLine'
    <3>1. cnt'.cur + OwnStep' = Abs(cur'[axis']) /\ pos' + OwnWay' = cur'[axis']
      BY <1>5, <1>6, <1>10, <2>3, <2>4, <2>5
    <3>2. \A a \in XY : Within(cur'[a], mv'.end[a])
      BY <1>5, <2>2, <2>3
    <3>3. want'.pulses = mv'.end[axis'] /\ cnt'.end = Abs(mv'.end[axis'])
      BY <1>4, <1>5, <1>10 DEF e
    <3>4. "LINE" \in status' /\ stepAxis' \in XY
      BY <1>5, <2>2, <2>3
    <3>. QED BY <3>1, <3>2, <3>3, <3>4 DEF InLine
  <2>7. stepAxis' \in XY /\ cur' \in Point /\ walked' \in Nat /\ pos' \in Int
    BY <1>2, <1>3, <1>6, <2>2, <2>3
  <2>. QED BY <1>1, <1>7, <1>11, <1>13, <2>6, <2>7, ServedWell
<1>. QED BY <1>12, <1>13

LEMMA ServeCurve ==
  ASSUME AxisInv, InCurve, NEW n, NEW last \in BOOLEAN, NEW there \in BOOLEAN, NEW d,
         Served(n, last, there, d), d = CircularStep(cur, mv.radius, mv.cw)
  PROVE  AxisInv'
<1>1. "CURV" \in status /\ "LINE" \notin status
  BY DEF AxisInv, OneMode, InCurve
<1>2. /\ cnt.cur \in 0..Clk /\ cnt.end = Clk /\ pos \in Int /\ Clk \in Nat
      /\ cur \in Point /\ walked \in Nat /\ axis \in XY /\ stepAxis \in XY
  BY AxisAssumption DEF AxisInv, AxisTypeOK, InCurve
<1>3. PICK r \in Radii, i \in Corners, cw \in BOOLEAN :
             \E k \in 1..(8 * r) : CurveOf(r, i, cw, k)
  BY DEF InCurve
<1>4. PICK k \in 1..(8 * r) : CurveOf(r, i, cw, k)
  BY <1>3
<1>5. r \in Nat \ {0, 1} /\ r \in Nat /\ i \in 0..3 /\ 8 * r < Clk
  BY AxisAssumption
<1> DEFINE v == Walk(r, i, cw)  p == v[0].end[axis]
<1>6. /\ v \in [0..(8 * r) -> Leg]
      /\ \A j \in 1..(8 * r) : v[j] = Further(v[j - 1], r, cw)
  BY <1>5, WalkIs
<1>7. /\ mv = [end |-> v[k].end, radius |-> r, cw |-> cw]
      /\ want.pulses = v[k].end[axis] - p /\ want.steps = k
      /\ v[k].own[axis] > 1
      /\ walked \in 1..k /\ cur = v[walked].end
      /\ cnt.cur + OwnStep = v[walked].own[axis]
      /\ pos + OwnWay = cur[axis] - p
  BY <1>4 DEF CurveOf
<1>8. mv.end = v[k].end /\ mv.radius = r /\ mv.cw = cw
  BY <1>7
<1>9. \A j \in 0..(8 * r) : v[j].own["X"] \in 0..j /\ v[j].own["Y"] \in 0..j
  BY <1>5, WalkGoesRound
<1>10. \A j \in 1..(8 * r) : v[j].end = v[k].end => j = k
  BY <1>5, MetOnce
<1> HIDE DEF v
<1>11. walked \in 0..(8 * r) /\ walked \in 1..(8 * r) /\ k \in 0..(8 * r) /\ k \in Nat
  BY <1>2, <1>5, <1>7
<1>12. v[walked].own[axis] \in 0..walked
  BY <1>2, <1>9, <1>11 DEF XY
<1>13. p \in Int /\ cur[axis] \in Int /\ v[k].end[axis] \in Int
  <2>1. 0 \in 0..(8 * r)
    BY <1>5
  <2>2. v[0].end \in Point /\ v[k].end \in Point
    BY <1>6, <1>11, <2>1 DEF Leg
  <2>. QED BY <1>2, <2>2 DEF Point
<1> HIDE DEF p
<1>14. /\ last <=> stepAxis = axis /\ n = cnt.end
       /\ there <=> cur = mv.end /\ n > 1
       /\ pos' = pos + OwnWay /\ n = cnt.cur + OwnStep
       /\ axis' = axis /\ want' = want /\ mv' = mv
       /\ "CURV" \in status'
  BY <1>1 DEF Served, Modes
<1>15. n = v[walked].own[axis] /\ pos' = cur[axis] - p
  BY <1>7, <1>14
<1>16. n \in 0..Clk /\ n < Clk /\ ~last
  <2>1. n \in 0..walked
    BY <1>12, <1>15
  <2>2. n \in 0..Clk /\ n < Clk
    BY <1>2, <1>5, <1>11, <2>1
  <2>. QED BY <1>2, <1>14, <2>2
<1>17. there <=> walked = k
  <2>1. there => walked = k
    BY <1>7, <1>8, <1>10, <1>11, <1>14
  <2>2. walked = k => there
    BY <1>7, <1>8, <1>14, <1>15
  <2>. QED BY <2>1, <2>2
<1>18. cnt'.cur = n /\ cnt'.end = cnt.end
  BY <1>16, DividerKeeps DEF Served
<1>19. CASE there
  <2>1. cur' = cur /\ stepAxis' = stepAxis /\ walked' = walked
    BY <1>19 DEF Served
  <2>2. pos' = want.pulses /\ walked' = want.steps
    BY <1>7, <1>15, <1>17, <1>19, <2>1
  <2>3. stepAxis' \in XY /\ cur' \in Point /\ walked' \in Nat /\ pos' \in Int
    BY <1>2, <1>13, <1>15, <2>1
  <2>. QED BY <1>16, <1>19, <2>2, <2>3, ServedWell
<1>20. CASE ~there
  <2>1. walked # k /\ walked + 1 \in 1..k /\ walked + 1 \in 1..(8 * r) /\ walked + 1 - 1 = walked
    <3>1. walked # k
      BY <1>17, <1>20
    <3>2. walked \in 1..k /\ r \in Nat /\ k \in 1..(8 * r)
      BY <1>5, <1>7
    <3>. QED BY <3>1, <3>2
  <2>2. v[walked + 1] = Further(v[walked], r, cw) /\ v[walked] \in Leg
    BY <1>6, <1>11, <2>1
  <2>3. d = CircularStep(v[walked].end, r, cw)
    BY <1>7, <1>8
  <2>4. /\ v[walked + 1].end = Moved(v[walked].end, d.axis, d.by)
        /\ v[walked + 1].own = Moved(v[walked].own, d.axis, 1)
        /\ v[walked + 1] \in Leg
    BY <2>2, <2>3, FurtherLeg
  <2>5. d.axis \in XY /\ d.by \in {1, -1}
    BY StepTypes
  <2> DEFINE by == d.by  along == d.axis  o == v[walked].own  u == v[walked + 1]
  <2>6. cur' = u.end /\ stepAxis' = along /\ walked' = walked + 1
    BY <1>1, <1>7, <1>20, <2>4 DEF Served
  <2>7. /\ OwnStep' = IF along = axis THEN 1 ELSE 0
        /\ OwnWay' = IF along = axis THEN by ELSE 0
    BY <1>1, <1>20, <2>5, NextOwn
  <2>8. o \in Point /\ u.end \in Point /\ u.own \in Point /\ along \in XY /\ by \in Int /\ 1 \in Int
    BY <2>2, <2>4, <2>5 DEF Leg
  <2>9. u.end = Moved(cur, along, by) /\ u.own = Moved(o, along, 1)
    BY <1>7, <2>4
  <2>10. n = o[axis]
    BY <1>15
  <2> HIDE DEF by, along, o, u
  <2>11. /\ u.end[axis] = cur[axis] + (IF along = axis THEN by ELSE 0)
         /\ u.own[axis] = o[axis] + (IF along = axis THEN 1 ELSE 0)
    <3>1. Moved(cur, along, by)[axis] = cur[axis] + (IF along = axis THEN by ELSE 0)
      BY <1>2, <2>8, MovedBy
    <3>2. Moved(o, along, 1)[axis] = o[axis] + (IF along = axis THEN 1 ELSE 0)
      BY <1>2, <2>8, MovedBy
    <3>. QED BY <2>9, <3>1, <3>2
  <2>12. CurveOf(r, i, cw, k)'
    <3>1. mv' = [end |-> v[k].end, radius |-> r, cw |-> cw]
      BY <1>7, <1>14
    <3>2. want'.pulses = v[k].end[axis'] - v[0].end[axis'] /\ want'.steps = k
      BY <1>7, <1>14 DEF p
    <3>3. v[k].own[axis'] > 1
      BY <1>7, <1>14
    <3>4. walked' \in 1..k /\ cur' = v[walked'].end
      BY <2>1, <2>6 DEF u
    <3>5. cnt'.cur + OwnStep' = v[walked'].own[axis']
      <4>1. v[walked'].own[axis'] = u.own[axis]
        BY <1>14, <2>6 DEF u
      <4>. QED BY <1>18, <2>7, <2>10, <2>11, <4>1
    <3>6. pos' + OwnWay' = cur'[axis'] - v[0].end[axis']
      <4>1. cur'[axis'] = u.end[axis] /\ v[0].end[axis'] = p
        BY <1>14, <2>6 DEF p
      <4>. QED BY <1>13, <1>15, <2>7, <2>8, <2>11, <4>1
    <3>. QED BY <3>1, <3>2, <3>3, <3>4, <3>5, <3>6 DEF CurveOf, v
  <2>13. stepAxis' \in XY /\ cnt'.end = Clk
    BY <1>2, <1>18, <2>6, <2>8
  <2>14. InCurve'
    BY <1>14, <2>12, <2>13 DEF InCurve
  <2>15. cur' \in Point /\ walked' \in Nat /\ pos' \in Int
    BY <1>2, <1>13, <1>15, <2>6, <2>8
  <2>. QED BY <1>16, <1>20, <2>13, <2>14, <2>15, ServedWell
<1>. QED BY <1>19, <1>20

LEMMA KeepIsr ==
  ASSUME AxisCareful, AxisInv, step_timer_isr
  PROVE  AxisInv'
<1>1. PICK n, d : \E last \in BOOLEAN, there \in BOOLEAN :
           /\ Served(n, last, there, d)
           /\ d = IF "LINE" \in status THEN LinearStep(cur, mv.end)
                                       ELSE CircularStep(cur, mv.radius, mv.cw)
  BY IsrServes
<1>2. PICK last \in BOOLEAN, there \in BOOLEAN : Served(n, last, there, d)
  BY <1>1
<1>3. Live
  BY <1>2 DEF Served, Live
<1>4. CASE InJog
  BY <1>2, <1>4, ServeJog
<1>5. CASE InLine
  <2>1. d = LinearStep(cur, mv.end)
    BY <1>1, <1>5 DEF InLine
  <2>. QED BY <1>2, <1>5, <2>1, ServeLine
<1>6. CASE InCurve
  <2>1. "LINE" \notin status
    BY <1>6 DEF AxisInv, OneMode, InCurve
  <2>2. d = CircularStep(cur, mv.radius, mv.cw)
    BY <1>1, <2>1
  <2>. QED BY <1>2, <1>6, <2>2, ServeCurve
<1>. QED BY <1>3, <1>4, <1>5, <1>6 DEF AxisInv

LEMMA AxisSteps == AxisCareful /\ AxisInv /\ [AxisNext]_axisVars => AxisInv'
<1> SUFFICES ASSUME AxisCareful, AxisInv, [AxisNext]_axisVars PROVE AxisInv'
  OBVIOUS
<1>1. CASE MoveJog
  BY <1>1, KeepMoveJog
<1>2. CASE MoveLine
  BY <1>2, KeepMoveLine
<1>3. CASE MoveCurve
  BY <1>3, KeepMoveCurve
<1>4. CASE StopTimers
  BY <1>4, KeepStopTimers
<1>5. CASE PauseTimers
  BY <1>5, KeepPauseTimers
<1>6. CASE Resume
  BY <1>6, KeepResume
<1>7. CASE Task
  <2>1. CASE MoveTake \/ ResumeTake
    BY <2>1, KeepTaken
  <2>2. CASE MoveGo
    BY <2>2, KeepMoveGo
  <2>3. CASE MoveDone
    BY <2>3, KeepMoveDone
  <2>4. CASE StopStatus
    BY <2>4, KeepStopStatus
  <2>5. CASE PauseStatus
    BY <2>5, KeepPauseStatus
  <2>6. CASE ResumeGo
    BY <2>6, KeepResumeGo
  <2>7. CASE ResumeStatus
    BY <2>7, KeepResumeStatus
  <2>. QED BY <1>7, <2>1, <2>2, <2>3, <2>4, <2>5, <2>6, <2>7 DEF Task
<1>8. CASE SyncEdge
  BY <1>8, KeepSyncEdge
<1>9. CASE Alarm
  BY <1>9, KeepAlarm
<1>10. CASE step_timer_isr
  BY <1>10, KeepIsr
<1>11. CASE UNCHANGED axisVars
  <2>1. MoveStays /\ (Live' => Live)
    BY <1>11 DEF axisVars, moving, MoveStays, Live
  <2>2. TaskKnows' /\ Finished'
    BY <1>11, AxisKnows DEF axisVars, moving, TaskKnows, Finished
  <2>. QED BY <1>11, <2>1, <2>2, AxisKnows, FrameKeeps DEF axisVars
<1>. QED BY <1>1, <1>2, <1>3, <1>4, <1>5, <1>6, <1>7, <1>8, <1>9, <1>10, <1>11 DEF AxisNext

\* The invariant gives the properties.
LEMMA AxisShows == AxisInv => EspAxisCorrect
<1> SUFFICES ASSUME AxisInv PROVE EspAxisCorrect
  OBVIOUS
<1>1. AxisTypeOK
  BY DEF AxisInv
<1>2. MovesExactly
  BY AxisKnows DEF MovesExactly, Finished
<1>3. RunsOrRests
  BY AxisKnows DEF RunsOrRests, TaskKnows
<1>4. BrakesInTime
  <2> DEFINE c == cnt.cur  e == cnt.end  a == cnt.acc  b == cnt.dec
  <2>1. c \in 0..Clk /\ e \in 0..Clk /\ a \in 0..Clk /\ b \in 0..Clk /\ Clk \in Nat
    BY AxisAssumption DEF AxisInv, AxisTypeOK
  <2>2. b = Clk \/ b = e - a \/ (b = a /\ e <= 2 * a + 1)
    BY DEF AxisInv, Brakes
  <2> HIDE DEF c, e, a, b
  <2>3. c > b => e - c <= a
    BY <2>1, <2>2
  <2>. QED BY <2>3 DEF BrakesInTime, c, e, a, b
<1>. QED BY <1>1, <1>2, <1>3, <1>4 DEF EspAxisCorrect

\* An ESP that is careful with its messages and its interrupts is at every moment
\* of a jog, a line or a curve where its counters say: the pulses made and the one
\* announced on DIR_PIN add up to its place on the path (axis::move, step_timer_isr).
THEOREM AxisInvHolds == ASSUME AxisCareful PROVE AxisSpec => []AxisInv
<1>1. AxisInit => AxisInv
  BY AxisStart
<1>2. AxisInv /\ [AxisNext]_axisVars => AxisInv'
  BY AxisSteps
<1>. QED BY <1>1, <1>2, PTL DEF AxisSpec

\* For lines to any point, curves of any radius and length and jogs of any number
\* of steps, through any pauses: a move that reports MOVE_READY, and was not
\* stopped, has made exactly the pulses of its axis, what the ESP shows of its
\* motion is true, and it brakes in time (m_status, MOTION_PIN, update_divider).
THEOREM EspAxisIsCorrect == ASSUME AxisCareful PROVE AxisSpec => []EspAxisCorrect
<1>1. AxisInv => EspAxisCorrect
  BY AxisShows
<1>. QED BY <1>1, AxisInvHolds, PTL

=============================================================================
