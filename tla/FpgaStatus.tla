------------------------------ MODULE FpgaStatus ------------------------------
(***************************************************************************)
(* The status registers of the FPGA, clock edge by clock edge: a module    *)
(* signal per status input (out, flip, intr), the always block of top that *)
(* shares one port of data_register between the SPI and the inputs, and    *)
(* the host, which answers a falling interrupt line by reading the register*)
(* over SPI.  A step is one rising edge of clk: every register takes its   *)
(* new value from the old ones.                                            *)
(***************************************************************************)
EXTENDS Integers

CONSTANTS
  Regs,        \* the status inputs, each with its register and line
  Rank,        \* their order in the else-if chain of top
  Values,      \* the values of a debounced status
  Ones,        \* what every input reads while the FPGA is reset
  Gap,         \* clock edges there are at least between two SPI events
  MaxReads,    \* bound: reads the host has still to make, per register
  MaxChanges   \* bound: clock edges at which an input changes

None == "none"

ASSUME RegsAssumption   == None \notin Regs
ASSUME RankAssumption   == /\ Rank \in [Regs -> Nat]
                           /\ \A r, q \in Regs : Rank[r] = Rank[q] => r = q
ASSUME ValuesAssumption == Ones \in Values
ASSUME GapAssumption    == Gap \in Nat /\ Gap >= 4
ASSUME ReadsAssumption  == MaxReads \in Nat /\ MaxReads >= 2
ASSUME ChangesAssumption == MaxChanges \in Nat

VARIABLES
  in, changes,                      \* in_db of each module signal, its changes so far
  out, flip, intr,                  \* its registers; the line is active low
  clr,                              \* the register whose *_intr_clear is low
  rdAddr, addr, read,               \* data_rd_addr, data_addr, data_read
  wrByte, wrValid,                  \* data_in, data_wr_valid
  data, rdByte, rdValid,            \* data_register
  txByte,                           \* tx_byte
  bus, asked, byte, wait,           \* the SPI transfer, the edges since its last event
  due, view,                        \* host: reads to make, the status it knows
  stale, missed, wrong              \* history, see the properties

signals == <<in, changes, out, flip, intr>>
memory  == <<data, rdByte, rdValid>>
port    == <<clr, rdAddr, addr, read, wrByte, wrValid, txByte>>
host    == <<bus, asked, byte, wait, due, view>>
vars    == <<signals, memory, port, host, stale, missed, wrong>>

Each(v) == [r \in Regs |-> v]

Init ==
  /\ in = Each(Ones) /\ changes = 0 /\ out = Each(Ones) /\ flip = Each(FALSE) /\ intr = Each(1)
  /\ clr = None /\ rdAddr = None /\ addr = None /\ read = FALSE
  /\ wrByte = Ones /\ wrValid = FALSE
  /\ data \in [Regs -> Values] /\ rdByte = Ones /\ rdValid = FALSE
  /\ txByte = Ones
  /\ bus = "free" /\ asked = None /\ byte = Ones /\ wait = Gap
  /\ due = Each(0) /\ view = Each(Ones)
  /\ stale = Each(TRUE) /\ missed = Each(FALSE) /\ wrong = Each(FALSE)

-----------------------------------------------------------------------------
(* The registers of signal and data_register.                              *)

Changes(r) == in[r] # out[r]                            \* flip_wire

OneShot(r) == Changes(r) /\ ~flip[r]                    \* mutant
Flips(r)   == Changes(r)

Lowered(r) == IF Changes(r) THEN 0 ELSE IF clr = r THEN 1 ELSE intr[r]  \* mutant
Line(r)    == IF clr = r THEN 1 ELSE IF Changes(r) THEN 0 ELSE intr[r]

Signal ==
  /\ in' \in [Regs -> Values]
  /\ changes' = IF in' = in THEN changes ELSE changes + 1
  /\ changes' <= MaxChanges
  /\ out' = in
  /\ flip' = [r \in Regs |-> Flips(r)]
  /\ intr' = [r \in Regs |-> Line(r)]

\* A read comes before a write.
DataRegister ==
  /\ rdValid' = read
  /\ rdByte' = IF read /\ addr # None THEN data[addr] ELSE rdByte
  /\ data' = IF wrValid /\ ~read THEN [data EXCEPT ![addr] = wrByte] ELSE data

-----------------------------------------------------------------------------
(* The always block of top.  asks is the register whose address has just   *)
(* come in as first byte (rx_valid), rises that cs has just gone up.       *)

\* The else-if chain: the first input that flipped has its status written.
Flipped == {r \in Regs : flip[r]}
Winners == {r \in Flipped : \A q \in Flipped : Rank[r] <= Rank[q]}

Lost(r, asks) == flip[r] /\ (r \notin Winners \/ asks # None)

ClearOf  == rdAddr

Top(asks, rises) ==
  /\ clr' = IF rises THEN ClearOf ELSE None
  /\ rdAddr' = IF asks # None THEN asks ELSE rdAddr
  /\ read' = (asks # None)
  /\ txByte' = IF rdValid THEN rdByte ELSE txByte
  /\ \/ /\ Flipped = {}
        /\ wrValid' = FALSE
        /\ addr' = IF asks # None THEN asks ELSE addr
        /\ UNCHANGED wrByte
     \/ \E r \in Winners : wrValid' = TRUE /\ addr' = r /\ wrByte' = out[r]

-----------------------------------------------------------------------------
(* The host: stepper_pin_isr starts a reader at each falling edge, which   *)
(* reads the register twice (stepper_read_fpga).                           *)

Single == 1                                             \* mutant: reads once
Twice  == 2
Reads  == Twice

Owed(n) == IF n < MaxReads THEN n ELSE MaxReads
Falls(r) == intr[r] = 1 /\ intr'[r] = 0

\* After a transfer of register over, its reads and those of new interrupts.
DueAfter(over) ==
  due' = [r \in Regs |->
            LET left == IF r = over THEN due[r] - 1 ELSE due[r]
            IN  IF Falls(r) THEN Owed(left + Reads) ELSE left]

Waits == wait' = IF wait < Gap THEN wait + 1 ELSE wait

\* A write that lands makes the register good again; one that is lost spoils it.
Histories(asks, sampled) ==
  /\ stale' = [r \in Regs |-> IF flip[r] THEN Lost(r, asks) ELSE stale[r]]
  /\ missed' = [r \in Regs |-> \/ clr = r /\ Changes(r)
                               \/ missed[r] /\ sampled # r]

\* A clock edge at which nothing happens on the SPI.
Quiet ==
  /\ Signal /\ DataRegister /\ Top(None, FALSE)
  /\ DueAfter(None) /\ Waits
  /\ Histories(None, None)
  /\ UNCHANGED <<bus, asked, byte, view, wrong>>

\* The address byte is in.
Ask(r) ==
  /\ bus = "free" /\ due[r] > 0 /\ wait = Gap
  /\ Signal /\ DataRegister /\ Top(r, FALSE)
  /\ bus' = "sent" /\ asked' = r /\ wait' = 0
  /\ DueAfter(None)
  /\ Histories(r, None)
  /\ wrong' = [wrong EXCEPT ![r] = addr' # r]
  /\ UNCHANGED <<byte, view>>

\* tx_valid: the shift register takes tx_byte.
Load ==
  /\ bus = "sent" /\ wait = Gap
  /\ Signal /\ DataRegister /\ Top(None, FALSE)
  /\ bus' = "loaded" /\ byte' = txByte /\ wait' = 0
  /\ DueAfter(None)
  /\ Histories(None, asked)
  /\ UNCHANGED <<asked, view, wrong>>

\* The transfer is over: cs goes up, the host has the byte.
Finish ==
  /\ bus = "loaded" /\ wait = Gap
  /\ Signal /\ DataRegister /\ Top(None, TRUE)
  /\ bus' = "free" /\ view' = [view EXCEPT ![asked] = byte] /\ wait' = 0
  /\ DueAfter(asked)
  /\ Histories(None, None)
  /\ UNCHANGED <<asked, byte, wrong>>

Next == Quiet \/ (\E r \in Regs : Ask(r)) \/ Load \/ Finish

Spec == Init /\ [][Next]_vars

-----------------------------------------------------------------------------
(* Properties.                                                             *)

TypeOK ==
  /\ in \in [Regs -> Values] /\ changes \in 0..MaxChanges /\ out \in [Regs -> Values]
  /\ flip \in [Regs -> BOOLEAN] /\ intr \in [Regs -> {0, 1}]
  /\ clr \in Regs \cup {None} /\ rdAddr \in Regs \cup {None}
  /\ addr \in Regs \cup {None} /\ read \in BOOLEAN
  /\ wrByte \in Values /\ wrValid \in BOOLEAN
  /\ data \in [Regs -> Values] /\ rdByte \in Values /\ rdValid \in BOOLEAN
  /\ txByte \in Values
  /\ bus \in {"free", "sent", "loaded"} /\ asked \in Regs \cup {None}
  /\ byte \in Values /\ wait \in 0..Gap
  /\ due \in [Regs -> 0..MaxReads] /\ view \in [Regs -> Values]
  /\ stale \in [Regs -> BOOLEAN] /\ missed \in [Regs -> BOOLEAN] /\ wrong \in [Regs -> BOOLEAN]

\* A write of register r is on its way.
Writing(r) == wrValid /\ addr = r

\* Once a change has been written, the register holds the status, unless the last
\* change came together with one of an input before it in the chain, or with the
\* address byte of a transfer (top): no write is lost in any other way.
RegisterFollows ==
  \A r \in Regs : ~stale[r] /\ ~flip[r] /\ ~Writing(r) => data[r] = out[r]

\* The line is not left low with nobody coming to read (signal, stepper_pin_isr):
\* no further edge would ever wake the host.
LineAnswered == \A r \in Regs : intr[r] = 0 => due[r] > 0 \/ clr = r

\* The invariant of the proofs.  A register that differs from the status has its
\* write still ahead of it, and the last write on its way is the right one.
Follows(r) ==
  /\ data[r] # out[r] => flip[r] \/ (Writing(r) /\ wrByte = out[r] /\ ~read)
  /\ Writing(r) /\ wrByte # out[r] => flip[r]

FpgaInv ==
  /\ TypeOK
  /\ \A r \in Regs : ~stale[r] => Follows(r)
  /\ LineAnswered
  /\ bus # "free" => asked \in Regs /\ rdAddr = asked /\ due[asked] > 0
  /\ clr # None => clr = asked /\ bus = "free" /\ wait = 0
  /\ wrValid => addr \in Regs
  /\ read => addr \in Regs

Settled(r) == /\ ~Changes(r) /\ ~flip[r] /\ ~Writing(r)
              /\ intr[r] = 1 /\ due[r] = 0

\* When the line is up and the host has made its reads, it knows the status,
\* unless the register was spoiled, or the change fell into the very cycle that
\* clears the line, or the address was replaced on its way (top, signal): a change
\* at any other point of the two reads reaches the host.
HostKnows ==
  \A r \in Regs : Settled(r) /\ ~stale[r] /\ ~missed[r] /\ ~wrong[r] => view[r] = out[r]

\* The interrupt line of a register goes up only after a transfer that named this
\* register, whatever is written meanwhile (top): reading one axis never hides
\* the interrupt of another.
OwnLine == [][\A r \in Regs : intr[r] = 0 /\ intr'[r] = 1 => asked = r]_vars
=============================================================================
