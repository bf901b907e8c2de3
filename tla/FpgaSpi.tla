-------------------------------- MODULE FpgaSpi --------------------------------
(***************************************************************************)
(* The SPI slave of the FPGA (module spi, and its part of top), clock edge *)
(* by clock edge, with the master of the host: two bytes, the address of a *)
(* register and then, while the register comes back, anything.  The slave  *)
(* sees the clock pin Delay edges late, behind sync and db.                *)
(***************************************************************************)
EXTENDS Integers, Sequences

CONSTANTS
  Msb,         \* MSB, the number of the first bit of a byte
  Delay,       \* clock edges from the pin spi_clk to spi_clk_db
  Half,        \* clock edges in half a period of spi_clk, at least
  Answer(_)    \* the content of the register with this address

Level   == {0, 1}
Byte    == [0..Msb -> Level]
Bytes   == 2                       \* FPGA_SPI_MSG_SIZE
MaxEdge == 2 * (Msb + 1)
Zero    == [i \in 0..Msb |-> 0]

ASSUME SpiAssumption ==
  /\ Msb \in Nat \ {0} /\ Delay \in Nat /\ Half \in Nat
  /\ Half >= Delay + 6
  /\ \A b \in Byte : Answer(b) \in Byte

VARIABLES
  \* master: chip select (active low), clock, edges since it moved, bytes to send,
  \* number of bits clocked, bits received
  cs, sck, since, msg, sent, got,
  \* slave: edges, the shift registers and their counters, handshake with top
  rise, fall, prev, shiftByte, txBit, rxByte, rxBit, edgesLeft, miso,
  txReady, txValid, rxValid,
  \* top: spi_byte_num, tx_byte, edges until the register has been fetched
  \* and spi_miso_reg, which drives the pin
  byteNum, answer, fetch, misoReg

master == <<cs, sck, since, msg, sent, got>>
slave  == <<rise, fall, prev, shiftByte, txBit, rxByte, rxBit, edgesLeft, miso,
            txReady, txValid, rxValid>>
top    == <<byteNum, answer, fetch, misoReg>>
spiVars == <<master, slave, top>>

SpiInit ==
  /\ cs = 1 /\ sck = 0 /\ since = Half /\ msg = <<Zero, Zero>> /\ sent = 0 /\ got = <<>>
  /\ rise = FALSE /\ fall = FALSE /\ prev = 0
  /\ shiftByte = Zero /\ txBit = Msb /\ rxByte = Zero /\ rxBit = Msb
  /\ edgesLeft = MaxEdge /\ miso = 0
  /\ txReady = FALSE /\ txValid = FALSE /\ rxValid = FALSE
  /\ byteNum = 0 /\ answer = Zero /\ fetch = 0 /\ misoReg = 0

-----------------------------------------------------------------------------
(* The slave.                                                              *)

\* spi_clk_db: the pin, Delay edges ago.
Seen == IF since >= Delay THEN sck ELSE 1 - sck

\* The bit the master sends now: the next one to clock, or the one just clocked.
Now  == IF sck = 1 THEN sent - 1 ELSE sent
BitAt(n) == IF n <= Msb THEN msg[1][Msb - n] ELSE msg[2][2 * Msb + 1 - n]
Mosi == BitAt(IF Now < Bytes * (Msb + 1) THEN Now ELSE Bytes * (Msb + 1) - 1)

Edges ==
  /\ prev' = Seen
  /\ rise' = (prev # Seen /\ Seen = 1)
  /\ fall' = (prev # Seen /\ Seen = 0)

EdgeCount ==
  edgesLeft' = IF cs = 1 \/ txValid THEN MaxEdge
               ELSE IF edgesLeft > 0 /\ (rise \/ fall) THEN edgesLeft - 1 ELSE edgesLeft

LastEdge == edgesLeft = 1

Miso ==
  \/ /\ cs = 1
     /\ txBit' = Msb /\ shiftByte' = Zero /\ miso' = 0 /\ txReady' = FALSE
  \/ /\ cs = 0 /\ txValid
     /\ shiftByte' = answer /\ txBit' = Msb /\ txReady' = FALSE
     /\ UNCHANGED miso
  \/ /\ cs = 0 /\ ~txValid /\ fall
     /\ miso' = shiftByte[txBit]
     /\ txBit' = IF txBit > 0 THEN txBit - 1 ELSE txBit
     /\ txReady' = (txBit = 0 /\ LastEdge)
     /\ UNCHANGED shiftByte
  \/ /\ cs = 0 /\ ~txValid /\ ~fall /\ edgesLeft = MaxEdge
     /\ miso' = shiftByte[Msb] /\ txBit' = Msb - 1 /\ txReady' = FALSE
     /\ UNCHANGED shiftByte
  \/ /\ cs = 0 /\ ~txValid /\ ~fall /\ edgesLeft # MaxEdge
     /\ txReady' = FALSE
     /\ UNCHANGED <<miso, txBit, shiftByte>>

Forgets == rxBit                                        \* mutant: not reset
FirstBit == Msb

Receive ==
  /\ rxByte' = IF cs = 0 /\ rise THEN [rxByte EXCEPT ![rxBit] = Mosi] ELSE rxByte
  /\ rxBit' = IF cs = 1 THEN FirstBit
              ELSE IF rise /\ rxBit > 0 THEN rxBit - 1
              ELSE IF txValid THEN FirstBit ELSE rxBit
  /\ rxValid' = (cs = 0 /\ rise /\ rxBit = 0)

\* top: the first byte is the address; data_read, rd_valid and tx_byte follow.
AddressOf(n) == n = 0

Fetch ==
  /\ txValid' = txReady
  /\ byteNum' = IF rxValid THEN byteNum + 1 ELSE IF cs = 1 THEN 0 ELSE byteNum
  /\ fetch' = IF rxValid /\ AddressOf(byteNum) THEN 2 ELSE IF fetch > 0 THEN fetch - 1 ELSE 0
  /\ misoReg' = miso
  /\ answer' = IF fetch = 1 THEN Answer(rxByte) ELSE answer

SlaveEdge == Edges /\ EdgeCount /\ Miso /\ Receive /\ Fetch

-----------------------------------------------------------------------------
(* The master: mode 0, a bit is set up while the clock is low and taken at *)
(* its rise.                                                               *)

Over == sent = Bytes * (Msb + 1) /\ sck = 0

Wait ==
  /\ since' = IF since < Half THEN since + 1 ELSE since
  /\ SlaveEdge
  /\ UNCHANGED <<cs, sck, msg, sent, got>>

Select ==
  /\ cs = 1 /\ since = Half
  /\ \E b, c \in Byte : msg' = <<b, c>>
  /\ cs' = 0 /\ sent' = 0 /\ got' = <<>>
  /\ since' = Delay                                     \* the clock pin does not move
  /\ SlaveEdge
  /\ UNCHANGED sck

Rise ==
  /\ cs = 0 /\ sck = 0 /\ since = Half /\ ~Over
  /\ sck' = 1 /\ since' = 0 /\ sent' = sent + 1 /\ got' = Append(got, misoReg)
  /\ SlaveEdge
  /\ UNCHANGED <<cs, msg>>

Fall ==
  /\ cs = 0 /\ sck = 1 /\ since = Half
  /\ sck' = 0 /\ since' = 0
  /\ SlaveEdge
  /\ UNCHANGED <<cs, msg, sent, got>>

Deselect ==
  /\ cs = 0 /\ since = Half /\ Over
  /\ cs' = 1 /\ since' = Delay
  /\ SlaveEdge
  /\ UNCHANGED <<sck, msg, sent, got>>

SpiNext == Wait \/ Select \/ Rise \/ Fall \/ Deselect

SpiSpec == SpiInit /\ [][SpiNext]_spiVars

-----------------------------------------------------------------------------
(* Properties.                                                             *)

SpiTypeOK ==
  /\ cs \in Level /\ sck \in Level /\ since \in 0..Half /\ msg \in Byte \X Byte
  /\ sent \in 0..(Bytes * (Msb + 1)) /\ got \in Seq(Level)
  /\ rise \in BOOLEAN /\ fall \in BOOLEAN /\ prev \in Level
  /\ shiftByte \in Byte /\ txBit \in 0..Msb /\ rxByte \in Byte /\ rxBit \in 0..Msb
  /\ edgesLeft \in 0..MaxEdge /\ miso \in Level
  /\ txReady \in BOOLEAN /\ txValid \in BOOLEAN /\ rxValid \in BOOLEAN
  /\ byteNum \in 0..Bytes /\ answer \in Byte /\ fetch \in 0..2
  /\ misoReg \in Level

\* Each byte that rx_valid announces is the one the master sent, in its turn
\* (spi): the counters are set back in time for the second byte.
BytesArrive == rxValid => byteNum < Bytes /\ rxByte = msg[byteNum + 1]

Received(k) == [i \in 0..Msb |-> got[k * (Msb + 1) - i]]

\* With half a clock period of at least Delay + 6 edges, and no fewer, the second
\* byte the master receives is the register it asked for in
\* the first (spi, top): the register is fetched and loaded between two clock edges.
AnswerArrives == Over => Received(2) = Answer(msg[1])

\* No byte goes uncounted: a transfer that is over has announced both.
AllCounted == cs = 0 /\ Over /\ since = Half => byteNum = Bytes

\* A transfer of two bytes is exact, in both directions and to the last bit.
TransferExact == BytesArrive /\ AnswerArrives /\ AllCounted
=============================================================================
