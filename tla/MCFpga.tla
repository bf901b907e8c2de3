-------------------------------- MODULE MCFpga --------------------------------
(***************************************************************************)
(* The circuits of the FPGA side by side: a behaviour is one of the inputs,*)
(* of the status registers or of the SPI slave, while the other two rest in*)
(* a state of their own.  They share no register; what one hands to the    *)
(* next is free there (in of FpgaStatus changes at any clock edge).        *)
(***************************************************************************)
EXTENDS FpgaInputs, FpgaStatus, FpgaSpi

VARIABLE circuit       \* the circuit that runs: "inputs", "status" or "spi"

TwoInputs == [r \in {"x", "y"} |-> IF r = "x" THEN 1 ELSE 2]

\* A register file in which every address has a content of its own, none of them
\* the address itself.
Complement(b) == [i \in 0..Msb |-> 1 - b[i]]

MCInit ==
  /\ circuit \in {"inputs", "status", "spi"}
  /\ InputsInit /\ (circuit # "inputs" => pin = [l \in Lines |-> 1])
  /\ Init /\ (circuit # "status" => data = Each(Ones))
  /\ SpiInit

MCNext ==
  \/ circuit = "inputs" /\ InputsNext /\ UNCHANGED <<circuit, vars, spiVars>>
  \/ circuit = "status" /\ Next /\ UNCHANGED <<circuit, inputVars, spiVars>>
  \/ circuit = "spi" /\ SpiNext /\ UNCHANGED <<circuit, inputVars, vars>>

MCSpec == MCInit /\ [][MCNext]_<<circuit, inputVars, vars, spiVars>>
=============================================================================
