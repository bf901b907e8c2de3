------------------------------ MODULE MCEarlier ------------------------------
(***************************************************************************)
(* The earlier generations of the program side by side: the ESP32 axis, the*)
(* SPI link to it, the laser machine that drove it, and the first C host.  *)
(* A behaviour is one of them; the others rest in a state of their own, of *)
(* which their properties hold as well.                                    *)
(***************************************************************************)
EXTENDS FirstHost, EspAxis, EspLink, LaserProgram, TLC

CONSTANTS t0, t1, t2, t3
Four == {t0, t1, t2, t3}

Seven == {<<>>, <<"on">>, <<"line", "line">>, <<"curve", "off", "curve">>,
          <<"on", "ena", "line", "off", "curve">>, <<"line", "set", "curve", "ena", "line">>,
          <<"line", "other", "line">>}

VARIABLE part   \* the one that runs: "axis", "link", "laser" or "host"

MCInit ==
  /\ part \in {"axis", "link", "laser", "host"}
  /\ AxisInit /\ (part # "axis" => axis = "X")
  /\ LinkInit /\ (part # "link" => spiSem = 0)
  /\ LaserInit /\ (part # "laser" => mode = "AUTO" /\ timerId = 0)
  /\ Init

MCNext ==
  /\ \/ part = "axis" /\ AxisNext /\ UNCHANGED <<linkVars, laserVars, vars>>
     \/ part = "link" /\ LinkNext /\ UNCHANGED <<axisVars, laserVars, vars>>
     \/ part = "laser" /\ LaserNext /\ UNCHANGED <<axisVars, linkVars, vars>>
     \/ part = "host" /\ Next /\ UNCHANGED <<axisVars, linkVars, laserVars>>
  /\ UNCHANGED part

MCSpec == MCInit /\ [][MCNext]_<<part, axisVars, linkVars, laserVars, vars>>

=============================================================================
