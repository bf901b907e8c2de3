----------------------------- MODULE PicoLinkBus -----------------------------
(***************************************************************************)
(* PicoLink implements SpiBus.                                             *)
(***************************************************************************)
EXTENDS PicoLink

\* The stepper the shared semaphore stands for.
BusOwner == IF \E s \in Steppers : Holds(s)
            THEN CHOOSE s \in Steppers : Holds(s) ELSE None

\* The stage of a transaction shows at the two handshake pins and the buffer.
BusStage ==
  IF BusOwner = None THEN "free"
  ELSE IF trPin[BusOwner] = 0
       THEN IF rxBuf[BusOwner] = None THEN "ready" ELSE "sent"
       ELSE IF reqPin[BusOwner] = 1 THEN "asked" ELSE "done"

Bus == INSTANCE SpiBus WITH
         QueueLen <- MsgQueueLen, owner <- BusOwner, stage <- BusStage,
         inbox <- [s \in Steppers |-> Len(msgQ[s])]

\* What the mapping needs beyond LinkInv: the request pin is up while fired is set.
PinInv == \A s \in Steppers : fired[s] <=> reqPin[s] = 1

\* Every step of the link is a step of the bus or changes nothing it sees.
ImplementsBus == Bus!Spec

\* And every transaction the link has begun runs to its end.
ImplementsFairBus == Bus!FairSpec
=============================================================================
