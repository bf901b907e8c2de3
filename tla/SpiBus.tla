------------------------------- MODULE SpiBus -------------------------------
(***************************************************************************)
(* What the command link promises: one stepper at a time owns the SPI bus, *)
(* its Pico answers the request, takes exactly one message and lets the    *)
(* bus go before the next one may ask.  A message is lost only when the    *)
(* Pico already holds QueueLen unhandled ones.                             *)
(***************************************************************************)
EXTENDS Naturals

CONSTANTS Steppers, QueueLen, None

VARIABLES
  owner,   \* the stepper that has the bus, or None
  stage,   \* how far its transaction is
  inbox    \* per stepper: messages taken and not yet handled

busVars == <<owner, stage, inbox>>

Init ==
  /\ owner = None /\ stage = "free"
  /\ inbox = [s \in Steppers |-> 0]

Acquire(s) ==
  /\ stage = "free"
  /\ owner' = s /\ stage' = "asked"
  /\ UNCHANGED inbox

Advance(from, to) == stage = from /\ stage' = to /\ UNCHANGED owner

Ready  == Advance("asked", "ready") /\ UNCHANGED inbox
Send   == Advance("ready", "sent") /\ UNCHANGED inbox
Accept == /\ Advance("sent", "done")
          /\ inbox' = [inbox EXCEPT ![owner] = IF @ < QueueLen THEN @ + 1 ELSE @]

Release ==
  /\ stage = "done"
  /\ owner' = None /\ stage' = "free"
  /\ UNCHANGED inbox

Handle(s) ==
  /\ inbox[s] > 0
  /\ inbox' = [inbox EXCEPT ![s] = @ - 1]
  /\ UNCHANGED <<owner, stage>>

Next ==
  \/ \E s \in Steppers : Acquire(s) \/ Handle(s)
  \/ Ready \/ Send \/ Accept \/ Release

Spec == Init /\ [][Next]_busVars

\* A transaction that has begun ends.
FairSpec == Spec /\ WF_busVars(Ready) /\ WF_busVars(Send)
                 /\ WF_busVars(Accept) /\ WF_busVars(Release)
=============================================================================
