--------------------------- MODULE PicoLink_proofs ---------------------------
(***************************************************************************)
(* Proofs about PicoLink, for any number of steppers, callers and reader   *)
(* threads.  LinkType needs no scheduling assumption; everything else is   *)
(* proved under SerialReads, without PromptRemove.  The last part proves   *)
(* that the link implements the bus: the invariant of the link says where  *)
(* the mapping changes, at the trigger, at the Pico's answer, at the       *)
(* transfer, at the falling edge and at the post of the shared semaphore.  *)
(***************************************************************************)
EXTENDS PicoLinkBus, SequenceTheorems, TLAPS

\* The values of program counters and of the constants, used in most leaves.
LEMMA PCFacts ==
  /\ ReadPC \subseteq PC /\ SigPC \subseteq PC /\ CallPC \subseteq PC
  /\ "idle" \in PC
  /\ Zero \in Status /\ High \in Status
BY DEF PC, ReadPC, SigPC, CallPC, Zero, High, Status, Bit

\* signal_update returns a well-formed signal whatever the byte read.
LEMMA SignalType ==
  ASSUME NEW sg \in Signal, NEW new \in Status
  PROVE  signal_update(sg, new) \in Signal
BY DEF signal_update, Fell, Signal, Status, Bit

\* Every step keeps the types.
LEMMA LinkTypeStep ==
  ASSUME TypeOK, [Next]_vars
  PROVE  TypeOK'
<1> USE LinkAssumption
<1> USE DEF Goto, PC, ReadPC, SigPC, CallPC, Threads, Bit, hostVars, picoVars, PointAt,
            ReadAgain, SeesFall, SeesRise, HasRoom, pio_spi_client_disable
<1>1. ASSUME NEW t \in Threads, NEW s \in Steppers, Call(t, s) PROVE TypeOK'
  BY <1>1 DEF TypeOK, Call
<1>2. ASSUME NEW t \in Threads, Lock(t) PROVE TypeOK'
  BY <1>2 DEF TypeOK, Lock
<1>3. ASSUME NEW t \in Threads, Trigger(t) PROVE TypeOK'
  BY <1>3 DEF TypeOK, Trigger, SemCap
<1>4. ASSUME NEW t \in Threads, Wait(t) PROVE TypeOK'
  BY <1>4 DEF TypeOK, Wait, SemCap
<1>5. ASSUME NEW t \in Threads, Transfer(t) PROVE TypeOK'
  BY <1>5 DEF TypeOK, Transfer
<1>6. ASSUME NEW t \in Threads, Reset(t) PROVE TypeOK'
  BY <1>6 DEF TypeOK, Reset
<1>7. ASSUME NEW r \in Readers, NEW s \in Steppers, Spawn(r, s) PROVE TypeOK'
  BY <1>7 DEF TypeOK, Spawn
<1>8. ASSUME NEW r \in Readers, Fetch(r) PROVE TypeOK'
  BY <1>8 DEF TypeOK, Fetch
<1>9. ASSUME NEW r \in Readers, CsRise(r) PROVE TypeOK'
  <2>1. CASE Goto(r, "cs1", "send2")
    BY <1>9, <2>1 DEF TypeOK, CsRise
  <2>2. CASE Goto(r, "cs2", "update")
    BY <1>9, <2>2 DEF TypeOK, CsRise
  <2>3. QED
    BY <1>9, <2>1, <2>2 DEF CsRise
<1>10. ASSUME NEW r \in Readers, Update(r) PROVE TypeOK'
  BY <1>10, SignalType DEF TypeOK, Update
<1>11. ASSUME NEW r \in Readers, Post(r) PROVE TypeOK'
  <2>0. tgt[r] \in Steppers /\ reqSem[tgt[r]] \in 0..2
    BY <1>11 DEF TypeOK, Post, SemCap
  <2>1. reqSem' \in [Steppers -> 0..SemCap]
    <3>1. CASE sig[tgt[r]].low.spi = 1 /\ reqSem[tgt[r]] < 2
      <4>1. reqSem' = [reqSem EXCEPT ![tgt[r]] = @ + 1]
        BY <1>11, <3>1 DEF Post, SemCap
      <4>2. QED
        BY <4>1, <3>1, <2>0 DEF TypeOK, SemCap
    <3>2. CASE ~(sig[tgt[r]].low.spi = 1 /\ reqSem[tgt[r]] < 2)
      BY <1>11, <3>2 DEF Post, SemCap, TypeOK
    <3>3. QED
      BY <3>1, <3>2
  <2>2. pc' \in [Threads -> PC]
    BY <1>11 DEF TypeOK, Post
  <2>3. QED
    BY <1>11, <2>1, <2>2 DEF TypeOK, Post
<1>12. ASSUME NEW r \in Readers, UnlockTest(r) PROVE TypeOK'
  BY <1>12 DEF TypeOK, UnlockTest
<1>13. ASSUME NEW r \in Readers, UnlockPost(r) PROVE TypeOK'
  BY <1>13 DEF TypeOK, UnlockPost
<1>14. ASSUME NEW r \in Readers, MotionTest(r) PROVE TypeOK'
  BY <1>14, PCFacts DEF TypeOK, MotionTest
<1>15. ASSUME NEW p \in Steppers, IsrRise(p) PROVE TypeOK'
  BY <1>15 DEF TypeOK, IsrRise
<1>16. ASSUME NEW p \in Steppers, IsrFall(p) PROVE TypeOK'
  BY <1>16 DEF TypeOK, IsrFall
<1>17. ASSUME NEW p \in Steppers, Arm(p) PROVE TypeOK'
  BY <1>17 DEF TypeOK, Arm
<1>18. ASSUME NEW p \in Steppers, Remove(p) PROVE TypeOK'
  BY <1>18 DEF TypeOK, Remove
<1>19. ASSUME NEW p \in Steppers, Handle(p) PROVE TypeOK'
  BY <1>19 DEF TypeOK, Handle
<1>20. ASSUME NEW s \in Steppers, Capture(s) PROVE TypeOK'
  BY <1>20 DEF TypeOK, Capture
<1>21. ASSUME NEW s \in Steppers, MotorStart(s) PROVE TypeOK'
  BY <1>21 DEF TypeOK, MotorStart
<1>22. ASSUME NEW s \in Steppers, MotorStop(s) PROVE TypeOK'
  BY <1>22 DEF TypeOK, MotorStop
<1>23. CASE UNCHANGED vars
  BY <1>23 DEF TypeOK, vars
<1>24. QED
  BY <1>1, <1>2, <1>3, <1>4, <1>5, <1>6, <1>7, <1>8, <1>9, <1>10, <1>11, <1>12,
     <1>13, <1>14, <1>15, <1>16, <1>17, <1>18, <1>19, <1>20, <1>21, <1>22, <1>23
     DEF Next, CallerStep, ReaderStep, PicoStep

\* Every reachable state of the link is of the declared types: in particular
\* the queues keep their capacities.
THEOREM LinkType == Spec => []TypeOK
<1>1. Init => TypeOK
  BY LinkAssumption DEF Init, TypeOK, PC, Signal, Status, Bit, Zero, High, Threads,
     SemCap
<1>2. QED
  BY <1>1, LinkTypeStep, PTL DEF Spec
-----------------------------------------------------------------------------
\* Readers of one stepper do not overlap, and the status keeps its edges consistent.
LEMMA LinkReader ==
  ASSUME SerialReads, LinkInv, Next
  PROVE  ReaderInv'
<1> USE LinkAssumption DEF LinkInv, Goto, PointAt, ReadAgain, SeesFall, SeesRise, HasRoom,
            pio_spi_client_disable, ReadPC, SigPC, CallPC, Threads, Bit, hostVars,
            picoVars, TypeOK, ReaderInv, ActiveReader, Signal, Status
<1>1. ASSUME NEW t \in Threads, NEW s \in Steppers, Call(t, s) PROVE ReaderInv'
  BY <1>1 DEF Call
<1>2. ASSUME NEW t \in Threads, Lock(t) PROVE ReaderInv'
  BY <1>2 DEF Lock
<1>3. ASSUME NEW t \in Threads, Trigger(t) PROVE ReaderInv'
  BY <1>3 DEF Trigger
<1>4. ASSUME NEW t \in Threads, Wait(t) PROVE ReaderInv'
  BY <1>4 DEF Wait
<1>5. ASSUME NEW t \in Threads, Transfer(t) PROVE ReaderInv'
  BY <1>5 DEF Transfer
<1>6. ASSUME NEW t \in Threads, Reset(t) PROVE ReaderInv'
  BY <1>6 DEF Reset
<1>7. ASSUME NEW r \in Readers, NEW s \in Steppers, Spawn(r, s) PROVE ReaderInv'
  BY <1>7 DEF Spawn
<1>8. ASSUME NEW r \in Readers, Fetch(r) PROVE ReaderInv'
  BY <1>8 DEF Fetch
<1>9. ASSUME NEW r \in Readers, CsRise(r) PROVE ReaderInv'
  BY <1>9 DEF CsRise
<1>10. ASSUME NEW r \in Readers, Update(r) PROVE ReaderInv'
  BY <1>10 DEF Update, signal_update, Fell
<1>11. ASSUME NEW r \in Readers, Post(r) PROVE ReaderInv'
  BY <1>11 DEF Post
<1>12. ASSUME NEW r \in Readers, UnlockTest(r) PROVE ReaderInv'
  BY <1>12 DEF UnlockTest
<1>13. ASSUME NEW r \in Readers, UnlockPost(r) PROVE ReaderInv'
  BY <1>13 DEF UnlockPost
<1>14. ASSUME NEW r \in Readers, MotionTest(r) PROVE ReaderInv'
  BY <1>14 DEF MotionTest
<1>15. ASSUME NEW p \in Steppers, IsrRise(p) PROVE ReaderInv'
  BY <1>15 DEF IsrRise
<1>16. ASSUME NEW p \in Steppers, IsrFall(p) PROVE ReaderInv'
  BY <1>16 DEF IsrFall
<1>17. ASSUME NEW p \in Steppers, Arm(p) PROVE ReaderInv'
  BY <1>17 DEF Arm
<1>18. ASSUME NEW p \in Steppers, Remove(p) PROVE ReaderInv'
  BY <1>18 DEF Remove
<1>19. ASSUME NEW p \in Steppers, Handle(p) PROVE ReaderInv'
  BY <1>19 DEF Handle
<1>20. ASSUME NEW p \in Steppers, Capture(p) PROVE ReaderInv'
  BY <1>20 DEF Capture
<1>21. ASSUME NEW p \in Steppers, MotorStart(p) PROVE ReaderInv'
  BY <1>21 DEF MotorStart
<1>22. ASSUME NEW p \in Steppers, MotorStop(p) PROVE ReaderInv'
  BY <1>22 DEF MotorStop
<1>23. QED
  BY <1>1, <1>2, <1>3, <1>4, <1>5, <1>6, <1>7, <1>8, <1>9, <1>10, <1>11,
     <1>12, <1>13, <1>14, <1>15, <1>16, <1>17, <1>18, <1>19, <1>20, <1>21,
     <1>22 DEF Next, CallerStep, ReaderStep, PicoStep

\* The request semaphore and flag follow the caller that owns them.
LEMMA LinkRequest ==
  ASSUME SerialReads, LinkInv, Next
  PROVE  RequestInv'
<1> USE LinkAssumption DEF LinkInv, Goto, PointAt, ReadAgain, SeesFall, SeesRise, HasRoom,
            pio_spi_client_disable, ReadPC, SigPC, CallPC, Threads, Bit, hostVars,
            picoVars, TypeOK, RequestInv, Signal, Status
<1>1. ASSUME NEW t \in Threads, NEW s \in Steppers, Call(t, s) PROVE RequestInv'
  BY <1>1 DEF Call
<1>2. ASSUME NEW t \in Threads, Lock(t) PROVE RequestInv'
  BY <1>2 DEF Lock
<1>3. ASSUME NEW t \in Threads, Trigger(t) PROVE RequestInv'
  BY <1>3 DEF Trigger
<1>4. ASSUME NEW t \in Threads, Wait(t) PROVE RequestInv'
  BY <1>4 DEF Wait
<1>5. ASSUME NEW t \in Threads, Transfer(t) PROVE RequestInv'
  BY <1>5 DEF Transfer
<1>6. ASSUME NEW t \in Threads, Reset(t) PROVE RequestInv'
  <2>1. tgt[t] \in Steppers /\ mutex[tgt[t]] = t
    BY <1>6 DEF Reset
  <2>2. \A u \in Threads : u # t /\ pc[u] \in CallPC \ {"lock"} => tgt[u] # tgt[t]
    BY <2>1
  <2>3. QED
    BY <1>6, <2>1, <2>2 DEF Reset
<1>7. ASSUME NEW r \in Readers, NEW s \in Steppers, Spawn(r, s) PROVE RequestInv'
  BY <1>7 DEF Spawn
<1>8. ASSUME NEW r \in Readers, Fetch(r) PROVE RequestInv'
  <2>1. CASE Goto(r, "send1", "cs1")
    BY <1>8, <2>1 DEF Fetch
  <2>2. CASE Goto(r, "send2", "cs2")
    BY <1>8, <2>2 DEF Fetch
  <2>3. QED
    BY <1>8, <2>1, <2>2 DEF Fetch
<1>9. ASSUME NEW r \in Readers, CsRise(r) PROVE RequestInv'
  <2>1. CASE Goto(r, "cs1", "send2")
    BY <1>9, <2>1 DEF CsRise
  <2>2. CASE Goto(r, "cs2", "update")
    BY <1>9, <2>2 DEF CsRise
  <2>3. QED
    BY <1>9, <2>1, <2>2 DEF CsRise
<1>10. ASSUME NEW r \in Readers, Update(r) PROVE RequestInv'
  BY <1>10 DEF Update, signal_update, Fell, ChainInv, Reads
<1>11. ASSUME NEW r \in Readers, Post(r) PROVE RequestInv'
  BY <1>11 DEF Post, ReaderInv
<1>12. ASSUME NEW r \in Readers, UnlockTest(r) PROVE RequestInv'
  BY <1>12 DEF UnlockTest
<1>13. ASSUME NEW r \in Readers, UnlockPost(r) PROVE RequestInv'
  BY <1>13 DEF UnlockPost
<1>14. ASSUME NEW r \in Readers, MotionTest(r) PROVE RequestInv'
  BY <1>14 DEF MotionTest
<1>15. ASSUME NEW p \in Steppers, IsrRise(p) PROVE RequestInv'
  BY <1>15 DEF IsrRise
<1>16. ASSUME NEW p \in Steppers, IsrFall(p) PROVE RequestInv'
  BY <1>16 DEF IsrFall
<1>17. ASSUME NEW p \in Steppers, Arm(p) PROVE RequestInv'
  BY <1>17 DEF Arm
<1>18. ASSUME NEW p \in Steppers, Remove(p) PROVE RequestInv'
  BY <1>18 DEF Remove
<1>19. ASSUME NEW p \in Steppers, Handle(p) PROVE RequestInv'
  BY <1>19 DEF Handle
<1>20. ASSUME NEW p \in Steppers, Capture(p) PROVE RequestInv'
  BY <1>20 DEF Capture
<1>21. ASSUME NEW p \in Steppers, MotorStart(p) PROVE RequestInv'
  BY <1>21 DEF MotorStart
<1>22. ASSUME NEW p \in Steppers, MotorStop(p) PROVE RequestInv'
  BY <1>22 DEF MotorStop
<1>23. QED
  BY <1>1, <1>2, <1>3, <1>4, <1>5, <1>6, <1>7, <1>8, <1>9, <1>10, <1>11,
     <1>12, <1>13, <1>14, <1>15, <1>16, <1>17, <1>18, <1>19, <1>20, <1>21,
     <1>22 DEF Next, CallerStep, ReaderStep, PicoStep

\* SPI_READY changes travel down the chain one at a time.
LEMMA LinkChain ==
  ASSUME SerialReads, LinkInv, Next
  PROVE  ChainInv'
<1> USE LinkAssumption DEF LinkInv, Goto, PointAt, ReadAgain, SeesFall, SeesRise, HasRoom,
            pio_spi_client_disable, ReadPC, SigPC, CallPC, Threads, Bit, hostVars,
            picoVars, TypeOK, ChainInv, Reads, TokenInv, Holds, Unlocking, ReaderInv,
            ActiveReader, RequestInv, PicoInv, Signal, Status
<1>1. ASSUME NEW t \in Threads, NEW s \in Steppers, Call(t, s) PROVE ChainInv'
  BY <1>1 DEF Call
<1>2. ASSUME NEW t \in Threads, Lock(t) PROVE ChainInv'
  BY <1>2 DEF Lock
<1>3. ASSUME NEW t \in Threads, Trigger(t) PROVE ChainInv'
  BY <1>3 DEF Trigger
<1>4. ASSUME NEW t \in Threads, Wait(t) PROVE ChainInv'
  BY <1>4 DEF Wait
<1>5. ASSUME NEW t \in Threads, Transfer(t) PROVE ChainInv'
  BY <1>5 DEF Transfer
<1>6. ASSUME NEW t \in Threads, Reset(t) PROVE ChainInv'
  BY <1>6 DEF Reset
<1>7. ASSUME NEW r \in Readers, NEW s \in Steppers, Spawn(r, s) PROVE ChainInv'
  BY <1>7 DEF Spawn
<1>8. ASSUME NEW r \in Readers, Fetch(r) PROVE ChainInv'
  BY <1>8 DEF Fetch
<1>9. ASSUME NEW r \in Readers, CsRise(r) PROVE ChainInv'
  BY <1>9 DEF CsRise
<1>10. ASSUME NEW r \in Readers, Update(r) PROVE ChainInv'
  BY <1>10 DEF Update, signal_update, Fell
<1>11. ASSUME NEW r \in Readers, Post(r) PROVE ChainInv'
  BY <1>11 DEF Post
<1>12. ASSUME NEW r \in Readers, UnlockTest(r) PROVE ChainInv'
  BY <1>12 DEF UnlockTest
<1>13. ASSUME NEW r \in Readers, UnlockPost(r) PROVE ChainInv'
  BY <1>13 DEF UnlockPost
<1>14. ASSUME NEW r \in Readers, MotionTest(r) PROVE ChainInv'
  BY <1>14 DEF MotionTest
<1>15. ASSUME NEW p \in Steppers, IsrRise(p) PROVE ChainInv'
  BY <1>15 DEF IsrRise
<1>16. ASSUME NEW p \in Steppers, IsrFall(p) PROVE ChainInv'
  BY <1>16 DEF IsrFall
<1>17. ASSUME NEW p \in Steppers, Arm(p) PROVE ChainInv'
  BY <1>17 DEF Arm
<1>18. ASSUME NEW p \in Steppers, Remove(p) PROVE ChainInv'
  BY <1>18 DEF Remove
<1>19. ASSUME NEW p \in Steppers, Handle(p) PROVE ChainInv'
  BY <1>19 DEF Handle
<1>20. ASSUME NEW p \in Steppers, Capture(p) PROVE ChainInv'
  BY <1>20 DEF Capture
<1>21. ASSUME NEW p \in Steppers, MotorStart(p) PROVE ChainInv'
  BY <1>21 DEF MotorStart
<1>22. ASSUME NEW p \in Steppers, MotorStop(p) PROVE ChainInv'
  BY <1>22 DEF MotorStop
<1>23. QED
  BY <1>1, <1>2, <1>3, <1>4, <1>5, <1>6, <1>7, <1>8, <1>9, <1>10, <1>11,
     <1>12, <1>13, <1>14, <1>15, <1>16, <1>17, <1>18, <1>19, <1>20, <1>21,
     <1>22 DEF Next, CallerStep, ReaderStep, PicoStep

\* The Pico arms once per request and its buffer keeps the message.
LEMMA LinkPico ==
  ASSUME SerialReads, LinkInv, Next
  PROVE  PicoInv'
<1> USE LinkAssumption DEF LinkInv, Goto, PointAt, ReadAgain, SeesFall, SeesRise, HasRoom,
            pio_spi_client_disable, ReadPC, SigPC, CallPC, Threads, Bit, hostVars,
            picoVars, TypeOK, PicoInv, ChainInv, Reads, TokenInv, Holds, RequestInv,
            Signal, Status
<1>1. ASSUME NEW t \in Threads, NEW s \in Steppers, Call(t, s) PROVE PicoInv'
  BY <1>1 DEF Call
<1>2. ASSUME NEW t \in Threads, Lock(t) PROVE PicoInv'
  BY <1>2 DEF Lock
<1>3. ASSUME NEW t \in Threads, Trigger(t) PROVE PicoInv'
  BY <1>3 DEF Trigger
<1>4. ASSUME NEW t \in Threads, Wait(t) PROVE PicoInv'
  BY <1>4 DEF Wait
<1>5. ASSUME NEW t \in Threads, Transfer(t) PROVE PicoInv'
  BY <1>5 DEF Transfer
<1>6. ASSUME NEW t \in Threads, Reset(t) PROVE PicoInv'
  BY <1>6 DEF Reset
<1>7. ASSUME NEW r \in Readers, NEW s \in Steppers, Spawn(r, s) PROVE PicoInv'
  BY <1>7 DEF Spawn
<1>8. ASSUME NEW r \in Readers, Fetch(r) PROVE PicoInv'
  BY <1>8 DEF Fetch
<1>9. ASSUME NEW r \in Readers, CsRise(r) PROVE PicoInv'
  BY <1>9 DEF CsRise
<1>10. ASSUME NEW r \in Readers, Update(r) PROVE PicoInv'
  BY <1>10 DEF Update, signal_update, Fell
<1>11. ASSUME NEW r \in Readers, Post(r) PROVE PicoInv'
  BY <1>11 DEF Post
<1>12. ASSUME NEW r \in Readers, UnlockTest(r) PROVE PicoInv'
  BY <1>12 DEF UnlockTest
<1>13. ASSUME NEW r \in Readers, UnlockPost(r) PROVE PicoInv'
  BY <1>13 DEF UnlockPost
<1>14. ASSUME NEW r \in Readers, MotionTest(r) PROVE PicoInv'
  BY <1>14 DEF MotionTest
<1>15. ASSUME NEW p \in Steppers, IsrRise(p) PROVE PicoInv'
  BY <1>15 DEF IsrRise
<1>16. ASSUME NEW p \in Steppers, IsrFall(p) PROVE PicoInv'
  BY <1>16 DEF IsrFall
<1>17. ASSUME NEW p \in Steppers, Arm(p) PROVE PicoInv'
  BY <1>17 DEF Arm
<1>18. ASSUME NEW p \in Steppers, Remove(p) PROVE PicoInv'
  BY <1>18 DEF Remove
<1>19. ASSUME NEW p \in Steppers, Handle(p) PROVE PicoInv'
  BY <1>19 DEF Handle
<1>20. ASSUME NEW p \in Steppers, Capture(p) PROVE PicoInv'
  BY <1>20 DEF Capture
<1>21. ASSUME NEW p \in Steppers, MotorStart(p) PROVE PicoInv'
  BY <1>21 DEF MotorStart
<1>22. ASSUME NEW p \in Steppers, MotorStop(p) PROVE PicoInv'
  BY <1>22 DEF MotorStop
<1>23. QED
  BY <1>1, <1>2, <1>3, <1>4, <1>5, <1>6, <1>7, <1>8, <1>9, <1>10, <1>11,
     <1>12, <1>13, <1>14, <1>15, <1>16, <1>17, <1>18, <1>19, <1>20, <1>21,
     <1>22 DEF Next, CallerStep, ReaderStep, PicoStep

\* The shared semaphore and the holder of the bus change together.
LEMMA LinkToken ==
  ASSUME SerialReads, LinkInv, Next
  PROVE  TokenInv'
<1> USE LinkAssumption DEF LinkInv, Goto, PointAt, ReadAgain, SeesFall, SeesRise, HasRoom,
            pio_spi_client_disable, ReadPC, SigPC, CallPC, Threads, Bit, hostVars,
            picoVars, TypeOK, TokenInv, ReaderInv, ActiveReader, RequestInv, ChainInv,
            Reads, Signal, Status
<1>1. ASSUME NEW t \in Threads, NEW s \in Steppers, Call(t, s) PROVE TokenInv'
  <2>1. \A u \in Steppers : Holds(u)' => Holds(u)
    BY <1>1 DEF Call, Holds, Unlocking
  <2>2. \A q \in Readers, u \in Steppers :
          Unlocking(q, u)' => ~fired'[u] /\ sig'[u].cur.spi = 1
    BY <1>1 DEF Call, Unlocking
  <2>3. QED
    BY <1>1, <2>1, <2>2 DEF Call
<1>2. ASSUME NEW t \in Threads, Lock(t) PROVE TokenInv'
  <2>1. \A u \in Steppers : Holds(u)' => Holds(u)
    BY <1>2 DEF Lock, Holds, Unlocking
  <2>2. \A q \in Readers, u \in Steppers :
          Unlocking(q, u)' => ~fired'[u] /\ sig'[u].cur.spi = 1
    BY <1>2 DEF Lock, Unlocking
  <2>3. QED
    BY <1>2, <2>1, <2>2 DEF Lock
<1>3. ASSUME NEW t \in Threads, Trigger(t) PROVE TokenInv'
  BY <1>3 DEF Trigger, Holds, Unlocking
<1>4. ASSUME NEW t \in Threads, Wait(t) PROVE TokenInv'
  <2>1. \A u \in Steppers : Holds(u)' => Holds(u)
    BY <1>4 DEF Wait, Holds, Unlocking
  <2>2. \A q \in Readers, u \in Steppers :
          Unlocking(q, u)' => ~fired'[u] /\ sig'[u].cur.spi = 1
    BY <1>4 DEF Wait, Unlocking
  <2>3. QED
    BY <1>4, <2>1, <2>2 DEF Wait
<1>5. ASSUME NEW t \in Threads, Transfer(t) PROVE TokenInv'
  <2>1. \A u \in Steppers : Holds(u)' => Holds(u)
    BY <1>5 DEF Transfer, Holds, Unlocking
  <2>2. \A q \in Readers, u \in Steppers :
          Unlocking(q, u)' => ~fired'[u] /\ sig'[u].cur.spi = 1
    BY <1>5 DEF Transfer, Unlocking
  <2>3. QED
    BY <1>5, <2>1, <2>2 DEF Transfer
<1>6. ASSUME NEW t \in Threads, Reset(t) PROVE TokenInv'
  BY <1>6 DEF Reset, Holds, Unlocking
<1>7. ASSUME NEW r \in Readers, NEW s \in Steppers, Spawn(r, s) PROVE TokenInv'
  <2>1. \A u \in Steppers : Holds(u)' => Holds(u)
    BY <1>7 DEF Spawn, Holds, Unlocking
  <2>2. \A q \in Readers, u \in Steppers :
          Unlocking(q, u)' => ~fired'[u] /\ sig'[u].cur.spi = 1
    BY <1>7 DEF Spawn, Unlocking
  <2>3. QED
    BY <1>7, <2>1, <2>2 DEF Spawn
<1>8. ASSUME NEW r \in Readers, Fetch(r) PROVE TokenInv'
  <2>1. \A u \in Steppers : Holds(u)' => Holds(u)
    BY <1>8 DEF Fetch, Holds, Unlocking
  <2>2. \A q \in Readers, u \in Steppers :
          Unlocking(q, u)' => ~fired'[u] /\ sig'[u].cur.spi = 1
    BY <1>8 DEF Fetch, Unlocking
  <2>3. QED
    BY <1>8, <2>1, <2>2 DEF Fetch
<1>9. ASSUME NEW r \in Readers, CsRise(r) PROVE TokenInv'
  <2>1. \A u \in Steppers : Holds(u)' => Holds(u)
    BY <1>9 DEF CsRise, Holds, Unlocking
  <2>2. \A q \in Readers, u \in Steppers :
          Unlocking(q, u)' => ~fired'[u] /\ sig'[u].cur.spi = 1
    BY <1>9 DEF CsRise, Unlocking
  <2>3. QED
    BY <1>9, <2>1, <2>2 DEF CsRise
<1>10. ASSUME NEW r \in Readers, Update(r) PROVE TokenInv'
  <2> tgt[r] \in Steppers /\ r \in Threads /\ rx[r] \in Status
    BY <1>10 DEF Update
  <2>1. \A u \in Steppers : Holds(u)' => Holds(u)
    BY <1>10 DEF Update, Holds, Unlocking, signal_update, Fell
  <2>2. \A q \in Readers, u \in Steppers :
          Unlocking(q, u)' => ~fired'[u] /\ sig'[u].cur.spi = 1
    BY <1>10 DEF Update, Unlocking, signal_update, Fell
  <2>3. QED
    BY <1>10, <2>1, <2>2 DEF Update
<1>11. ASSUME NEW r \in Readers, Post(r) PROVE TokenInv'
  BY <1>11 DEF Post, Holds, Unlocking
<1>12. ASSUME NEW r \in Readers, UnlockTest(r) PROVE TokenInv'
  <2>1. \A u \in Steppers : Holds(u)' => Holds(u)
    BY <1>12 DEF UnlockTest, Holds, Unlocking
  <2>2. \A q \in Readers, u \in Steppers :
          Unlocking(q, u)' => ~fired'[u] /\ sig'[u].cur.spi = 1
    BY <1>12 DEF UnlockTest, Unlocking
  <2>3. QED
    BY <1>12, <2>1, <2>2 DEF UnlockTest
<1>13. ASSUME NEW r \in Readers, UnlockPost(r) PROVE TokenInv'
  <2>1. tgt[r] \in Steppers /\ Unlocking(r, tgt[r]) /\ Holds(tgt[r]) /\ shSem = 0
    BY <1>13 DEF UnlockPost, Holds, Unlocking
  <2>2. \A u \in Steppers : Holds(u)' => Holds(u)
    BY <1>13 DEF UnlockPost, Holds, Unlocking
  <2>3. \A u \in Steppers : u = tgt[r] => ~Holds(u)'
    BY <1>13, <2>1 DEF UnlockPost, Holds, Unlocking
  <2>4. \A u \in Steppers : ~Holds(u)'
    BY <2>1, <2>2, <2>3
  <2>5. QED
    BY <1>13, <2>1, <2>4 DEF UnlockPost, Holds
<1>14. ASSUME NEW r \in Readers, MotionTest(r) PROVE TokenInv'
  <2>1. \A q \in Readers, u \in Steppers : Unlocking(q, u)' => Unlocking(q, u)
    BY <1>14 DEF MotionTest, Unlocking
  <2>2. \A u \in Steppers : Holds(u)' => Holds(u)
    BY <1>14, <2>1 DEF MotionTest, Holds
  <2>3. QED
    BY <1>14, <2>1, <2>2 DEF MotionTest
<1>15. ASSUME NEW p \in Steppers, IsrRise(p) PROVE TokenInv'
  BY <1>15 DEF IsrRise, Holds, Unlocking
<1>16. ASSUME NEW p \in Steppers, IsrFall(p) PROVE TokenInv'
  BY <1>16 DEF IsrFall, Holds, Unlocking
<1>17. ASSUME NEW p \in Steppers, Arm(p) PROVE TokenInv'
  BY <1>17 DEF Arm, Holds, Unlocking
<1>18. ASSUME NEW p \in Steppers, Remove(p) PROVE TokenInv'
  BY <1>18 DEF Remove, Holds, Unlocking
<1>19. ASSUME NEW p \in Steppers, Handle(p) PROVE TokenInv'
  BY <1>19 DEF Handle, Holds, Unlocking
<1>20. ASSUME NEW p \in Steppers, Capture(p) PROVE TokenInv'
  BY <1>20 DEF Capture, Holds, Unlocking
<1>21. ASSUME NEW p \in Steppers, MotorStart(p) PROVE TokenInv'
  BY <1>21 DEF MotorStart, Holds, Unlocking
<1>22. ASSUME NEW p \in Steppers, MotorStop(p) PROVE TokenInv'
  BY <1>22 DEF MotorStop, Holds, Unlocking
<1>23. QED
  BY <1>1, <1>2, <1>3, <1>4, <1>5, <1>6, <1>7, <1>8, <1>9, <1>10, <1>11,
     <1>12, <1>13, <1>14, <1>15, <1>16, <1>17, <1>18, <1>19, <1>20, <1>21,
     <1>22 DEF Next, CallerStep, ReaderStep, PicoStep

\* Every step keeps the link's invariant; so does a stutter.
LEMMA LinkStep ==
  ASSUME SerialReads, LinkInv, [Next]_vars
  PROVE  LinkInv'
<1>1. CASE Next
  <2>1. TypeOK'
    BY <1>1, LinkTypeStep DEF LinkInv
  <2>2. QED
    BY <1>1, <2>1, LinkReader, LinkRequest, LinkChain, LinkPico, LinkToken DEF LinkInv
<1>2. CASE UNCHANGED vars
  BY <1>2 DEF vars, LinkInv, TypeOK, TokenInv, Holds, Unlocking, ReaderInv, ActiveReader,
     RequestInv, ChainInv, Reads, PicoInv
<1>3. QED
  BY <1>1, <1>2

\* With reads of one stepper serialised, the invariant holds for ever: the
\* semaphore, the request flags, the pins, the FPGA's register, the readers and
\* the Picos stay in step for any number of steppers, callers and readers.
THEOREM LinkInvariant ==
  ASSUME SerialReads
  PROVE  Spec => []LinkInv
<1>1. Init => LinkInv
  <2>1. Init => TypeOK
    BY LinkAssumption DEF Init, TypeOK, PC, Signal, Status, Bit, Zero, High, Threads,
       SemCap
  <2>2. QED
    BY <2>1, LinkAssumption DEF Init, LinkInv, TokenInv, Holds, Unlocking, ReaderInv,
       ActiveReader, RequestInv, ChainInv, Reads, PicoInv, ReadPC, SigPC, CallPC,
       Threads, Zero, High
<1>2. LinkInv /\ [Next]_vars => LinkInv'
  BY LinkStep
<1>3. QED
  BY <1>1, <1>2, PTL DEF Spec

\* Two Picos never drive MISO together: what the shared semaphore of
\* pin_request_trigger and pin_request_unlock is for.
THEOREM LinkOneBusOwner ==
  ASSUME SerialReads
  PROVE  Spec => []OneBusOwner
<1>1. ASSUME LinkInv PROVE OneBusOwner
  <2> SUFFICES ASSUME NEW p \in Steppers, NEW q \in Steppers, trPin[p] = 0, trPin[q] = 0
               PROVE  p = q
    BY DEF OneBusOwner
  <2>1. ASSUME NEW s \in Steppers, trPin[s] = 0 PROVE Holds(s)
    BY <1>1, <2>1 DEF LinkInv, TypeOK, ChainInv, Holds, Signal, Status, Bit
  <2>2. QED
    BY <1>1, <2>1 DEF LinkInv, TokenInv
<1>2. QED
  BY <1>1, LinkInvariant, PTL

\* pin_request_wait never lets a caller clock a message into a Pico that has not
\* armed its receiver.
THEOREM LinkClockedWhenReady ==
  ASSUME SerialReads
  PROVE  Spec => []ClockedWhenReady
<1>1. ASSUME LinkInv PROVE ClockedWhenReady
  BY <1>1 DEF LinkInv, TypeOK, RequestInv, ChainInv, ClockedWhenReady, CallPC, PC, Signal,
     Status, Bit, Threads
<1>2. QED
  BY <1>1, LinkInvariant, PTL

\* gpio_isr queues a buffer only when it holds a complete message for this Pico.
THEOREM LinkFallMeansComplete ==
  ASSUME SerialReads
  PROVE  Spec => []FallMeansComplete
<1>1. ASSUME LinkInv PROVE FallMeansComplete
  BY <1>1 DEF LinkInv, PicoInv, FallMeansComplete
<1>2. QED
  BY <1>1, LinkInvariant, PTL

\* The next rising edge of the request pin waits until gpio_isr has taken the
\* falling one, which it would overlook if both were latched.
THEOREM LinkNoMergedEdges ==
  ASSUME SerialReads
  PROVE  Spec => []NoMergedEdges
<1>1. ASSUME LinkInv PROVE NoMergedEdges
  BY <1>1 DEF LinkInv, PicoInv, NoMergedEdges
<1>2. QED
  BY <1>1, LinkInvariant, PTL

\* A register change the host lacks keeps an interrupt or a reader under way.
LEMMA FreshStep ==
  ASSUME SerialReads, LinkInv, FreshInv, [Next]_vars
  PROVE  FreshInv'
<1> USE LinkAssumption DEF LinkInv, Goto, PointAt, ReadAgain, SeesFall, SeesRise, HasRoom,
            pio_spi_client_disable, ReadPC, SigPC, CallPC, Threads, Bit, hostVars,
            picoVars, TypeOK, ReaderInv, ActiveReader, Signal, Status
<1>1. ASSUME NEW t \in Threads, NEW s \in Steppers, Call(t, s) PROVE FreshInv'
  <2>1. \A q \in Readers, u \in Steppers :
          /\ WillClear(q, u) => WillClear(q, u)'
          /\ WillUpdate(q, u) => WillUpdate(q, u)'
          /\ HasCopy(q, u) => HasCopy(q, u)'
    BY <1>1 DEF Call, WillClear, WillUpdate, HasCopy
  <2>2. /\ irq' = irq /\ intr' = intr /\ reg' = reg
        /\ \A u \in Steppers : sig'[u].cur = sig[u].cur
    BY <1>1 DEF Call
  <2>3. QED
    BY <2>1, <2>2 DEF FreshInv
<1>2. ASSUME NEW t \in Threads, Lock(t) PROVE FreshInv'
  <2>1. \A q \in Readers, u \in Steppers :
          /\ WillClear(q, u) => WillClear(q, u)'
          /\ WillUpdate(q, u) => WillUpdate(q, u)'
          /\ HasCopy(q, u) => HasCopy(q, u)'
    BY <1>2 DEF Lock, WillClear, WillUpdate, HasCopy
  <2>2. /\ irq' = irq /\ intr' = intr /\ reg' = reg
        /\ \A u \in Steppers : sig'[u].cur = sig[u].cur
    BY <1>2 DEF Lock
  <2>3. QED
    BY <2>1, <2>2 DEF FreshInv
<1>3. ASSUME NEW t \in Threads, Trigger(t) PROVE FreshInv'
  <2>1. \A q \in Readers, u \in Steppers :
          /\ WillClear(q, u) => WillClear(q, u)'
          /\ WillUpdate(q, u) => WillUpdate(q, u)'
          /\ HasCopy(q, u) => HasCopy(q, u)'
    BY <1>3 DEF Trigger, WillClear, WillUpdate, HasCopy
  <2>2. /\ irq' = irq /\ intr' = intr /\ reg' = reg
        /\ \A u \in Steppers : sig'[u].cur = sig[u].cur
    BY <1>3 DEF Trigger
  <2>3. QED
    BY <2>1, <2>2 DEF FreshInv
<1>4. ASSUME NEW t \in Threads, Wait(t) PROVE FreshInv'
  <2>1. \A q \in Readers, u \in Steppers :
          /\ WillClear(q, u) => WillClear(q, u)'
          /\ WillUpdate(q, u) => WillUpdate(q, u)'
          /\ HasCopy(q, u) => HasCopy(q, u)'
    BY <1>4 DEF Wait, WillClear, WillUpdate, HasCopy
  <2>2. /\ irq' = irq /\ intr' = intr /\ reg' = reg
        /\ \A u \in Steppers : sig'[u].cur = sig[u].cur
    BY <1>4 DEF Wait
  <2>3. QED
    BY <2>1, <2>2 DEF FreshInv
<1>5. ASSUME NEW t \in Threads, Transfer(t) PROVE FreshInv'
  <2>1. \A q \in Readers, u \in Steppers :
          /\ WillClear(q, u) => WillClear(q, u)'
          /\ WillUpdate(q, u) => WillUpdate(q, u)'
          /\ HasCopy(q, u) => HasCopy(q, u)'
    BY <1>5 DEF Transfer, WillClear, WillUpdate, HasCopy
  <2>2. /\ irq' = irq /\ intr' = intr /\ reg' = reg
        /\ \A u \in Steppers : sig'[u].cur = sig[u].cur
    BY <1>5 DEF Transfer
  <2>3. QED
    BY <2>1, <2>2 DEF FreshInv
<1>6. ASSUME NEW t \in Threads, Reset(t) PROVE FreshInv'
  <2>1. \A q \in Readers, u \in Steppers :
          /\ WillClear(q, u) => WillClear(q, u)'
          /\ WillUpdate(q, u) => WillUpdate(q, u)'
          /\ HasCopy(q, u) => HasCopy(q, u)'
    BY <1>6 DEF Reset, WillClear, WillUpdate, HasCopy
  <2>2. /\ irq' = irq /\ intr' = intr /\ reg' = reg
        /\ \A u \in Steppers : sig'[u].cur = sig[u].cur
    BY <1>6 DEF Reset
  <2>3. QED
    BY <2>1, <2>2 DEF FreshInv
<1>7. ASSUME NEW r \in Readers, NEW s \in Steppers, Spawn(r, s) PROVE FreshInv'
  <2>1. \A q \in Readers, u \in Steppers :
          /\ WillClear(q, u) => WillClear(q, u)'
          /\ WillUpdate(q, u) => WillUpdate(q, u)'
          /\ HasCopy(q, u) => HasCopy(q, u)'
    BY <1>7 DEF Spawn, WillClear, WillUpdate, HasCopy
  <2>2. /\ WillClear(r, s)' /\ WillUpdate(r, s)'
        /\ \A q \in Readers : HasCopy(q, s)'
    BY <1>7 DEF Spawn, WillClear, WillUpdate, HasCopy
  <2>3. /\ intr' = intr /\ reg' = reg /\ sig' = sig
        /\ \A u \in Steppers : u # s => irq'[u] = irq[u]
    BY <1>7 DEF Spawn
  <2>4. ASSUME NEW u \in Steppers, ~irq'[u]
        PROVE  /\ intr'[u] = 0 => \E q \in Readers : WillClear(q, u)'
               /\ \A q \in Readers : HasCopy(q, u)'
               /\ sig'[u].cur = reg'[u] \/ \E q \in Readers : WillUpdate(q, u)'
    <3>1. CASE u = s
      BY <2>2, <3>1
    <3>2. CASE u # s
      BY <2>1, <2>3, <2>4, <3>2 DEF FreshInv
    <3>3. QED
      BY <3>1, <3>2
  <2>5. QED
    BY <2>4 DEF FreshInv
<1>8. ASSUME NEW r \in Readers, Fetch(r) PROVE FreshInv'
  <2>1. \A q \in Readers, u \in Steppers : WillClear(q, u) => WillClear(q, u)'
    <3>1. CASE Goto(r, "send1", "cs1")
      BY <1>8, <3>1 DEF Fetch, WillClear
    <3>2. CASE Goto(r, "send2", "cs2")
      BY <1>8, <3>2 DEF Fetch, WillClear
    <3>3. QED
      BY <1>8, <3>1, <3>2 DEF Fetch
  <2>2. \A q \in Readers, u \in Steppers : WillUpdate(q, u) => WillUpdate(q, u)'
    <3>1. CASE Goto(r, "send1", "cs1")
      BY <1>8, <3>1 DEF Fetch, WillUpdate
    <3>2. CASE Goto(r, "send2", "cs2")
      BY <1>8, <3>2 DEF Fetch, WillUpdate
    <3>3. QED
      BY <1>8, <3>1, <3>2 DEF Fetch
  <2>3. irq' = irq /\ reg' = reg /\ sig' = sig /\ intr' = intr
    BY <1>8 DEF Fetch
  <2>4. \A q \in Readers, u \in Steppers : HasCopy(q, u) => HasCopy(q, u)'
    <3>1. CASE Goto(r, "send1", "cs1")
      BY <1>8, <3>1 DEF Fetch, HasCopy
    <3>2. CASE Goto(r, "send2", "cs2")
      BY <1>8, <3>2 DEF Fetch, HasCopy
    <3>3. QED
      BY <1>8, <3>1, <3>2 DEF Fetch
  <2>5. ASSUME NEW u \in Steppers, ~irq'[u]
        PROVE  /\ intr'[u] = 0 => \E q \in Readers : WillClear(q, u)'
               /\ \A q \in Readers : HasCopy(q, u)'
               /\ sig'[u].cur = reg'[u] \/ \E q \in Readers : WillUpdate(q, u)'
    <3>1. CASE u = tgt[r]
      BY <2>1, <2>2, <2>3, <2>4, <2>5, <3>1 DEF FreshInv
    <3>2. CASE u # tgt[r]
      BY <2>1, <2>2, <2>3, <2>4, <2>5, <3>2 DEF FreshInv
    <3>3. QED
      BY <3>1, <3>2
  <2>6. QED
    BY <2>5 DEF FreshInv
<1>9. ASSUME NEW r \in Readers, CsRise(r) PROVE FreshInv'
  <2>1. \A q \in Readers, u \in Steppers : u # tgt[r] /\ WillClear(q, u) => WillClear(q, u)'
    <3>1. CASE Goto(r, "cs1", "send2")
      BY <1>9, <3>1 DEF CsRise, WillClear
    <3>2. CASE Goto(r, "cs2", "update")
      BY <1>9, <3>2 DEF CsRise, WillClear
    <3>3. QED
      BY <1>9, <3>1, <3>2 DEF CsRise
  <2>2. \A q \in Readers, u \in Steppers : WillUpdate(q, u) => WillUpdate(q, u)'
    <3>1. CASE Goto(r, "cs1", "send2")
      BY <1>9, <3>1 DEF CsRise, WillUpdate
    <3>2. CASE Goto(r, "cs2", "update")
      BY <1>9, <3>2 DEF CsRise, WillUpdate
    <3>3. QED
      BY <1>9, <3>1, <3>2 DEF CsRise
  <2>3. /\ irq' = irq /\ reg' = reg /\ sig' = sig
        /\ \A u \in Steppers : intr'[u] = IF u = tgt[r] THEN 1 ELSE intr[u]
    BY <1>9 DEF CsRise
  <2>4. \A q \in Readers, u \in Steppers : HasCopy(q, u) => HasCopy(q, u)'
    <3>1. CASE Goto(r, "cs1", "send2")
      BY <1>9, <3>1 DEF CsRise, HasCopy
    <3>2. CASE Goto(r, "cs2", "update")
      BY <1>9, <3>2 DEF CsRise, HasCopy
    <3>3. QED
      BY <1>9, <3>1, <3>2 DEF CsRise
  <2>5. ASSUME NEW u \in Steppers, ~irq'[u]
        PROVE  /\ intr'[u] = 0 => \E q \in Readers : WillClear(q, u)'
               /\ \A q \in Readers : HasCopy(q, u)'
               /\ sig'[u].cur = reg'[u] \/ \E q \in Readers : WillUpdate(q, u)'
    <3>1. CASE u = tgt[r]
      BY <2>1, <2>2, <2>3, <2>4, <2>5, <3>1 DEF FreshInv
    <3>2. CASE u # tgt[r]
      BY <2>1, <2>2, <2>3, <2>4, <2>5, <3>2 DEF FreshInv
    <3>3. QED
      BY <3>1, <3>2
  <2>6. QED
    BY <2>5 DEF FreshInv
<1>10. ASSUME NEW r \in Readers, Update(r) PROVE FreshInv'
  <2>1. \A q \in Readers, u \in Steppers :
          /\ WillClear(q, u) => WillClear(q, u)'
          /\ u # tgt[r] /\ WillUpdate(q, u) => WillUpdate(q, u)'
          /\ HasCopy(q, u) => HasCopy(q, u)'
    BY <1>10 DEF Update, WillClear, WillUpdate, HasCopy
  <2>2. /\ irq' = irq /\ intr' = intr /\ reg' = reg
        /\ \A u \in Steppers : u # tgt[r] => sig'[u] = sig[u]
        /\ sig'[tgt[r]].cur = rx[r]
    BY <1>10 DEF Update, signal_update
  <2>3. tgt[r] \in Steppers
    BY <1>10 DEF Update
  <2>4. ASSUME NEW u \in Steppers, ~irq'[u]
        PROVE  /\ intr'[u] = 0 => \E q \in Readers : WillClear(q, u)'
               /\ \A q \in Readers : HasCopy(q, u)'
               /\ sig'[u].cur = reg'[u] \/ \E q \in Readers : WillUpdate(q, u)'
    <3>1. intr'[u] = 0 => \E q \in Readers : WillClear(q, u)'
      BY <2>1, <2>2, <2>4 DEF FreshInv
    <3>2. CASE u # tgt[r]
      BY <2>1, <2>2, <2>4, <3>1, <3>2 DEF FreshInv
    <3>3. CASE u = tgt[r]
      <4>1. HasCopy(r, u)
        BY <2>2, <2>4, <3>3 DEF FreshInv
      <4>2. rx[r] = reg[u]
        BY <1>10, <3>3, <4>1 DEF Update, HasCopy
      <4>3. QED
        BY <2>1, <2>2, <2>4, <3>1, <3>3, <4>2 DEF FreshInv
    <3>4. QED
      BY <3>2, <3>3
  <2>5. QED
    BY <2>4 DEF FreshInv
<1>11. ASSUME NEW r \in Readers, Post(r) PROVE FreshInv'
  <2>1. \A q \in Readers, u \in Steppers :
          /\ WillClear(q, u) => WillClear(q, u)'
          /\ WillUpdate(q, u) => WillUpdate(q, u)'
          /\ HasCopy(q, u) => HasCopy(q, u)'
    BY <1>11 DEF Post, WillClear, WillUpdate, HasCopy
  <2>2. /\ irq' = irq /\ intr' = intr /\ reg' = reg
        /\ \A u \in Steppers : sig'[u].cur = sig[u].cur
    BY <1>11 DEF Post
  <2>3. QED
    BY <2>1, <2>2 DEF FreshInv
<1>12. ASSUME NEW r \in Readers, UnlockTest(r) PROVE FreshInv'
  <2>1. \A q \in Readers, u \in Steppers :
          /\ WillClear(q, u) => WillClear(q, u)'
          /\ WillUpdate(q, u) => WillUpdate(q, u)'
          /\ HasCopy(q, u) => HasCopy(q, u)'
    BY <1>12 DEF UnlockTest, WillClear, WillUpdate, HasCopy
  <2>2. /\ irq' = irq /\ intr' = intr /\ reg' = reg
        /\ \A u \in Steppers : sig'[u].cur = sig[u].cur
    BY <1>12 DEF UnlockTest
  <2>3. QED
    BY <2>1, <2>2 DEF FreshInv
<1>13. ASSUME NEW r \in Readers, UnlockPost(r) PROVE FreshInv'
  <2>1. \A q \in Readers, u \in Steppers :
          /\ WillClear(q, u) => WillClear(q, u)'
          /\ WillUpdate(q, u) => WillUpdate(q, u)'
          /\ HasCopy(q, u) => HasCopy(q, u)'
    BY <1>13 DEF UnlockPost, WillClear, WillUpdate, HasCopy
  <2>2. /\ irq' = irq /\ intr' = intr /\ reg' = reg
        /\ \A u \in Steppers : sig'[u].cur = sig[u].cur
    BY <1>13 DEF UnlockPost
  <2>3. QED
    BY <2>1, <2>2 DEF FreshInv
<1>14. ASSUME NEW r \in Readers, MotionTest(r) PROVE FreshInv'
  <2>1. \A q \in Readers, u \in Steppers :
          /\ WillClear(q, u) => WillClear(q, u)'
          /\ WillUpdate(q, u) => WillUpdate(q, u)'
          /\ HasCopy(q, u) => HasCopy(q, u)'
    BY <1>14 DEF MotionTest, WillClear, WillUpdate, HasCopy
  <2>2. /\ irq' = irq /\ intr' = intr /\ reg' = reg
        /\ \A u \in Steppers : sig'[u].cur = sig[u].cur
    BY <1>14 DEF MotionTest
  <2>3. QED
    BY <2>1, <2>2 DEF FreshInv
<1>15. ASSUME NEW p \in Steppers, IsrRise(p) PROVE FreshInv'
  BY <1>15 DEF IsrRise, FreshInv, WillClear, WillUpdate, HasCopy
<1>16. ASSUME NEW p \in Steppers, IsrFall(p) PROVE FreshInv'
  BY <1>16 DEF IsrFall, FreshInv, WillClear, WillUpdate, HasCopy
<1>17. ASSUME NEW p \in Steppers, Arm(p) PROVE FreshInv'
  BY <1>17 DEF Arm, FreshInv, WillClear, WillUpdate, HasCopy
<1>18. ASSUME NEW p \in Steppers, Remove(p) PROVE FreshInv'
  BY <1>18 DEF Remove, FreshInv, WillClear, WillUpdate, HasCopy
<1>19. ASSUME NEW p \in Steppers, Handle(p) PROVE FreshInv'
  BY <1>19 DEF Handle, FreshInv, WillClear, WillUpdate, HasCopy
<1>20. ASSUME NEW p \in Steppers, Capture(p) PROVE FreshInv'
  <2>1. \A q \in Readers, u \in Steppers :
          /\ WillClear(q, u) => WillClear(q, u)'
          /\ WillUpdate(q, u) => WillUpdate(q, u)'
          /\ u # p /\ HasCopy(q, u) => HasCopy(q, u)'
          /\ WillClear(q, u) => WillUpdate(q, u)'
    BY <1>20 DEF Capture, WillClear, WillUpdate, HasCopy
  <2>2. /\ sig' = sig
        /\ \A u \in Steppers :
             u # p => irq'[u] = irq[u] /\ intr'[u] = intr[u] /\ reg'[u] = reg[u]
    BY <1>20 DEF Capture
  <2>3. ASSUME ~irq'[p] PROVE ~irq[p] /\ intr[p] = 0
    <3>1. irq'[p] = (irq[p] \/ intr[p] = 1)
      BY <1>20 DEF Capture
    <3>2. intr[p] \in 0..1
      OBVIOUS
    <3>3. ~irq[p] /\ intr[p] # 1
      BY <2>3, <3>1, Zenon
    <3>4. QED
      BY <3>2, <3>3
  <2>4. ASSUME NEW c \in Readers, WillClear(c, p) PROVE \A q \in Readers : HasCopy(q, p)'
    BY <1>20, <2>4 DEF Capture, WillClear, HasCopy
  <2>5. ASSUME NEW u \in Steppers, ~irq'[u]
        PROVE  /\ intr'[u] = 0 => \E q \in Readers : WillClear(q, u)'
               /\ \A q \in Readers : HasCopy(q, u)'
               /\ sig'[u].cur = reg'[u] \/ \E q \in Readers : WillUpdate(q, u)'
    <3>1. CASE u = p
      BY <2>1, <2>2, <2>3, <2>4, <2>5, <3>1 DEF FreshInv
    <3>2. CASE u # p
      BY <2>1, <2>2, <2>5, <3>2 DEF FreshInv
    <3>3. QED
      BY <3>1, <3>2
  <2>6. QED
    BY <2>5 DEF FreshInv
<1>21. ASSUME NEW p \in Steppers, MotorStart(p) PROVE FreshInv'
  BY <1>21 DEF MotorStart, FreshInv, WillClear, WillUpdate, HasCopy
<1>22. ASSUME NEW p \in Steppers, MotorStop(p) PROVE FreshInv'
  BY <1>22 DEF MotorStop, FreshInv, WillClear, WillUpdate, HasCopy
<1>23. CASE UNCHANGED vars
  BY <1>23 DEF vars, FreshInv, WillClear, WillUpdate, HasCopy
<1>24. QED
  BY <1>1, <1>2, <1>3, <1>4, <1>5, <1>6, <1>7, <1>8, <1>9, <1>10, <1>11,
     <1>12, <1>13, <1>14, <1>15, <1>16, <1>17, <1>18, <1>19, <1>20, <1>21,
     <1>22, <1>23 DEF Next, CallerStep, ReaderStep, PicoStep

\* The clear-on-read argument with readers under way (stepper_read_fpga,
\* fpga_get_signal): a stepper whose line is up has nothing it has not told the
\* host, or a reader will tell it, and no reader clears a change unread.
THEOREM LinkFresh ==
  ASSUME SerialReads
  PROVE  Spec => []FreshInv
<1>1. Init => FreshInv
  BY LinkAssumption DEF Init, FreshInv, HasCopy, Threads
<1>2. LinkInv /\ FreshInv /\ [Next]_vars => FreshInv'
  BY FreshStep
<1>3. QED
  BY <1>1, <1>2, LinkInvariant, PTL DEF Spec

\* Clear-on-read loses nothing: with no interrupt pending and no reader under
\* way, the host's status byte is the FPGA's (stepper_read_fpga reads twice).
THEOREM LinkViewFresh ==
  ASSUME SerialReads
  PROVE  Spec => []ViewFresh
<1>1. ASSUME FreshInv PROVE ViewFresh
  BY <1>1 DEF FreshInv, WillUpdate, ViewFresh, ActiveReader
<1>2. QED
  BY <1>1, LinkFresh, PTL


-----------------------------------------------------------------------------
(* The mapping to the bus.                                                 *)

\* The holder of the semaphore is the owner of the bus, for there is only one.
LEMMA OwnerIs ==
  ASSUME TokenInv, NEW s \in Steppers, Holds(s)
  PROVE  BusOwner = s
BY DEF BusOwner, TokenInv

LEMMA NextOwnerIs ==
  ASSUME TokenInv', NEW s \in Steppers, Holds(s)'
  PROVE  BusOwner' = s
BY DEF BusOwner, TokenInv

\* A step after which the same steppers hold the semaphore hands nothing over.
LEMMA OwnerStays ==
  ASSUME TokenInv, TokenInv', \A u \in Steppers : Holds(u)' <=> Holds(u)
  PROVE  BusOwner' = BusOwner
<1>1. CASE \E s \in Steppers : Holds(s)
  BY <1>1, OwnerIs, NextOwnerIs
<1>2. CASE \A s \in Steppers : ~Holds(s)
  BY <1>2 DEF BusOwner
<1>3. QED
  BY <1>1, <1>2

\* If it touches neither the pins nor the buffers nor the queue either, the bus
\* does not see it.
LEMMA BusUnmoved ==
  ASSUME TokenInv, TokenInv', \A u \in Steppers : Holds(u)' <=> Holds(u),
         UNCHANGED <<trPin, reqPin, rxBuf, msgQ>>
  PROVE  UNCHANGED Bus!busVars
<1>1. BusOwner' = BusOwner
  BY OwnerStays
<1>2. BusStage' = BusStage
  BY <1>1 DEF BusStage
<1>3. QED
  BY <1>1, <1>2 DEF Bus!busVars

\* A stepper whose Pico drives the bus holds the semaphore.
LEMMA DriverHolds ==
  ASSUME LinkInv, NEW s \in Steppers, trPin[s] = 0
  PROVE  Holds(s)
BY DEF LinkInv, TypeOK, ChainInv, Holds, Signal, Status, Bit

-----------------------------------------------------------------------------
(* Steps the bus does not see: the same steppers hold the semaphore.       *)

LEMMA SameHolders ==
  ASSUME SerialReads, LinkInv,
         \/ \E t \in Threads : Lock(t) \/ Wait(t) \/ \E s \in Steppers : Call(t, s)
         \/ \E r \in Readers : \/ Fetch(r) \/ CsRise(r) \/ Update(r) \/ Post(r)
                               \/ UnlockTest(r) \/ MotionTest(r)
                               \/ \E s \in Steppers : Spawn(r, s)
         \/ \E p \in Steppers : \/ IsrRise(p) \/ Remove(p) \/ Capture(p)
                                \/ MotorStart(p) \/ MotorStop(p)
  PROVE  /\ \A u \in Steppers : Holds(u)' <=> Holds(u)
         /\ UNCHANGED <<trPin, reqPin, rxBuf, msgQ>>
<1> USE LinkAssumption DEF LinkInv, Goto, PointAt, ReadAgain, SeesFall, SeesRise,
        ReadPC, SigPC, CallPC, Threads, Bit, hostVars, picoVars, TypeOK, TokenInv,
        ReaderInv, ActiveReader, ChainInv, Reads, Signal, Status, Holds, Unlocking
<1> DEFINE Same == /\ \A u \in Steppers : Holds(u)' <=> Holds(u)
                   /\ UNCHANGED <<trPin, reqPin, rxBuf, msgQ>>
<1>1. ASSUME NEW t \in Threads, NEW s \in Steppers, Call(t, s) PROVE Same
  BY <1>1 DEF Call
<1>2. ASSUME NEW t \in Threads, Lock(t) PROVE Same
  BY <1>2 DEF Lock
<1>3. ASSUME NEW t \in Threads, Wait(t) PROVE Same
  BY <1>3 DEF Wait
<1>4. ASSUME NEW r \in Readers, NEW s \in Steppers, Spawn(r, s) PROVE Same
  BY <1>4 DEF Spawn
<1>5. ASSUME NEW r \in Readers, Fetch(r) PROVE Same
  BY <1>5 DEF Fetch
<1>6. ASSUME NEW r \in Readers, CsRise(r) PROVE Same
  BY <1>6 DEF CsRise
<1>7. ASSUME NEW r \in Readers, Update(r) PROVE Same
  <2>1. /\ r \in Readers /\ pc[r] = "update" /\ pc' = [pc EXCEPT ![r] = "post"]
        /\ sig' = [sig EXCEPT ![tgt[r]] = signal_update(sig[tgt[r]], rx[r])]
        /\ UNCHANGED <<tgt, fired, trPin, reqPin, rxBuf, msgQ>>
    BY <1>7 DEF Update
  <2>2. ASSUME NEW u \in Steppers PROVE Holds(u)' <=> Holds(u)
    BY <2>1 DEF signal_update, Fell
  <2>3. QED
    BY <2>1, <2>2
<1>8. ASSUME NEW r \in Readers, Post(r) PROVE Same
  BY <1>8 DEF Post
<1>9. ASSUME NEW r \in Readers, UnlockTest(r) PROVE Same
  BY <1>9 DEF UnlockTest
<1>10. ASSUME NEW r \in Readers, MotionTest(r) PROVE Same
  BY <1>10 DEF MotionTest
<1>11. ASSUME NEW p \in Steppers, IsrRise(p) PROVE Same
  BY <1>11 DEF IsrRise
<1>12. ASSUME NEW p \in Steppers, Remove(p) PROVE Same
  BY <1>12 DEF Remove
<1>13. ASSUME NEW p \in Steppers, Capture(p) PROVE Same
  BY <1>13 DEF Capture
<1>14. ASSUME NEW p \in Steppers, MotorStart(p) PROVE Same
  BY <1>14 DEF MotorStart
<1>15. ASSUME NEW p \in Steppers, MotorStop(p) PROVE Same
  BY <1>15 DEF MotorStop
<1>16. QED
  BY <1>1, <1>2, <1>3, <1>4, <1>5, <1>6, <1>7, <1>8,
     <1>9, <1>10, <1>11, <1>12, <1>13, <1>14, <1>15

LEMMA HiddenStep ==
  ASSUME SerialReads, LinkInv, LinkInv',
         \/ \E t \in Threads : Lock(t) \/ Wait(t) \/ \E s \in Steppers : Call(t, s)
         \/ \E r \in Readers : \/ Fetch(r) \/ CsRise(r) \/ Update(r) \/ Post(r)
                               \/ UnlockTest(r) \/ MotionTest(r)
                               \/ \E s \in Steppers : Spawn(r, s)
         \/ \E p \in Steppers : \/ IsrRise(p) \/ Remove(p) \/ Capture(p)
                                \/ MotorStart(p) \/ MotorStop(p)
  PROVE  UNCHANGED Bus!busVars
BY SameHolders, BusUnmoved DEF LinkInv

-----------------------------------------------------------------------------
(* Steps the bus does see.                                                 *)

LEMMA PinStep ==
  ASSUME LinkInv, PinInv, [Next]_vars
  PROVE  PinInv'
<1> USE DEF hostVars, picoVars, PinInv, LinkInv, TypeOK, Bit
<1>1. ASSUME NEW t \in Threads, Trigger(t) PROVE PinInv'
  BY <1>1 DEF Trigger
<1>2. ASSUME NEW t \in Threads, Reset(t) PROVE PinInv'
  BY <1>2 DEF Reset
<1>3. ASSUME UNCHANGED <<fired, reqPin>> PROVE PinInv'
  BY <1>3
<1>4. ASSUME NEW t \in Threads, CallerStep(t) \/ \E s \in Steppers : Call(t, s) PROVE PinInv'
  BY <1>1, <1>2, <1>3, <1>4 DEF CallerStep, Lock, Wait, Transfer, Call
<1>5. ASSUME NEW r \in Readers, ReaderStep(r) \/ \E s \in Steppers : Spawn(r, s) PROVE PinInv'
  BY <1>3, <1>5 DEF ReaderStep, Fetch, CsRise, Update, Post, UnlockTest, UnlockPost,
     MotionTest, Spawn
<1>6. ASSUME NEW p \in Steppers, \/ PicoStep(p) \/ Handle(p) \/ Capture(p)
                                 \/ MotorStart(p) \/ MotorStop(p)
      PROVE  PinInv'
  BY <1>3, <1>6 DEF PicoStep, IsrRise, IsrFall, Arm, Remove, Handle, Capture, MotorStart,
     MotorStop
<1>7. CASE UNCHANGED vars
  BY <1>3, <1>7 DEF vars
<1>8. QED
  BY <1>4, <1>5, <1>6, <1>7 DEF Next

\* pin_request_trigger takes a free bus.
LEMMA TriggerAcquires ==
  ASSUME LinkInv, LinkInv', NEW t \in Threads, Trigger(t)
  PROVE  Bus!Acquire(tgt[t])
<1> PICK s \in Steppers : s = tgt[t]
  BY DEF Trigger, Goto, LinkInv, TypeOK
<1>1. Holds(s)'
  BY DEF Trigger, LinkInv, TypeOK, Holds
<1>2. \A u \in Steppers : ~Holds(u)
  BY DEF LinkInv, TypeOK, TokenInv, Trigger
<1>3. BusOwner = None /\ BusOwner' = s
  BY <1>1, <1>2, NextOwnerIs DEF BusOwner, LinkInv
<1>4. trPin[s] = 1
  BY <1>1, <1>2, DriverHolds, SMTT(30) DEF LinkInv, TypeOK, Bit
<1>5. trPin'[s] = 1 /\ reqPin'[s] = 1
  BY <1>1, <1>4 DEF Trigger, LinkInv, TypeOK
<1>6. BusStage = "free" /\ BusStage' = "asked"
  BY <1>1, <1>3, <1>5, LinkAssumption DEF BusStage
<1>7. QED
  BY <1>3, <1>6 DEF Bus!Acquire, Trigger

\* get_spi_msg answers: the Pico of the owner listens.
LEMMA ArmReadies ==
  ASSUME SerialReads, LinkInv, LinkInv', PinInv, NEW p \in Steppers, Arm(p)
  PROVE  Bus!Ready
<1>1. fired[p] /\ trPin[p] = 1 /\ Holds(p) /\ reqPin[p] = 1
  BY DEF LinkInv, TypeOK, PicoInv, Arm, Holds, PinInv, Bit
<1>2. trPin'[p] = 0 /\ rxBuf'[p] = None /\ Holds(p)'
  BY <1>1 DEF LinkInv, TypeOK, Arm, Holds, hostVars
<1>3. BusOwner = p /\ BusOwner' = p
  BY <1>1, <1>2, OwnerIs, NextOwnerIs DEF LinkInv
<1>4. BusStage = "asked" /\ BusStage' = "ready"
  BY <1>1, <1>2, <1>3, LinkAssumption DEF BusStage
<1>5. QED
  BY <1>3, <1>4 DEF Bus!Ready, Bus!Advance, Arm

\* spi_send fills the owner's buffer and nobody else's.
LEMMA TransferSends ==
  ASSUME SerialReads, LinkInv, LinkInv', NEW t \in Threads, Transfer(t)
  PROVE  Bus!Send \/ UNCHANGED Bus!busVars
<1> PICK s \in Steppers : s = tgt[t]
  BY DEF Transfer, Goto, LinkInv, TypeOK
<1>1. fired[s] /\ Holds(s)
  BY DEF Transfer, Goto, LinkInv, RequestInv, Holds
<1>2. trPin[s] = 0
  BY <1>1 DEF Transfer, Goto, LinkInv, TypeOK, RequestInv, ChainInv, CallPC
<1>3. trPin'[s] = 0 /\ rxBuf'[s] = s /\ Holds(s)'
  BY <1>1, <1>2 DEF LinkInv, TypeOK, Transfer, Holds, hostVars
<1>4. BusOwner = s /\ BusOwner' = s
  BY <1>1, <1>3, OwnerIs, NextOwnerIs DEF LinkInv
<1>5. BusStage \in {"ready", "sent"} /\ BusStage' = "sent"
  BY <1>1, <1>2, <1>3, <1>4, LinkAssumption DEF BusStage
<1>6. QED
  BY <1>4, <1>5 DEF Bus!Send, Bus!Advance, Bus!busVars, Transfer

\* pin_request_reset lowers the pin: the owner keeps the bus.
LEMMA ResetKeeps ==
  ASSUME SerialReads, LinkInv, LinkInv', NEW t \in Threads, Reset(t)
  PROVE  UNCHANGED Bus!busVars
<1> PICK s \in Steppers : s = tgt[t]
  BY DEF Reset, Goto, LinkInv, TypeOK
<1>1. fired[s] /\ Holds(s) /\ sig[s].cur.spi = 0
  BY DEF Reset, Goto, LinkInv, RequestInv, Holds
<1>2. trPin[s] = 0 /\ rxBuf[s] = s
  BY <1>1 DEF Reset, Goto, LinkInv, TypeOK, RequestInv, ChainInv, CallPC, PicoInv
<1>3. Holds(s)'
  BY <1>1 DEF Reset, Holds
<1>4. BusOwner = s /\ BusOwner' = s
  BY <1>1, <1>3, OwnerIs, NextOwnerIs DEF LinkInv
<1>5. BusStage = "sent" /\ BusStage' = "sent"
  BY <1>1, <1>2, <1>4, LinkAssumption DEF BusStage, Reset
<1>6. QED
  BY <1>4, <1>5 DEF Bus!busVars, Reset

\* gpio_isr at the falling edge: the Pico lets go of the bus and takes the
\* message if its queue has room.
LEMMA FallAccepts ==
  ASSUME SerialReads, LinkInv, LinkInv', PinInv, NEW p \in Steppers, IsrFall(p)
  PROVE  Bus!Accept
<1>1. ~fired[p] /\ trPin[p] = 0 /\ sig[p].cur.spi = 0 /\ rxBuf[p] = p
  BY DEF LinkInv, PicoInv, IsrFall
<1>2. Holds(p) /\ Holds(p)'
  BY <1>1 DEF Holds, IsrFall, hostVars
<1>3. BusOwner = p /\ BusOwner' = p
  BY <1>2, OwnerIs, NextOwnerIs DEF LinkInv
<1>4. reqPin[p] = 0 /\ reqPin'[p] = 0 /\ trPin'[p] = 1
  BY <1>1 DEF PinInv, LinkInv, TypeOK, Bit, IsrFall, pio_spi_client_disable
<1>5. BusStage = "sent" /\ BusStage' = "done"
  BY <1>1, <1>3, <1>4, LinkAssumption DEF BusStage
<1>6. \A s \in Steppers :
        Len(msgQ'[s]) = IF s = p /\ Len(msgQ[p]) < MsgQueueLen THEN Len(msgQ[p]) + 1
                        ELSE Len(msgQ[s])
  BY <1>1 DEF IsrFall, HasRoom, LinkInv, TypeOK
<1>7. QED
  BY <1>3, <1>5, <1>6 DEF Bus!Accept, Bus!Advance

\* The reader that saw the pin rise gives the bus back.
LEMMA PostReleases ==
  ASSUME SerialReads, LinkInv, LinkInv', PinInv, NEW r \in Readers, UnlockPost(r)
  PROVE  Bus!Release
<1> PICK s \in Steppers : s = tgt[r]
  BY DEF UnlockPost, Goto, LinkInv, TypeOK, Threads
<1>1. Unlocking(r, s) /\ Holds(s)
  BY DEF UnlockPost, Goto, Unlocking, Holds
<1>2. ~fired[s] /\ sig[s].cur.spi = 1
  BY <1>1 DEF LinkInv, TokenInv
<1>3. trPin[s] = 1 /\ reqPin[s] = 0
  BY <1>1, <1>2 DEF LinkInv, TypeOK, ChainInv, PinInv, Bit
<1>4. shSem' = 1
  BY <1>1 DEF LinkInv, TypeOK, TokenInv, UnlockPost
<1>5. \A u \in Steppers : ~Holds(u)'
  BY <1>4 DEF LinkInv, TokenInv
<1>6. BusOwner = s /\ BusOwner' = None
  BY <1>1, <1>5, OwnerIs DEF LinkInv, BusOwner
<1>7. BusStage = "done" /\ BusStage' = "free"
  BY <1>1, <1>3, <1>6, LinkAssumption DEF BusStage
<1>8. QED
  BY <1>6, <1>7 DEF Bus!Release, UnlockPost, picoVars

\* core1 takes a message off its queue.
LEMMA HandleHandles ==
  ASSUME LinkInv, LinkInv', NEW p \in Steppers, Handle(p)
  PROVE  Bus!Handle(p)
<1>1. \A u \in Steppers : Holds(u)' <=> Holds(u)
  BY DEF Handle, Holds, Unlocking, hostVars
<1>2. BusOwner' = BusOwner
  BY <1>1, OwnerStays DEF LinkInv
<1>3. BusStage' = BusStage
  BY <1>2 DEF BusStage, Handle
<1>4. Len(msgQ[p]) > 0
  BY DEF Handle, LinkInv, TypeOK
<1>5. \A s \in Steppers : Len(msgQ'[s]) = IF s = p THEN Len(msgQ[p]) - 1 ELSE Len(msgQ[s])
  BY <1>4 DEF Handle, LinkInv, TypeOK
<1>6. QED
  BY <1>2, <1>3, <1>4, <1>5 DEF Bus!Handle

-----------------------------------------------------------------------------
(* The refinement.                                                         *)

LEMMA BusStep ==
  ASSUME SerialReads, LinkInv, LinkInv', PinInv, [Next]_vars
  PROVE  [Bus!Next]_Bus!busVars
<1>1. ASSUME NEW t \in Threads, CallerStep(t) \/ \E s \in Steppers : Call(t, s)
      PROVE  [Bus!Next]_Bus!busVars
  <2>1. CASE Trigger(t)
    <3>1. tgt[t] \in Steppers
      BY <2>1 DEF Trigger, Goto, LinkInv, TypeOK
    <3>2. QED
      BY <2>1, <3>1, TriggerAcquires DEF Bus!Next
  <2>2. CASE Transfer(t)
    BY <2>2, TransferSends DEF Bus!Next
  <2>3. CASE Reset(t)
    BY <2>3, ResetKeeps
  <2>4. CASE Lock(t) \/ Wait(t) \/ \E s \in Steppers : Call(t, s)
    BY <2>4, HiddenStep
  <2>5. QED
    BY <1>1, <2>1, <2>2, <2>3, <2>4 DEF CallerStep
<1>2. ASSUME NEW r \in Readers, ReaderStep(r) \/ \E s \in Steppers : Spawn(r, s)
      PROVE  [Bus!Next]_Bus!busVars
  <2>1. CASE UnlockPost(r)
    BY <2>1, PostReleases DEF Bus!Next
  <2>2. CASE ~UnlockPost(r)
    BY <1>2, <2>2, HiddenStep DEF ReaderStep
  <2>3. QED
    BY <2>1, <2>2
<1>3. ASSUME NEW p \in Steppers, \/ PicoStep(p) \/ Handle(p) \/ Capture(p)
                                 \/ MotorStart(p) \/ MotorStop(p)
      PROVE  [Bus!Next]_Bus!busVars
  <2>1. CASE Arm(p)
    BY <2>1, ArmReadies DEF Bus!Next
  <2>2. CASE IsrFall(p)
    BY <2>2, FallAccepts DEF Bus!Next
  <2>3. CASE Handle(p)
    BY <2>3, HandleHandles DEF Bus!Next
  <2>4. CASE ~Arm(p) /\ ~IsrFall(p) /\ ~Handle(p)
    BY <1>3, <2>4, HiddenStep DEF PicoStep
  <2>5. QED
    BY <2>1, <2>2, <2>3, <2>4
<1>4. CASE UNCHANGED vars
  <2>1. \A u \in Steppers : Holds(u)' <=> Holds(u)
    BY <1>4 DEF vars, Holds, Unlocking
  <2>2. QED
    BY <1>4, <2>1, BusUnmoved DEF vars, LinkInv
<1>5. QED
  BY <1>1, <1>2, <1>3, <1>4 DEF Next

\* The request pins, the shared semaphore, the readers and the Picos together
\* are a bus with one owner, whose Pico answers, takes one message and lets go
\* before the next may ask (pin_request.h, pi_stepper.c, pinc.c): every step of
\* the link is a step of SpiBus or one it does not see.
THEOREM LinkImplementsBus ==
  ASSUME SerialReads
  PROVE  Spec => ImplementsBus
<1>1. Init => Bus!Init
  <2> SUFFICES ASSUME Init PROVE Bus!Init
    OBVIOUS
  <2>1. \A s \in Steppers : ~Holds(s)
    BY DEF Init, Holds, Unlocking, Threads, High
  <2>2. BusOwner = None
    BY <2>1 DEF BusOwner
  <2>3. BusStage = "free"
    BY <2>2 DEF BusStage
  <2>4. QED
    BY <2>2, <2>3 DEF Bus!Init, Init
<1>2. Init => PinInv
  BY DEF Init, PinInv
<1>3. LinkInv /\ PinInv /\ [Next]_vars => PinInv'
  BY PinStep
<1>4. LinkInv /\ LinkInv' /\ PinInv /\ [Next]_vars => [Bus!Next]_Bus!busVars
  BY BusStep
<1>5. QED
  BY <1>1, <1>2, <1>3, <1>4, LinkInvariant, PTL DEF Spec, ImplementsBus, Bus!Spec

=============================================================================
