---------------------------- MODULE JpuIrqProofs -----------------------------
(***************************************************************************)
(* Proofs about JpuIrq: the JPU's answer is never slept through, and       *)
(* without a wait cut short every result is the answer to its own picture. *)
(***************************************************************************)
EXTENDS JpuIrq, TLAPS

(***************************************************************************)
(* Where an answer of the JPU can be between the register and the driver.  *)
(* These are the invariant's cases; in each the answer is in one place.    *)
(***************************************************************************)
Quiet == status = {} /\ isr = "idle" /\ ~gJpuEventPresent

InRegister == status # {} /\ isr \in {"idle", "taken"} /\ ~gJpuEventPresent
InBoth == status # {} /\ isr = "read" /\ saw = status /\ ~gJpuEventPresent
InHandler == status = {} /\ isr = "cleared" /\ saw # {} /\ ~gJpuEventPresent
InReason == status = {} /\ isr = "stored" /\ gJpuIntrReason # {} /\ ~gJpuEventPresent
InEvent == status = {} /\ isr = "idle" /\ gJpuIntrReason # {} /\ gJpuEventPresent

ResultOwn ==
  /\ result \in {"ok", "error", "wrong_seq"} => complete
  /\ result = "timeout" => expired

\* What holds at each place of NX_VpuJpegRunFrame while no wait was cut short.
AtIdle == Quiet /\ jpu # "running" /\ ResultOwn
AtWait ==
  \/ Quiet /\ mine /\ ~complete /\ jpu \in {"running", "hung"}
  \/ /\ complete /\ jpu \notin {"running", "hung"}
     /\ InRegister \/ InBoth \/ InHandler \/ InReason \/ InEvent
AtWoken == complete /\ jpu # "running" /\ InEvent
AtAnswer == complete /\ jpu # "running" /\ Quiet /\ gJpuIntrReason # {}

OnePlace ==
  ~disturbed =>
    /\ pc = "idle" => AtIdle
    /\ pc = "wait" => AtWait
    /\ pc = "woken" => AtWoken
    /\ pc \in {"reason", "status", "ack"} => AtAnswer

-----------------------------------------------------------------------------

(* Every variable keeps its type.                                            *)
THEOREM JpuTypeCorrect == Spec => []TypeOK
<1>1. Init => TypeOK
  BY DEF Init, TypeOK, Bits, Results
<1>2. TypeOK /\ [Next]_vars => TypeOK'
  <2> SUFFICES ASSUME TypeOK, [Next]_vars PROVE TypeOK'
    OBVIOUS
  <2> USE DEF TypeOK, Bits, Results
  <2>1. CASE JpuAnswers
    BY <2>1 DEF JpuAnswers, handler, host
  <2>2. CASE IsrTaken
    BY <2>2 DEF IsrTaken, hardware, host
  <2>3. CASE IsrReads
    BY <2>3 DEF IsrReads, hardware, host
  <2>4. CASE IsrClears
    BY <2>4 DEF IsrClears, host
  <2>5. CASE IsrStores
    BY <2>5 DEF IsrStores, hardware, host
  <2>6. CASE IsrWakes
    BY <2>6 DEF IsrWakes, EventSet, hardware, host
  <2>7. CASE StartPicture
    BY <2>7 DEF StartPicture, handler
  <2>8. CASE WaitEvent
    BY <2>8 DEF WaitEvent, hardware, handler
  <2>9. CASE WaitSignal
    BY <2>9 DEF WaitSignal, hardware, handler
  <2>10. CASE WaitTimeout
    <3>1. disturbed' \in BOOLEAN
      BY <2>10, Zenon DEF WaitTimeout
    <3> QED
      BY <2>10, <3>1 DEF WaitTimeout, handler
  <2>11. CASE TakeEvent
    BY <2>11 DEF TakeEvent, EventTaken, hardware
  <2>12. CASE ReadReason
    BY <2>12 DEF ReadReason, Return, hardware, handler
  <2>13. CASE ReadStatus
    <3>1. reason' \subseteq Bits /\ result' \in Results /\ pc' \in {"idle", "ack"}
      BY <2>13 DEF ReadStatus, Return
    <3> QED
      BY <2>13, <3>1 DEF ReadStatus, hardware, handler
  <2>14. CASE AckStatus
    BY <2>14 DEF AckStatus, Return, handler
  <2>15. CASE UNCHANGED vars
    BY <2>15 DEF vars, hardware, handler, host
  <2> QED
    BY <2>1, <2>2, <2>3, <2>4, <2>5, <2>6, <2>7, <2>8, <2>9, <2>10, <2>11, <2>12,
       <2>13, <2>14, <2>15 DEF Next
<1> QED
  BY <1>1, <1>2, PTL DEF Spec

(* While the driver waits, an answer of the JPU is in the register, in the   *)
(* handler or in the event: JPU_WaitInterrupt does not sleep through it.  A  *)
(* start forgets the earlier picture, and the event is only taken back after *)
(* the wait, so the property is inductive as it stands.                      *)
THEOREM PictureNeverMissed == Spec => []NoMissedPicture
<1>1. Init => NoMissedPicture
  BY DEF Init, NoMissedPicture
<1>2. NoMissedPicture /\ [Next]_vars => NoMissedPicture'
  <2> SUFFICES ASSUME NoMissedPicture, [Next]_vars PROVE NoMissedPicture'
    OBVIOUS
  <2> USE DEF NoMissedPicture
  <2>1. CASE JpuAnswers
    BY <2>1 DEF JpuAnswers, handler, host
  <2>2. CASE IsrTaken \/ IsrReads
    BY <2>2 DEF IsrTaken, IsrReads, hardware, host
  <2>3. CASE IsrClears \/ IsrStores
    BY <2>3 DEF IsrClears, IsrStores, hardware, host
  <2>4. CASE IsrWakes
    BY <2>4 DEF IsrWakes, EventSet, hardware, host
  <2>5. CASE StartPicture
    BY <2>5 DEF StartPicture, handler
  <2>6. CASE WaitEvent \/ WaitSignal \/ WaitTimeout
    BY <2>6 DEF WaitEvent, WaitSignal, WaitTimeout
  <2>7. CASE TakeEvent \/ ReadReason \/ ReadStatus \/ AckStatus
    BY <2>7 DEF TakeEvent, ReadReason, ReadStatus, AckStatus, Return
  <2>8. CASE UNCHANGED vars
    BY <2>8 DEF vars, hardware, handler, host
  <2> QED
    BY <2>1, <2>2, <2>3, <2>4, <2>5, <2>6, <2>7, <2>8 DEF Next
<1> QED
  BY <1>1, <1>2, PTL DEF Spec

-----------------------------------------------------------------------------

\* Once a wait was cut short it stays so.
LEMMA DisturbedStays ==
  ASSUME [Next]_vars, disturbed PROVE disturbed'
<1>1. CASE WaitTimeout
  BY <1>1, Zenon DEF WaitTimeout
<1>2. CASE WaitSignal
  BY <1>2 DEF WaitSignal
<1>3. CASE JpuAnswers \/ IsrTaken \/ IsrReads \/ IsrClears \/ IsrStores \/ IsrWakes
  BY <1>3 DEF JpuAnswers, IsrTaken, IsrReads, IsrClears, IsrStores, IsrWakes, host
<1>4. CASE StartPicture \/ WaitEvent \/ TakeEvent
  BY <1>4 DEF StartPicture, WaitEvent, TakeEvent
<1>5. CASE ReadReason \/ ReadStatus \/ AckStatus
  BY <1>5 DEF ReadReason, ReadStatus, AckStatus
<1>6. CASE UNCHANGED vars
  BY <1>6 DEF vars, host
<1> QED
  BY <1>1, <1>2, <1>3, <1>4, <1>5, <1>6 DEF Next

\* The step of the invariant, one action at a time.
LEMMA OnePlaceStep ==
  ASSUME TypeOK, OnePlace, [Next]_vars PROVE OnePlace'
<1>1. CASE disturbed
  BY <1>1, DisturbedStays DEF OnePlace
<1>2. CASE ~disturbed
  <2> USE DEF Quiet
  <2>0. /\ pc = "idle" => AtIdle
        /\ pc = "wait" => AtWait
        /\ pc = "woken" => AtWoken
        /\ pc \in {"reason", "status", "ack"} => AtAnswer
    BY <1>2 DEF OnePlace
  <2>1. CASE JpuAnswers
    <3>1. pc = "wait"
      BY <2>0, <2>1 DEF JpuAnswers, AtIdle, AtWoken, AtAnswer, TypeOK
    <3>2. status' # {} /\ complete' /\ jpu' \notin {"running", "hung"}
      BY <3>1, <2>0, <2>1 DEF JpuAnswers, AtWait
    <3>3. InRegister'
      BY <3>1, <3>2, <2>0, <2>1 DEF JpuAnswers, handler, AtWait, InRegister
    <3> QED
      BY <3>1, <3>2, <3>3, <2>1 DEF JpuAnswers, host, OnePlace, AtWait
  <2>2. CASE IsrTaken
    BY <2>0, <2>2 DEF IsrTaken, hardware, host, OnePlace, AtIdle, AtWait, AtWoken, AtAnswer,
       InRegister, InBoth, InHandler, InReason, InEvent
  <2>3. CASE IsrReads
    BY <2>0, <2>3 DEF IsrReads, hardware, host, OnePlace, AtIdle, AtWait, AtWoken, AtAnswer,
       InRegister, InBoth, InHandler, InReason, InEvent
  <2>4. CASE IsrClears
    BY <2>0, <2>4 DEF IsrClears, host, OnePlace, AtIdle, AtWait, AtWoken, AtAnswer,
       InRegister, InBoth, InHandler, InReason, InEvent
  <2>5. CASE IsrStores
    BY <2>0, <2>5 DEF IsrStores, hardware, host, OnePlace, AtIdle, AtWait, AtWoken, AtAnswer,
       InRegister, InBoth, InHandler, InReason, InEvent
  <2>6. CASE IsrWakes
    BY <2>0, <2>6 DEF IsrWakes, EventSet, hardware, host, OnePlace, AtIdle, AtWait, AtWoken,
       AtAnswer, InRegister, InBoth, InHandler, InReason, InEvent
  <2>7. CASE StartPicture
    BY <2>0, <2>7 DEF StartPicture, handler, OnePlace, AtIdle, AtWait
  <2>8. CASE WaitEvent
    BY <2>0, <2>8 DEF WaitEvent, hardware, handler, OnePlace, AtWait, AtWoken,
       InRegister, InBoth, InHandler, InReason, InEvent
  <2>9. CASE WaitSignal
    BY <2>9 DEF WaitSignal, OnePlace
  <2>10. CASE WaitTimeout
    <3>1. CASE ~Silent
      <4>1. disturbed'
        BY <3>1, <2>10, Zenon DEF WaitTimeout
      <4> QED
        BY <4>1 DEF OnePlace
    <3>2. CASE Silent
      BY <3>2, <2>0, <2>10 DEF WaitTimeout, Silent, handler, OnePlace, AtIdle, ResultOwn
    <3> QED
      BY <3>1, <3>2
  <2>11. CASE TakeEvent
    BY <2>0, <2>11 DEF TakeEvent, EventTaken, hardware, OnePlace, AtWoken, AtAnswer, InEvent
  <2>12. CASE ReadReason
    BY <2>0, <2>12 DEF ReadReason, Return, hardware, handler, OnePlace, AtIdle, AtAnswer,
       ResultOwn
  <2>13. CASE ReadStatus
    BY <2>0, <2>13 DEF ReadStatus, Return, hardware, handler, OnePlace, AtIdle, AtAnswer
  <2>14. CASE AckStatus
    BY <2>0, <2>14 DEF AckStatus, Return, handler, OnePlace, AtIdle, AtAnswer, ResultOwn
  <2>15. CASE UNCHANGED vars
    BY <2>0, <2>15 DEF vars, hardware, handler, host, OnePlace, AtIdle, AtWait, AtWoken,
       AtAnswer, ResultOwn, InRegister, InBoth, InHandler, InReason, InEvent
  <2> QED
    BY <2>1, <2>2, <2>3, <2>4, <2>5, <2>6, <2>7, <2>8, <2>9, <2>10, <2>11, <2>12,
       <2>13, <2>14, <2>15 DEF Next
<1> QED
  BY <1>1, <1>2

(* As long as no wait was cut short, what NX_VpuJpegRunFrame returned is the *)
(* JPU's answer for that picture, or a timeout that lasted its time, and     *)
(* nothing of it is left for the next one.  OnePlace is what makes this      *)
(* inductive: the answer is in exactly one of the status register, the       *)
(* handler and the event, and in none of them before the picture is through  *)
(* and after its event was taken.                                            *)
THEOREM PictureAlwaysHonest == Spec => []HonestPicture
<1>1. Init => OnePlace
  BY DEF Init, OnePlace, AtIdle, Quiet, ResultOwn
<1>2. TypeOK /\ OnePlace /\ [Next]_vars => OnePlace'
  BY OnePlaceStep
<1>3. OnePlace => HonestPicture
  BY DEF OnePlace, HonestPicture, AtIdle, Quiet, ResultOwn
<1> QED
  BY <1>1, <1>2, <1>3, JpuTypeCorrect, PTL DEF Spec

=============================================================================
