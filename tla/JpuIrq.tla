------------------------------- MODULE JpuIrq --------------------------------
(***************************************************************************)
(* How the driver has a picture encoded by the JPU: NX_VpuJpegRunFrame     *)
(* starts it, JPU_InterruptHandler copies the status register into         *)
(* gJpuIntrReason and sets gJpuEventPresent, and JPU_WaitInterrupt, woken  *)
(* by the event, a signal or its timeout, returns the reason.              *)
(*                                                                         *)
(* gstDrvMutex is held for the whole picture, so there is one waiter; the  *)
(* handler and the JPU run beside it.  The reset after a timeout is that   *)
(* of the VPU cores: it names no bit of the JPU, which may go on or stop.  *)
(***************************************************************************)
EXTENDS Naturals

VARIABLES
  jpu,       \* "idle", "running", "full" (stalled on a full buffer) or "hung"
  status,    \* MJPEG_PIC_STATUS_REG: the bits that are set
  isr,       \* where JPU_InterruptHandler is
  saw,       \* its copy of the status
  gJpuEventPresent,
  gJpuIntrReason,
  pc,        \* where NX_VpuJpegRunFrame is
  reason,    \* what JPU_WaitInterrupt returned
  result,    \* what the last NX_VpuJpegRunFrame returned
  mine,      \* history: the JPU works, or worked last, on the picture started last
  complete,  \* history: that picture was encoded or given up by the JPU
  expired,   \* history: its wait lasted the whole timeout
  disturbed  \* history: a signal, or a timeout of a JPU at work, cut a wait short

hardware == <<jpu, status, mine, complete>>
handler == <<isr, saw, gJpuEventPresent, gJpuIntrReason>>
host == <<pc, reason, result, expired, disturbed>>
vars == <<hardware, handler, host>>

Bits == {"done", "error", "full"}
Results == {"none", "ok", "timeout", "error", "wrong_seq"}

Init ==
  /\ jpu = "idle" /\ status = {} /\ mine = FALSE /\ complete = FALSE
  /\ isr = "idle" /\ saw = {}
  /\ gJpuEventPresent = FALSE /\ gJpuIntrReason = {}
  /\ pc = "idle" /\ reason = {} /\ result = "none"
  /\ expired = FALSE /\ disturbed = FALSE

-----------------------------------------------------------------------------

(* The JPU is through with a picture or stalls, and raises its interrupt.    *)
JpuAnswers ==
  /\ jpu = "running"
  /\ \E bit \in Bits :
       /\ status' = status \union {bit}
       /\ jpu' = IF bit = "full" THEN "full" ELSE "idle"
  /\ complete' = (complete \/ mine)
  /\ UNCHANGED <<mine, handler, host>>

(* JPU_InterruptHandler.                                                     *)

IsrTaken ==
  /\ isr = "idle" /\ status # {}
  /\ isr' = "taken"
  /\ UNCHANGED <<hardware, saw, gJpuEventPresent, gJpuIntrReason, host>>

IsrReads ==
  /\ isr = "taken"
  /\ saw' = status /\ isr' = "read"
  /\ UNCHANGED <<hardware, gJpuEventPresent, gJpuIntrReason, host>>

IsrClears ==
  /\ isr = "read"
  /\ status' = status \ saw /\ isr' = "cleared"
  /\ UNCHANGED <<jpu, mine, complete, saw, gJpuEventPresent, gJpuIntrReason, host>>

IsrStores ==
  /\ isr = "cleared"
  /\ gJpuIntrReason' = saw /\ isr' = "stored"
  /\ UNCHANGED <<hardware, saw, gJpuEventPresent, host>>

\* mutant: an interrupt other than the end of the picture wakes nobody
EventOfDone == gJpuEventPresent' = (gJpuEventPresent \/ saw = {"done"})
EventSet == gJpuEventPresent' = TRUE

IsrWakes ==
  /\ isr = "stored"
  /\ EventSet /\ saw' = {} /\ isr' = "idle"
  /\ UNCHANGED <<hardware, gJpuIntrReason, host>>

-----------------------------------------------------------------------------
(* NX_VpuJpegRunFrame.                                                       *)

(* The registers are set and MJPEG_PIC_START written, whatever the JPU still *)
(* does for an earlier picture; the event is left as it is.                  *)
StartPicture ==
  /\ pc = "idle"
  /\ \/ jpu' \in {"running", "hung"} /\ mine' = TRUE
     \/ jpu = "running" /\ jpu' = jpu /\ mine' = FALSE
  /\ complete' = FALSE /\ expired' = FALSE
  /\ pc' = "wait"
  /\ UNCHANGED <<status, handler, reason, result, disturbed>>

WaitEvent ==
  /\ pc = "wait" /\ gJpuEventPresent
  /\ pc' = "woken"
  /\ UNCHANGED <<hardware, handler, reason, result, expired, disturbed>>

\* The wait is then over with an error, which is not zero either.
WaitSignal ==
  /\ pc = "wait" /\ ~gJpuEventPresent
  /\ pc' = "woken" /\ disturbed' = TRUE
  /\ UNCHANGED <<hardware, handler, reason, result, expired>>

Silent == jpu \in {"idle", "hung"} /\ status = {} /\ isr = "idle"

(* JPU_ENC_TIMEOUT is over.  VPU_SWReset resets the cores of the VPU.        *)
WaitTimeout ==
  /\ pc = "wait" /\ ~gJpuEventPresent
  /\ jpu' \in {jpu, "idle"}
  /\ result' = "timeout" /\ expired' = TRUE
  /\ disturbed' = (disturbed \/ ~Silent)
  /\ pc' = "idle"
  /\ UNCHANGED <<status, mine, complete, handler, reason>>

EventKept == UNCHANGED gJpuEventPresent \* mutant: the event is not taken back
EventTaken == gJpuEventPresent' = FALSE

TakeEvent ==
  /\ pc = "woken"
  /\ EventTaken /\ pc' = "reason"
  /\ UNCHANGED <<hardware, isr, saw, gJpuIntrReason, reason, result, expired, disturbed>>

Return(what) == result' = what /\ pc' = "idle"

(* The reason is that of the last interrupt, whichever picture it was for.   *)
ReadReason ==
  /\ pc = "reason"
  /\ reason' = gJpuIntrReason
  /\ \/ gJpuIntrReason = {} /\ Return("timeout")
     \/ gJpuIntrReason \notin {{}, {"done"}} /\ Return("error")
     \/ gJpuIntrReason = {"done"} /\ pc' = "status" /\ UNCHANGED result
  /\ UNCHANGED <<hardware, handler, expired, disturbed>>

(* After a success the status is looked at once more.                        *)
ReadStatus ==
  /\ pc = "status"
  /\ \/ "full" \in status /\ Return("wrong_seq") /\ UNCHANGED reason
     \/ "full" \notin status /\ pc' = "ack" /\ reason' = status /\ UNCHANGED result
  /\ UNCHANGED <<hardware, handler, expired, disturbed>>

AckStatus ==
  /\ pc = "ack"
  /\ status' = status \ reason /\ Return("ok")
  /\ UNCHANGED <<jpu, mine, complete, handler, reason, expired, disturbed>>

-----------------------------------------------------------------------------

Next ==
  \/ JpuAnswers
  \/ IsrTaken \/ IsrReads \/ IsrClears \/ IsrStores \/ IsrWakes
  \/ StartPicture \/ WaitEvent \/ WaitSignal \/ WaitTimeout
  \/ TakeEvent \/ ReadReason \/ ReadStatus \/ AckStatus

Spec == Init /\ [][Next]_vars

-----------------------------------------------------------------------------
(* Properties.                                                               *)

TypeOK ==
  /\ jpu \in {"idle", "running", "full", "hung"} /\ status \subseteq Bits
  /\ isr \in {"idle", "taken", "read", "cleared", "stored"} /\ saw \subseteq Bits
  /\ gJpuEventPresent \in BOOLEAN /\ gJpuIntrReason \subseteq Bits
  /\ pc \in {"idle", "wait", "woken", "reason", "status", "ack"}
  /\ reason \subseteq Bits /\ result \in Results
  /\ mine \in BOOLEAN /\ complete \in BOOLEAN
  /\ expired \in BOOLEAN /\ disturbed \in BOOLEAN

(* A caller whose picture the JPU is through with does not sleep out its     *)
(* timeout: the event is set, or the interrupt that sets it is on its way,   *)
(* also when signals and timeouts left events and status bits of earlier     *)
(* pictures about.                                                           *)
NoMissedPicture ==
  pc = "wait" /\ complete => gJpuEventPresent \/ status # {} \/ isr # "idle"

(* As long as no wait was cut short by a signal or by a timeout of a JPU at  *)
(* work, a success and an error are the JPU's answer for the picture itself, *)
(* a timeout lasted its time, and the mutex is given back with no event and  *)
(* no interrupt left over for the next picture.                              *)
HonestPicture ==
  pc = "idle" /\ ~disturbed =>
    /\ result \in {"ok", "error", "wrong_seq"} => complete
    /\ result = "timeout" => expired
    /\ ~gJpuEventPresent /\ status = {} /\ isr = "idle" /\ jpu # "running"

=============================================================================
