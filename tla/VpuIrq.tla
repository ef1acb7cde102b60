------------------------------- MODULE VpuIrq --------------------------------
(***************************************************************************)
(* How the driver waits for the VPU: a command is issued, the firmware     *)
(* stores a reason and raises the interrupt, the handler sets              *)
(* gVpuEventPresent, and the caller of VPU_WaitBitInterrupt, woken by the  *)
(* event, by the timeout or by a signal, fetches the reason.               *)
(*                                                                         *)
(* gstDrvMutex is held from the issue to the result, so there is one       *)
(* waiter at a time; the handler and the hardware run beside it.  Register *)
(* and atomic accesses that another party can see apart are separate steps.*)
(* One instance uses the VPU at a time: what a second one does to a        *)
(* command paused for stream is not the subject of this module.            *)
(***************************************************************************)
EXTENDS Naturals

CONSTANTS
  Signals,     \* may a signal interrupt the wait?
  LateAnswers  \* may the VPU answer around or after its timeout?

ASSUME Disturbances == Signals \in BOOLEAN /\ LateAnswers \in BOOLEAN

VARIABLES
  job,        \* the VPU: "none", "running", "paused" for stream, or "hung"
  reason,     \* BIT_INT_REASON
  line,       \* the interrupt is asserted and not cleared
  isr,        \* VPU_InterruptHandler
  event,      \* gVpuEventPresent
  pc,         \* where the command is in the driver
  more,       \* needMoreFrame of the instance
  ret,        \* what wait_event_interruptible_timeout returned
  seen,       \* the reason that VPU_WaitBitInterrupt read
  result,     \* the result of the last command
  stale,      \* a command that was given up is still in the VPU under another one
  mine,       \* history: reason is that of the command that was issued last
  seenMine,   \* history: the same of seen
  expired,    \* history: the wait of the last command lasted its whole timeout
  disturbed,  \* history: a wait met a signal, or gave up a command that was alive
  unreset     \* history: a reset or a busy-flag command failed, and none since
              \* reset the VPU

hardware == <<job, reason, line, stale, mine>>
handler == <<isr, event>>
history == <<expired, disturbed, unreset>>
host == <<pc, more, ret, seen, seenMine, result, history>>
vars == <<hardware, handler, host>>

Jobs == {"none", "running", "paused", "hung"}
Reasons == {"none", "done", "empty"}
PCs == {"idle", "wait", "check", "clear", "reset", "poll", "pollclear",
        "finish", "ack", "fail"}
Results == {"none", "ok", "need", "timeout"}

Init ==
  /\ job = "none" /\ reason = "none" /\ line = FALSE
  /\ isr = "idle" /\ event = FALSE
  /\ pc = "idle" /\ more = FALSE /\ ret = "event" /\ seen = "none" /\ result = "none"
  /\ stale = FALSE /\ mine = FALSE /\ seenMine = FALSE
  /\ expired = FALSE /\ disturbed = FALSE /\ unreset = FALSE

-----------------------------------------------------------------------------
(* The VPU.                                                                  *)

Interrupt(why) ==
  /\ reason' = why /\ mine' = TRUE /\ line' = TRUE
  /\ UNCHANGED <<stale, handler, host>>

HwDone == job = "running" /\ job' = "none" /\ Interrupt("done")

HwNeedsStream == job = "running" /\ job' = "paused" /\ Interrupt("empty")

(* A command that was given up without a reset may still answer, in the      *)
(* place of the one that was issued over it.                                 *)
HwLate ==
  /\ stale /\ stale' = FALSE
  /\ reason' \in {"done", "empty"} /\ mine' = FALSE /\ line' = TRUE
  /\ UNCHANGED <<job, handler, host>>

-----------------------------------------------------------------------------
(* VPU_InterruptHandler: taken by a CPU, it clears the interrupt, then sets  *)
(* the event and wakes the waiter.                                           *)

IsrTaken ==
  /\ line /\ isr = "idle"
  /\ isr' = "taken"
  /\ UNCHANGED <<hardware, event, host>>

IsrClears ==
  /\ isr = "taken"
  /\ isr' = "cleared" /\ line' = FALSE
  /\ UNCHANGED <<job, reason, stale, mine, event, host>>

\* mutant: the queue is woken and the event not set
IsrWakesSilent ==
  /\ isr = "cleared"
  /\ isr' = "idle"
  /\ UNCHANGED <<hardware, event, host>>

IsrWakes ==
  /\ isr = "cleared"
  /\ isr' = "idle" /\ event' = TRUE
  /\ UNCHANGED <<hardware, host>>

-----------------------------------------------------------------------------
(* The driver.                                                               *)

Goto(where) == pc' = where

\* VpuBitIssueCommand over whatever is in the VPU.
IssueOver == stale' = (stale \/ job = "running")

SWResetSkipped == UNCHANGED <<job, stale, unreset>> \* mutant: no reset after a timeout

(* VPU_SWReset(SW_RESET_SAFETY): when the bus does not come to rest, or the  *)
(* reset does not end, what is in the VPU stays there.  No caller looks at   *)
(* the result.                                                               *)
SWReset ==
  \/ job' = "none" /\ stale' = FALSE /\ unreset' = FALSE
  \/ unreset' = TRUE /\ UNCHANGED <<job, stale>>

(* VPU_WaitVpuBusy after a command that raises no interrupt: its result.     *)
WaitVpuBusy(done) == IssueOver /\ job' = IF done THEN "none" ELSE "hung"

(* SEQ_INIT and PIC_RUN: VpuBitIssueCommand, which touches neither the       *)
(* event nor the reason.                                                     *)
IssueCommand ==
  /\ pc = "idle" /\ ~more
  /\ IssueOver /\ job' \in {"running", "hung"}
  /\ mine' = FALSE /\ expired' = FALSE
  /\ Goto("wait")
  /\ UNCHANGED <<reason, line, handler, more, ret, seen, seenMine, result, disturbed,
                 unreset>>

(* needMoreFrame: the write pointer moves on and the wait is resumed, for a  *)
(* command that may have been flushed since.                                 *)
FeedStream ==
  /\ pc = "idle" /\ more
  /\ more' = FALSE
  /\ job' = IF job = "paused" THEN "running" ELSE job
  /\ mine' = FALSE /\ expired' = FALSE
  /\ Goto("wait")
  /\ UNCHANGED <<reason, line, stale, handler, ret, seen, seenMine, result, disturbed,
                 unreset>>

(* VPU_DecCloseCommand and VPU_EncCloseCommand: without a sequence nothing;  *)
(* SEQ_END, which raises no interrupt; or, when it times out, the reset,     *)
(* whose result is not looked at.  The interrupt and the event are cleared   *)
(* in any case, the instance goes.                                           *)
CloseCommand ==
  /\ pc = "idle"
  /\ \/ UNCHANGED <<job, stale, unreset>>
     \/ WaitVpuBusy(TRUE) /\ UNCHANGED unreset
     \/ job' = "none" /\ stale' = FALSE /\ unreset' = FALSE
     \/ WaitVpuBusy(FALSE) /\ unreset' = TRUE
  /\ line' = FALSE /\ event' = FALSE /\ more' = FALSE
  /\ UNCHANGED <<reason, mine, isr, pc, ret, seen, seenMine, result, expired, disturbed>>

(* SET_FRAME_BUF of decoder and encoder, ENCODE_HEADER, RC_CHANGE_PARAMETER  *)
(* and DEC_BUF_FLUSH, waited for by the busy flag.  There is no reset when   *)
(* one times out, and needMoreFrame is kept.                                 *)
BusyFlagCommand ==
  /\ pc = "idle"
  /\ \E done \in BOOLEAN : WaitVpuBusy(done) /\ unreset' = (unreset \/ ~done)
  /\ UNCHANGED <<reason, line, mine, handler, pc, more, ret, seen, seenMine, result,
                 expired, disturbed>>

\* The three ways out of wait_event_interruptible_timeout.
WaitEvent ==
  /\ pc = "wait" /\ event
  /\ ret' = "event" /\ Goto("check")
  /\ UNCHANGED <<hardware, handler, more, seen, seenMine, result, history>>

\* Nothing will answer the command that is waited for.
Silent == job \in {"hung", "none"} /\ ~mine

MayExpireNever == FALSE \* mutant: a wait without a timeout
MayExpire == Silent \/ LateAnswers

WaitTimeout ==
  /\ pc = "wait" /\ ~event /\ MayExpire
  /\ ret' = "timeout" /\ Goto("check")
  /\ expired' = TRUE /\ disturbed' = (disturbed \/ ~Silent)
  /\ UNCHANGED <<hardware, handler, more, seen, seenMine, result, unreset>>

WaitSignal ==
  /\ pc = "wait" /\ ~event /\ Signals
  /\ ret' = "signal" /\ Goto("check")
  /\ disturbed' = TRUE
  /\ UNCHANGED <<hardware, handler, more, seen, seenMine, result, expired, unreset>>

\* mutant: a wait that succeeds leaves the event set
CheckEventKept ==
  /\ pc = "check"
  /\ Goto(IF event THEN "finish" ELSE IF ret = "timeout" THEN "clear" ELSE "poll")
  /\ UNCHANGED <<hardware, handler, more, ret, seen, seenMine, result, history>>

\* VPU_WaitVpuInterrupt looks at the event again, whatever woke it.
CheckEvent ==
  /\ pc = "check"
  /\ \/ event /\ event' = FALSE /\ Goto("finish")
     \/ ~event /\ ret = "timeout" /\ Goto("clear") /\ UNCHANGED event
     \/ ~event /\ ret # "timeout" /\ Goto("poll") /\ UNCHANGED event
  /\ UNCHANGED <<hardware, isr, more, ret, seen, seenMine, result, history>>

\* After a timeout: the event is cleared first, the VPU is reset afterwards.
ClearEvent ==
  /\ pc = "clear"
  /\ event' = FALSE /\ Goto("reset")
  /\ UNCHANGED <<hardware, isr, more, ret, seen, seenMine, result, history>>

ResetVpu ==
  /\ pc = "reset"
  /\ SWReset /\ Goto("fail")
  /\ UNCHANGED <<reason, line, mine, handler, more, ret, seen, seenMine, result,
                 expired, disturbed>>

\* After a signal the reason is polled every millisecond.
PollReason ==
  /\ pc = "poll" /\ reason # "none"
  /\ event' = FALSE /\ Goto("finish")
  /\ UNCHANGED <<hardware, isr, more, ret, seen, seenMine, result, history>>

PollTimeout ==
  /\ pc = "poll" /\ reason = "none" /\ MayExpire
  /\ SWReset /\ Goto("pollclear")
  /\ expired' = TRUE
  /\ UNCHANGED <<reason, line, mine, handler, more, ret, seen, seenMine, result, disturbed>>

PollClear ==
  /\ pc = "pollclear"
  /\ event' = FALSE /\ Goto("fail")
  /\ UNCHANGED <<hardware, isr, more, ret, seen, seenMine, result, history>>

(* VPU_WaitBitInterrupt after a successful wait: BIT_INT_CLEAR and the read  *)
(* of the reason, then the write that acknowledges it.                       *)
FetchReason ==
  /\ pc = "finish"
  /\ line' = FALSE /\ seen' = reason /\ seenMine' = mine
  /\ Goto("ack")
  /\ UNCHANGED <<job, reason, stale, mine, handler, more, ret, result, history>>

ResultOf(why) ==
  CASE why = "done" -> "ok" [] why = "empty" -> "need" [] OTHER -> "timeout"

AckReason ==
  /\ pc = "ack"
  /\ reason' = "none" /\ result' = ResultOf(seen)
  /\ more' = (seen = "empty")
  /\ Goto("idle")
  /\ UNCHANGED <<job, line, stale, mine, handler, ret, seen, seenMine, history>>

\* VPU_WaitBitInterrupt after a failed wait.
FailCommand ==
  /\ pc = "fail"
  /\ reason' = "none" /\ result' = "timeout"
  /\ Goto("idle")
  /\ UNCHANGED <<job, line, stale, mine, handler, more, ret, seen, seenMine, history>>

-----------------------------------------------------------------------------

Hardware == HwDone \/ HwNeedsStream

Handler == IsrTaken \/ IsrClears \/ IsrWakes

\* What a command does without being asked again.
Wait ==
  \/ WaitEvent \/ WaitTimeout \/ CheckEvent
  \/ ClearEvent \/ ResetVpu
  \/ PollReason \/ PollTimeout \/ PollClear
  \/ FetchReason \/ AckReason \/ FailCommand

Next ==
  \/ Hardware \/ HwLate
  \/ Handler
  \/ IssueCommand \/ FeedStream \/ CloseCommand \/ BusyFlagCommand
  \/ Wait
  \/ WaitSignal

Spec == Init /\ [][Next]_vars
        /\ WF_vars(Hardware) /\ WF_vars(Handler) /\ WF_vars(Wait)

-----------------------------------------------------------------------------
(* Properties.                                                               *)

TypeOK ==
  /\ job \in Jobs /\ reason \in Reasons /\ line \in BOOLEAN
  /\ isr \in {"idle", "taken", "cleared"} /\ event \in BOOLEAN
  /\ pc \in PCs /\ more \in BOOLEAN /\ ret \in {"event", "timeout", "signal"}
  /\ seen \in Reasons /\ result \in Results
  /\ mine \in BOOLEAN /\ seenMine \in BOOLEAN
  /\ stale \in BOOLEAN
  /\ expired \in BOOLEAN /\ disturbed \in BOOLEAN /\ unreset \in BOOLEAN

(* A waiter whose command is complete is woken: the event is set, or the     *)
(* interrupt that sets it is on its way, even after signals, late answers    *)
(* and interrupts left over from earlier commands.                           *)
NoMissedInterrupt ==
  pc = "wait" /\ mine /\ reason # "none" => event \/ line \/ isr # "idle"

(* As long as no wait was disturbed, the driver releases its mutex with no   *)
(* event, no interrupt under way, no reason, and no command that could still *)
(* answer in the place of the next one, even where resets and busy-flag      *)
(* commands failed.  A command that hangs is left in the VPU only if the     *)
(* reset for it failed (VPU_SWReset is not looked at), or if it is one of    *)
(* those after whose timeout there is no reset.                              *)
CleanBetweenCommands ==
  pc = "idle" /\ ~disturbed
    => /\ ~event /\ ~line /\ isr = "idle" /\ reason = "none"
       /\ job # "running" /\ ~stale
       /\ job = "hung" => unreset

(* As long as no wait was disturbed, a success is that of the command itself *)
(* and a timeout is a timeout.                                               *)
HonestResults ==
  pc = "idle" /\ ~disturbed
    => /\ result \in {"ok", "need"} => seenMine
       /\ result = "timeout" => expired

(* VPU_RET_ERR_TIMEOUT says "VPU Wait Timeout": the wait lasted its time.    *)
TimeoutMeansTimeout == pc = "idle" /\ result = "timeout" => expired

(* Every wait ends, and the mutex of the driver with it, though the VPU may  *)
(* hang, interrupts race with polls and the event may be stale.              *)
WaitEnds == pc = "wait" ~> pc = "idle"

=============================================================================
