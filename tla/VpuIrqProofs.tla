---------------------------- MODULE VpuIrqProofs -----------------------------
(***************************************************************************)
(* Proofs about VpuIrq, with or without signals and late answers: a waiter *)
(* is woken by its command's interrupt, and as long as no wait was         *)
(* disturbed nothing is left for the next command and results are honest.  *)
(***************************************************************************)
EXTENDS VpuIrq, TLAPS

(***************************************************************************)
(* Where the interrupt of an answer can be: asserted, in the handler's     *)
(* hands, or turned into the event.                                        *)
(***************************************************************************)
NoInterrupt == ~line /\ isr = "idle" /\ ~event
OnLine == line /\ isr \in {"idle", "taken"} /\ ~event
InHandler == ~line /\ isr = "cleared" /\ ~event
InEvent == ~line /\ isr = "idle" /\ event

Unanswered == NoInterrupt /\ reason = "none" /\ ~mine
Answered == mine /\ reason # "none" /\ job \in {"none", "paused"}

ResultOwn ==
  /\ result \in {"ok", "need"} => seenMine
  /\ result = "timeout" => expired

\* What holds at each place of a command while no wait was disturbed.
LeftHung == job = "hung" => unreset

AtIdle == NoInterrupt /\ reason = "none" /\ job # "running" /\ LeftHung /\ ResultOwn
AtWait == Unanswered \/ (Answered /\ (OnLine \/ InHandler \/ InEvent))
AtCheck ==
  \/ ret = "event" /\ Answered /\ InEvent
  \/ ret = "timeout" /\ Unanswered /\ expired /\ job \in {"none", "hung"}
AtReset == Unanswered /\ expired /\ job \in {"none", "hung"}
AtFail == Unanswered /\ expired /\ job \in {"none", "hung"} /\ LeftHung
AtFinish == Answered /\ NoInterrupt
AtAck == NoInterrupt /\ job \in {"none", "paused"} /\ seen # "none" /\ seenMine

OneAnswer ==
  ~disturbed =>
    /\ ~stale
    /\ pc = "idle" => AtIdle
    /\ pc = "wait" => AtWait
    /\ pc = "check" => AtCheck
    /\ pc \in {"clear", "reset"} => AtReset
    /\ pc = "fail" => AtFail
    /\ pc = "finish" => AtFinish
    /\ pc = "ack" => AtAck
    /\ pc \notin {"poll", "pollclear"}

-----------------------------------------------------------------------------

(* Every variable keeps its type.                                            *)
THEOREM IrqTypeCorrect == Spec => []TypeOK
<1>1. Init => TypeOK
  BY DEF Init, TypeOK, Jobs, Reasons, PCs, Results
<1>2. TypeOK /\ [Next]_vars => TypeOK'
  <2> SUFFICES ASSUME TypeOK, [Next]_vars PROVE TypeOK'
    OBVIOUS
  <2> USE DEF TypeOK, Jobs, Reasons, PCs, Results, history
  <2>1. CASE Hardware
    BY <2>1 DEF Hardware, HwDone, HwNeedsStream, Interrupt, handler, host
  <2>1a. CASE HwLate
    <3>1. reason' \in Reasons /\ (stale \in BOOLEAN)' /\ (mine \in BOOLEAN)'
      BY <2>1a DEF HwLate
    <3> QED
      BY <2>1a, <3>1 DEF HwLate, handler, host
  <2>2. CASE Handler
    BY <2>2 DEF Handler, IsrTaken, IsrClears, IsrWakes, hardware, host
  <2>3. CASE IssueCommand
    <3>1. /\ (line \in BOOLEAN)' /\ (event \in BOOLEAN)' /\ (more \in BOOLEAN)'
          /\ (mine \in BOOLEAN)' /\ (seenMine \in BOOLEAN)' /\ (stale \in BOOLEAN)'
          /\ (expired \in BOOLEAN)' /\ (disturbed \in BOOLEAN)' /\ (unreset \in BOOLEAN)'
      BY <2>3, Zenon DEF IssueCommand, IssueOver, handler
    <3>2. /\ (job \in Jobs)' /\ (reason \in Reasons)' /\ (isr \in {"idle", "taken", "cleared"})'
          /\ (pc \in PCs)' /\ (ret \in {"event", "timeout", "signal"})'
          /\ (seen \in Reasons)' /\ (result \in Results)'
      BY <2>3 DEF IssueCommand, Goto, handler
    <3> QED
      BY <3>1, <3>2
  <2>4. CASE FeedStream
    <3>1. /\ (line \in BOOLEAN)' /\ (event \in BOOLEAN)' /\ (more \in BOOLEAN)'
          /\ (mine \in BOOLEAN)' /\ (seenMine \in BOOLEAN)' /\ (stale \in BOOLEAN)'
          /\ (expired \in BOOLEAN)' /\ (disturbed \in BOOLEAN)' /\ (unreset \in BOOLEAN)'
      BY <2>4, Zenon DEF FeedStream, handler
    <3>2. /\ (job \in Jobs)' /\ (reason \in Reasons)' /\ (isr \in {"idle", "taken", "cleared"})'
          /\ (pc \in PCs)' /\ (ret \in {"event", "timeout", "signal"})'
          /\ (seen \in Reasons)' /\ (result \in Results)'
      BY <2>4 DEF FeedStream, Goto, handler
    <3> QED
      BY <3>1, <3>2
  <2>5. CASE CloseCommand
    <3>0. job' \in Jobs
      BY <2>5 DEF CloseCommand, WaitVpuBusy
    <3>1. /\ (line \in BOOLEAN)' /\ (event \in BOOLEAN)' /\ (more \in BOOLEAN)'
          /\ (mine \in BOOLEAN)' /\ (seenMine \in BOOLEAN)' /\ (stale \in BOOLEAN)'
          /\ (expired \in BOOLEAN)' /\ (disturbed \in BOOLEAN)' /\ (unreset \in BOOLEAN)'
      BY <2>5, Zenon DEF CloseCommand, WaitVpuBusy, IssueOver
    <3>2. /\ (job \in Jobs)' /\ (reason \in Reasons)' /\ (isr \in {"idle", "taken", "cleared"})'
          /\ (pc \in PCs)' /\ (ret \in {"event", "timeout", "signal"})'
          /\ (seen \in Reasons)' /\ (result \in Results)'
      BY <3>0, <2>5 DEF CloseCommand
    <3> QED
      BY <3>1, <3>2
  <2>6. CASE BusyFlagCommand
    <3>1. stale' \in BOOLEAN /\ unreset' \in BOOLEAN
      BY <2>6, Zenon DEF BusyFlagCommand, WaitVpuBusy, IssueOver
    <3>2. job' \in Jobs
      BY <2>6 DEF BusyFlagCommand, WaitVpuBusy
    <3> QED
      BY <2>6, <3>1, <3>2 DEF BusyFlagCommand, handler
  <2>7. CASE WaitEvent
    BY <2>7 DEF WaitEvent, Goto, hardware, handler
  <2>8. CASE WaitTimeout
    <3>1. disturbed' \in BOOLEAN
      BY <2>8, Zenon DEF WaitTimeout
    <3> QED
      BY <2>8, <3>1 DEF WaitTimeout, Goto, hardware, handler
  <2>9. CASE WaitSignal
    BY <2>9 DEF WaitSignal, Goto, hardware, handler
  <2>10. CASE CheckEvent
    <3>1. /\ (line \in BOOLEAN)' /\ (event \in BOOLEAN)' /\ (more \in BOOLEAN)'
          /\ (mine \in BOOLEAN)' /\ (seenMine \in BOOLEAN)' /\ (stale \in BOOLEAN)'
          /\ (expired \in BOOLEAN)' /\ (disturbed \in BOOLEAN)' /\ (unreset \in BOOLEAN)'
      BY <2>10, Zenon DEF CheckEvent, hardware
    <3>2. /\ (job \in Jobs)' /\ (reason \in Reasons)' /\ (isr \in {"idle", "taken", "cleared"})'
          /\ (pc \in PCs)' /\ (ret \in {"event", "timeout", "signal"})'
          /\ (seen \in Reasons)' /\ (result \in Results)'
      BY <2>10 DEF CheckEvent, Goto, hardware
    <3> QED
      BY <3>1, <3>2
  <2>11. CASE ClearEvent \/ PollReason \/ PollClear
    BY <2>11 DEF ClearEvent, PollReason, PollClear, Goto, hardware
  <2>12. CASE ResetVpu \/ PollTimeout
    <3>1. /\ job' \in Jobs /\ stale' \in BOOLEAN /\ unreset' \in BOOLEAN
      BY <2>12 DEF ResetVpu, PollTimeout, SWReset
    <3> QED
      BY <2>12, <3>1 DEF ResetVpu, PollTimeout, Goto, handler
  <2>13. CASE FetchReason
    <3>1. /\ (line \in BOOLEAN)' /\ (event \in BOOLEAN)' /\ (more \in BOOLEAN)'
          /\ (mine \in BOOLEAN)' /\ (seenMine \in BOOLEAN)' /\ (stale \in BOOLEAN)'
          /\ (expired \in BOOLEAN)' /\ (disturbed \in BOOLEAN)' /\ (unreset \in BOOLEAN)'
      BY <2>13, Zenon DEF FetchReason, handler
    <3>2. /\ (job \in Jobs)' /\ (reason \in Reasons)' /\ (isr \in {"idle", "taken", "cleared"})'
          /\ (pc \in PCs)' /\ (ret \in {"event", "timeout", "signal"})'
          /\ (seen \in Reasons)' /\ (result \in Results)'
      BY <2>13 DEF FetchReason, Goto, handler
    <3> QED
      BY <3>1, <3>2
  <2>14. CASE AckReason
    <3>1. ResultOf(seen) \in Results /\ (seen = "empty") \in BOOLEAN
      BY DEF ResultOf
    <3> QED
      BY <2>14, <3>1 DEF AckReason, Goto, handler
  <2>15. CASE FailCommand
    BY <2>15 DEF FailCommand, Goto, handler
  <2>16. CASE UNCHANGED vars
    BY <2>16 DEF vars, hardware, handler, host
  <2> QED
    BY <2>1, <2>1a, <2>2, <2>3, <2>4, <2>5, <2>6, <2>7, <2>8, <2>9, <2>10, <2>11,
       <2>12, <2>13, <2>14, <2>15, <2>16 DEF Next, Wait
<1> QED
  BY <1>1, <1>2, PTL DEF Spec

(* VPU_WaitVpuInterrupt does not sleep through the interrupt of its command, *)
(* whatever signals, late answers and flushes left behind: a command that is *)
(* issued has no answer yet, and the event is only taken back after the      *)
(* wait, so the property is inductive as it stands.                          *)
THEOREM InterruptNeverMissed == Spec => []NoMissedInterrupt
<1>1. Init => NoMissedInterrupt
  BY DEF Init, NoMissedInterrupt
<1>2. NoMissedInterrupt /\ [Next]_vars => NoMissedInterrupt'
  <2> SUFFICES ASSUME NoMissedInterrupt, [Next]_vars PROVE NoMissedInterrupt'
    OBVIOUS
  <2> USE DEF NoMissedInterrupt, Goto
  <2>1. CASE Hardware
    BY <2>1 DEF Hardware, HwDone, HwNeedsStream, Interrupt
  <2>1a. CASE HwLate
    BY <2>1a DEF HwLate
  <2>2. CASE Handler
    BY <2>2 DEF Handler, IsrTaken, IsrClears, IsrWakes, hardware, host
  <2>3. CASE IssueCommand \/ FeedStream
    BY <2>3 DEF IssueCommand, FeedStream
  <2>4. CASE CloseCommand \/ BusyFlagCommand
    BY <2>4 DEF CloseCommand, BusyFlagCommand
  <2>5. CASE WaitEvent \/ WaitTimeout \/ WaitSignal
    BY <2>5 DEF WaitEvent, WaitTimeout, WaitSignal
  <2>6. CASE CheckEvent \/ ClearEvent \/ ResetVpu
    BY <2>6 DEF CheckEvent, ClearEvent, ResetVpu
  <2>7. CASE PollReason \/ PollTimeout \/ PollClear
    BY <2>7 DEF PollReason, PollTimeout, PollClear
  <2>8. CASE FetchReason \/ AckReason \/ FailCommand
    BY <2>8 DEF FetchReason, AckReason, FailCommand
  <2>9. CASE UNCHANGED vars
    BY <2>9 DEF vars, hardware, handler, host
  <2> QED
    BY <2>1, <2>1a, <2>2, <2>3, <2>4, <2>5, <2>6, <2>7, <2>8, <2>9 DEF Next, Wait
<1> QED
  BY <1>1, <1>2, PTL DEF Spec

-----------------------------------------------------------------------------

\* Once a wait was disturbed it stays so.
LEMMA DisturbedStays ==
  ASSUME [Next]_vars, disturbed PROVE disturbed'
<1>1. CASE Hardware \/ HwLate \/ Handler
  BY <1>1 DEF Hardware, HwDone, HwNeedsStream, Interrupt, HwLate, Handler, IsrTaken,
     IsrClears, IsrWakes, host, history
<1>2. CASE IssueCommand \/ FeedStream \/ CloseCommand \/ BusyFlagCommand
  BY <1>2 DEF IssueCommand, FeedStream, CloseCommand, BusyFlagCommand
<1>3. CASE WaitTimeout
  BY <1>3, Zenon DEF WaitTimeout
<1>4. CASE WaitEvent \/ WaitSignal \/ CheckEvent \/ ClearEvent \/ ResetVpu
  BY <1>4 DEF WaitEvent, WaitSignal, CheckEvent, ClearEvent, ResetVpu, history
<1>5. CASE PollReason \/ PollTimeout \/ PollClear
  BY <1>5 DEF PollReason, PollTimeout, PollClear, history
<1>6. CASE FetchReason \/ AckReason \/ FailCommand
  BY <1>6 DEF FetchReason, AckReason, FailCommand, history
<1>7. CASE UNCHANGED vars
  BY <1>7 DEF vars, host, history
<1> QED
  BY <1>1, <1>2, <1>3, <1>4, <1>5, <1>6, <1>7 DEF Next, Wait

\* The step of the invariant, one action at a time.
LEMMA OneAnswerStep ==
  ASSUME TypeOK, OneAnswer, [Next]_vars PROVE OneAnswer'
<1>1. CASE disturbed
  BY <1>1, DisturbedStays DEF OneAnswer
<1>2. CASE ~disturbed
  <2> USE DEF Goto, NoInterrupt, Unanswered, Answered, history
  <2>0. /\ ~stale
        /\ pc = "idle" => AtIdle
        /\ pc = "wait" => AtWait
        /\ pc = "check" => AtCheck
        /\ pc \in {"clear", "reset"} => AtReset
        /\ pc = "fail" => AtFail
        /\ pc = "finish" => AtFinish
        /\ pc = "ack" => AtAck
        /\ pc \notin {"poll", "pollclear"}
    BY <1>2 DEF OneAnswer
  <2>1. CASE Hardware
    <3>1. pc = "wait"
      BY <2>0, <2>1 DEF Hardware, HwDone, HwNeedsStream, AtIdle, AtCheck, AtReset, AtFail,
         AtFinish, AtAck, TypeOK, PCs
    <3>2. Unanswered
      BY <3>1, <2>0, <2>1 DEF Hardware, HwDone, HwNeedsStream, AtWait
    <3>3. Answered' /\ OnLine'
      BY <3>2, <2>1 DEF Hardware, HwDone, HwNeedsStream, Interrupt, handler, OnLine
    <3> QED
      BY <3>1, <3>3, <2>1 DEF Hardware, HwDone, HwNeedsStream, Interrupt, host, OneAnswer,
         AtWait
  <2>1a. CASE HwLate
    BY <2>0, <2>1a DEF HwLate
  <2>2. CASE Handler
    <3>1. pc = "wait"
      BY <2>0, <2>2 DEF Handler, IsrTaken, IsrClears, IsrWakes, AtIdle, AtCheck, AtReset,
         AtFail, AtFinish, AtAck, InEvent, TypeOK, PCs
    <3>2. Answered /\ (OnLine \/ InHandler)
      BY <3>1, <2>0, <2>2 DEF Handler, IsrTaken, IsrClears, IsrWakes, AtWait, InEvent
    <3>3. Answered' /\ (OnLine \/ InHandler \/ InEvent)'
      <4>1. CASE IsrTaken
        <5>1. UNCHANGED <<job, reason, line, mine, event>> /\ isr = "idle" /\ isr' = "taken"
          BY <4>1 DEF IsrTaken, hardware
        <5>2. Answered' /\ OnLine'
          BY <3>2, <5>1 DEF OnLine, InHandler
        <5> QED
          BY <5>2
      <4>2. CASE IsrClears
        <5>1. /\ UNCHANGED <<job, reason, mine, event>>
              /\ isr = "taken" /\ isr' = "cleared" /\ ~line'
          BY <4>2 DEF IsrClears
        <5>2. Answered' /\ InHandler'
          BY <3>2, <5>1 DEF OnLine, InHandler
        <5> QED
          BY <5>2
      <4>3. CASE IsrWakes
        <5>1. /\ UNCHANGED <<job, reason, line, mine>>
              /\ isr = "cleared" /\ isr' = "idle" /\ event'
          BY <4>3 DEF IsrWakes, hardware
        <5>2. Answered' /\ InEvent'
          BY <3>2, <5>1 DEF OnLine, InHandler, InEvent
        <5> QED
          BY <5>2
      <4> QED
        BY <2>2, <4>1, <4>2, <4>3 DEF Handler
    <3> QED
      BY <2>0, <3>1, <3>3, <2>2 DEF Handler, IsrTaken, IsrClears, IsrWakes, hardware, host,
         OneAnswer, AtWait
  <2>3. CASE IssueCommand
    BY <2>0, <2>3 DEF IssueCommand, IssueOver, handler, OneAnswer, AtIdle, AtWait
  <2>4. CASE FeedStream
    BY <2>0, <2>4 DEF FeedStream, handler, OneAnswer, AtIdle, AtWait
  <2>5. CASE CloseCommand
    BY <2>0, <2>5 DEF CloseCommand, WaitVpuBusy, IssueOver, OneAnswer, AtIdle, LeftHung,
       ResultOwn
  <2>6. CASE BusyFlagCommand
    BY <2>0, <2>6 DEF BusyFlagCommand, WaitVpuBusy, IssueOver, handler, OneAnswer, AtIdle,
       LeftHung, ResultOwn
  <2>7. CASE WaitEvent
    BY <2>0, <2>7 DEF WaitEvent, hardware, handler, OneAnswer, AtWait, AtCheck, OnLine,
       InHandler, InEvent
  <2>8. CASE WaitTimeout
    <3>1. CASE ~Silent
      <4>1. disturbed'
        BY <3>1, <2>8, Zenon DEF WaitTimeout
      <4> QED
        BY <4>1 DEF OneAnswer
    <3>2. CASE Silent
      BY <3>2, <2>0, <2>8 DEF WaitTimeout, Silent, hardware, handler, OneAnswer, AtWait,
         AtCheck
    <3> QED
      BY <3>1, <3>2
  <2>9. CASE WaitSignal
    BY <2>9 DEF WaitSignal, OneAnswer
  <2>10. CASE CheckEvent
    BY <2>0, <2>10 DEF CheckEvent, hardware, OneAnswer, AtCheck, AtReset, AtFinish, InEvent
  <2>11. CASE ClearEvent
    BY <2>0, <2>11 DEF ClearEvent, hardware, OneAnswer, AtReset
  <2>12. CASE ResetVpu
    BY <2>0, <2>12 DEF ResetVpu, SWReset, handler, OneAnswer, AtReset, AtFail, LeftHung
  <2>13. CASE PollReason \/ PollTimeout \/ PollClear
    BY <2>0, <2>13 DEF PollReason, PollTimeout, PollClear
  <2>14. CASE FetchReason
    BY <2>0, <2>14 DEF FetchReason, handler, OneAnswer, AtFinish, AtAck
  <2>15. CASE AckReason
    <3>1. result' \in {"ok", "need"}
      BY <2>0, <2>15 DEF AckReason, AtAck, ResultOf, TypeOK, Reasons
    <3> QED
      BY <3>1, <2>0, <2>15 DEF AckReason, handler, OneAnswer, AtAck, AtIdle, LeftHung, ResultOwn
  <2>16. CASE FailCommand
    BY <2>0, <2>16 DEF FailCommand, handler, OneAnswer, AtFail, AtIdle, LeftHung, ResultOwn
  <2>17. CASE UNCHANGED vars
    BY <2>0, <2>17 DEF vars, hardware, handler, host, OneAnswer, AtIdle, LeftHung, AtWait,
       AtCheck, AtReset, AtFail, AtFinish, AtAck, ResultOwn, OnLine, InHandler, InEvent
  <2> QED
    BY <2>1, <2>1a, <2>2, <2>3, <2>4, <2>5, <2>6, <2>7, <2>8, <2>9, <2>10, <2>11,
       <2>12, <2>13, <2>14, <2>15, <2>16, <2>17 DEF Next, Wait
<1> QED
  BY <1>1, <1>2

LEMMA OneAnswerAlways == Spec => []OneAnswer
<1>1. Init => OneAnswer
  BY DEF Init, OneAnswer, AtIdle, LeftHung, NoInterrupt, ResultOwn
<1>2. TypeOK /\ OneAnswer /\ [Next]_vars => OneAnswer'
  BY OneAnswerStep
<1> QED
  BY <1>1, <1>2, IrqTypeCorrect, PTL DEF Spec

(* Without a disturbed wait the driver releases gstDrvMutex with no event,   *)
(* interrupt, reason or command that could still answer left for whoever     *)
(* comes next, though VPU_SWReset may fail and nobody looks at its result;   *)
(* a command that hangs is left there only after such a failure, or after a  *)
(* busy-flag command, whose timeout resets nothing.                          *)
(* OneAnswer makes it inductive: a command waits either for an answer of     *)
(* which nothing exists yet, or for one whose interrupt is in exactly one    *)
(* place, and what is found after the wait is taken away.                    *)
THEOREM AlwaysClean == Spec => []CleanBetweenCommands
<1>1. OneAnswer => CleanBetweenCommands
  BY DEF OneAnswer, CleanBetweenCommands, AtIdle, LeftHung, NoInterrupt
<1> QED
  BY <1>1, OneAnswerAlways, PTL

(* Without a disturbed wait VPU_WaitBitInterrupt returns the answer of the   *)
(* command that was issued last, and says timeout only after a whole one.    *)
THEOREM AlwaysHonest == Spec => []HonestResults
<1>1. OneAnswer => HonestResults
  BY DEF OneAnswer, HonestResults, AtIdle, ResultOwn
<1> QED
  BY <1>1, OneAnswerAlways, PTL

=============================================================================
