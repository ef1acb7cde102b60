----------------------------- MODULE VideoInput ------------------------------
(***************************************************************************)
(* A capture handle of libnxv4l2 (nx_vip.cpp) and the threads that use it: *)
(* queuers hand memory to the capture devices with NX_VipQueueBuffer or    *)
(* NX_VipQueueBuffer2, dequeuers get it back filled, and somebody may      *)
(* change the configuration.  hMutex covers the slot tables and the        *)
(* counter only in part: the ioctls, the read of a dequeued slot and       *)
(* streamOnFlag are outside.                                               *)
(*                                                                         *)
(* A memory m is one NX_VID_MEMORY_INFO, or the pair handed to             *)
(* NX_VipQueueBuffer2.  What the devices do is taken from how the code     *)
(* uses them: they fill the queued buffers in order, keep one back to      *)
(* capture into, and refuse a dequeue while they are not streaming.  Any   *)
(* of their ioctls may fail at any time; the code looks at no result.      *)
(***************************************************************************)
EXTENDS FiniteSetsExt, SequencesExt

CONSTANTS
  Queuers,            \* threads that queue buffers
  Dequeuers,          \* threads that dequeue them
  Mems,               \* the memories of the application
  VIP_MAX_BUF_SIZE,   \* slots of a table
  Modes,              \* the VIP_MODE_* the handle may be opened in
  None

ASSUME ModesAssumption ==
  Modes \subseteq {"CLIPPER", "DECIMATOR", "CLIP_DEC", "CLIP_DEC2"}
ASSUME SizeAssumption == VIP_MAX_BUF_SIZE \in Nat \ {0}
ASSUME ThreadsAssumption == IsFiniteSet(Queuers) /\ IsFiniteSet(Dequeuers)
ASSUME NoneIsNoMemory == None \notin Mems

VARIABLES
  open,           \* the handle exists
  mode,           \* hVip->mode
  pMgmtMem,       \* pMgmtMem1 and pMgmtMem2: per device, the memory in each slot
  curQueuedSize,
  streamOnFlag,
  locked,         \* hMutex is held by NX_VipChangeConfig
  queued,         \* per device: the <<slot, memory>> it will fill, in order
  streaming,      \* the devices that stream
  refused,        \* history: per device, the slots whose buffer it did not take
  held,           \* the <<device, memory>> that the application has
  queuer,         \* per queuer: where it is, its memory, slots and devices to do
  dequeuer,       \* per dequeuer: where it is, its indexes and what they gave
  mishaps,        \* history: which calls have run into which, which ioctls failed
  stray           \* history: "slot" or "wild" once an index came from no device;
                  \* both histories begin anew with an idle handle

handle == <<open, mode, pMgmtMem, curQueuedSize, streamOnFlag>>
devices == <<queued, streaming, refused>>
threads == <<queuer, dequeuer>>
vars == <<handle, locked, devices, held, threads, mishaps, stray>>

Slots == 1 .. VIP_MAX_BUF_SIZE
AllDevices == {"clip", "deci"}

\* CLIP_STATUS and DECI_STATUS.
Devices ==
  CASE mode = "CLIPPER" -> {"clip"}
    [] mode \in {"DECIMATOR", "CLIP_DEC"} -> {"deci"}
    [] OTHER -> AllDevices

QueuerIdle == [pc |-> "idle", mem |-> None, slot |-> <<>>, todo |-> {}]
DequeuerIdle == [pc |-> "idle", idx |-> <<>>, filled |-> <<>>, got |-> <<>>]

Inside(who) == {t \in DOMAIN who : who[t].pc # "idle"}

EmptyTables == [d \in AllDevices |-> [s \in Slots |-> None]]
NoneRefused == [d \in AllDevices |-> {}]

NX_VipInit ==
  /\ ~open
  /\ open' = TRUE /\ mode' \in Modes
  /\ pMgmtMem' = EmptyTables /\ curQueuedSize' = 0 /\ streamOnFlag' = FALSE
  /\ held' = Devices' \X Mems /\ refused' = NoneRefused
  /\ UNCHANGED <<locked, queued, streaming, threads, mishaps, stray>>

Init ==
  /\ open = FALSE /\ mode \in Modes
  /\ pMgmtMem = EmptyTables /\ curQueuedSize = 0 /\ streamOnFlag = FALSE
  /\ locked = FALSE
  /\ queued = [d \in AllDevices |-> <<>>] /\ streaming = {}
  /\ refused = NoneRefused /\ held = {}
  /\ queuer = [t \in Queuers |-> QueuerIdle]
  /\ dequeuer = [t \in Dequeuers |-> DequeuerIdle]
  /\ mishaps = {} /\ stray = "no"

Quiet == Inside(queuer) = {} /\ Inside(dequeuer) = {} /\ ~locked

(* NX_VipClose takes no lock: the threads are expected to be through.        *)
NX_VipClose ==
  /\ open /\ Quiet
  /\ open' = FALSE /\ streamOnFlag' = FALSE
  /\ queued' = [d \in AllDevices |-> <<>>] /\ streaming' = {}
  /\ held' = {} /\ mishaps' = {} /\ stray' = "no"
  /\ UNCHANGED <<mode, pMgmtMem, curQueuedSize, locked, refused, threads>>

-----------------------------------------------------------------------------
(* NX_VipQueueBuffer and NX_VipQueueBuffer2.                                 *)

Empty(d) == {s \in Slots : pMgmtMem[d][s] = None}

(* Under the lock: the slots are claimed, the lowest that is empty in each   *)
(* table.  A table without one makes the call fail; what was claimed in the  *)
(* other stays claimed.                                                      *)
Claim(t, m) ==
  LET fits == {d \in Devices : Empty(d) # {} /\ (d = "deci" => "clip" \notin Devices
                                                   \/ Empty("clip") # {})}
      slot == [d \in fits |-> Min(Empty(d))]
  IN
  /\ open /\ ~locked /\ queuer[t].pc = "idle"
  /\ curQueuedSize < VIP_MAX_BUF_SIZE
  /\ Devices \X {m} \subseteq held
  /\ pMgmtMem' = [d \in AllDevices |->
                    IF d \in fits THEN [pMgmtMem[d] EXCEPT ![slot[d]] = m]
                    ELSE pMgmtMem[d]]
  /\ IF fits = Devices
     THEN /\ curQueuedSize' = curQueuedSize + 1
          /\ held' = held \ (Devices \X {m})
          /\ queuer' = [queuer EXCEPT ![t] =
                          [pc |-> "qbuf", mem |-> m, slot |-> slot, todo |-> Devices]]
          /\ mishaps' = mishaps
               \union {x \in {"queue"} : Inside(queuer) # {}}
               \union {x \in {"start"} : Inside(queuer) # {} /\ streaming # Devices}
     ELSE UNCHANGED <<curQueuedSize, held, queuer, mishaps>>
  /\ UNCHANGED <<open, mode, streamOnFlag, locked, devices, dequeuer, stray>>

\* The clipper is queued first and started last.
FirstOf(D) == IF "clip" \in D THEN "clip" ELSE "deci"
LastOf(D) == IF "deci" \in D THEN "deci" ELSE "clip"

\* The device refuses an index that it already has, and any other when it fails.
Accepts(d, s) == \A i \in DOMAIN queued[d] : queued[d][i][1] # s

Qbuf(t) ==
  LET q == queuer[t]
      d == FirstOf(q.todo)
  IN
  /\ q.pc = "qbuf"
  /\ \/ /\ Accepts(d, q.slot[d])
        /\ queued' = [queued EXCEPT ![d] = Append(@, <<q.slot[d], q.mem>>)]
        /\ UNCHANGED <<refused, mishaps>>
     \/ /\ refused' = [refused EXCEPT ![d] = @ \union {q.slot[d]}]
        /\ mishaps' = mishaps \union {"refused"}
        /\ UNCHANGED queued
  /\ queuer' = [queuer EXCEPT ![t].todo = @ \ {d},
                              ![t].pc = IF q.todo = {d} THEN "flag" ELSE "qbuf"]
  /\ UNCHANGED <<handle, locked, streaming, held, dequeuer, stray>>

\* streamOnFlag is tested and set without the lock.
TestFlag(t) ==
  /\ queuer[t].pc = "flag"
  /\ queuer' = [queuer EXCEPT ![t] =
                  IF streamOnFlag THEN QueuerIdle ELSE [@ EXCEPT !.pc = "set"]]
  /\ UNCHANGED <<handle, locked, devices, held, dequeuer, mishaps, stray>>

SetFlag(t) ==
  /\ queuer[t].pc = "set"
  /\ streamOnFlag' = TRUE
  /\ queuer' = [queuer EXCEPT ![t].pc = "on", ![t].todo = Devices]
  /\ UNCHANGED <<open, mode, pMgmtMem, curQueuedSize, locked, devices, held,
                 dequeuer, mishaps, stray>>

\* A device that does not start is not tried again: the flag is set.
StreamOn(t) ==
  LET d == LastOf(queuer[t].todo) IN
  /\ queuer[t].pc = "on"
  /\ \/ streaming' = streaming \union {d} /\ UNCHANGED mishaps
     \/ mishaps' = mishaps \union {"on"} /\ UNCHANGED streaming
  /\ queuer' = [queuer EXCEPT ![t] =
                  IF @.todo = {d} THEN QueuerIdle
                  ELSE [@ EXCEPT !.todo = queuer[t].todo \ {d}]]
  /\ UNCHANGED <<handle, locked, queued, refused, held, dequeuer, stray>>

-----------------------------------------------------------------------------
(* NX_VipDequeueBuffer and NX_VipDequeueBuffer2.                             *)

Check(t) ==
  /\ open /\ ~locked /\ dequeuer[t].pc = "idle"
  /\ curQueuedSize >= 2
  /\ dequeuer' = [dequeuer EXCEPT ![t].pc = "dqbuf"]
  /\ mishaps' = mishaps \union {x \in {"dequeue"} : Inside(dequeuer) # {}}
  /\ UNCHANGED <<handle, locked, devices, held, queuer, stray>>

\* The device whose index is used with the table of d.
SourceClip(d) == "clip" \* mutant: both indexes are asked of the clipper
Source(d) == d

\* The index asked for next: the clipper's, then the decimator's.
Asked(t) == FirstOf(Devices \ DOMAIN dequeuer[t].idx)

With(f, d, x) == [e \in DOMAIN f \union {d} |-> IF e = d THEN x ELSE f[e]]

Got(t, d, s, m) ==
  dequeuer' = [dequeuer EXCEPT
    ![t].idx = With(@, d, s), ![t].filled = With(@, d, m),
    ![t].pc = IF DOMAIN dequeuer[t].idx \union {d} = Devices THEN "take" ELSE "dqbuf"]

(* v4l2_dqbuf blocks until a buffer is full, which the last one never is.    *)
Dqbuf(t) ==
  LET d == Asked(t)
      from == queued[Source(d)]
  IN
  /\ dequeuer[t].pc = "dqbuf"
  /\ Source(d) \in streaming /\ Len(from) >= 2
  /\ Got(t, d, Head(from)[1], Head(from)[2])
  /\ queued' = [queued EXCEPT ![Source(d)] = Tail(@)]
  /\ UNCHANGED <<handle, locked, streaming, refused, held, queuer, mishaps, stray>>

(* It fails while the device does not stream, or by an error or a signal,    *)
(* and its result is ignored: the index is what the stack holds, one of a    *)
(* slot or not.                                                              *)
DqbufFails(t) ==
  LET d == Asked(t) IN
  /\ dequeuer[t].pc = "dqbuf"
  /\ \/ \E s \in Slots : Got(t, d, s, None) /\ stray' = "slot"
     \/ stray' = "wild" /\ UNCHANGED dequeuer
  /\ mishaps' = mishaps \union {x \in {"dqbuf"} : Source(d) \in streaming}
  /\ UNCHANGED <<handle, locked, devices, held, queuer>>

\* mutant: the slots are read and not cleared
ClearedKept(t) == pMgmtMem

Cleared(t) ==
  [d \in AllDevices |->
     IF d \in Devices THEN [pMgmtMem[d] EXCEPT ![dequeuer[t].idx[d]] = None]
     ELSE pMgmtMem[d]]

(* The slots are read and cleared, outside the lock.                         *)
Take(t) ==
  LET got == [d \in Devices |-> pMgmtMem[d][dequeuer[t].idx[d]]] IN
  /\ dequeuer[t].pc = "take"
  /\ pMgmtMem' = Cleared(t)
  /\ dequeuer' = [dequeuer EXCEPT ![t].pc = "count", ![t].got = got]
  /\ held' = held \union {<<d, got[d]>> : d \in {e \in Devices : got[e] # None}}
  /\ UNCHANGED <<open, mode, curQueuedSize, streamOnFlag, locked, devices, queuer,
                 mishaps, stray>>

CountDown(t) ==
  /\ dequeuer[t].pc = "count" /\ ~locked
  /\ curQueuedSize' = curQueuedSize - 1
  /\ dequeuer' = [dequeuer EXCEPT ![t] = DequeuerIdle]
  /\ UNCHANGED <<open, mode, pMgmtMem, streamOnFlag, locked, devices, held, queuer,
                 mishaps, stray>>

-----------------------------------------------------------------------------
(* NX_VipChangeConfig, the whole of it under the lock.                       *)

Idle == streaming = {} /\ \A d \in AllDevices : queued[d] = <<>>

(* The streams are stopped if the flag says that they run; the new buffer    *)
(* request fails while a device still streams.  A device for which an ioctl  *)
(* fails keeps its buffers.                                                  *)
StopAndReconfigure ==
  /\ open /\ ~locked
  /\ locked' = TRUE /\ streamOnFlag' = FALSE
  /\ \E failing \in SUBSET Devices :
       /\ streaming' = IF streamOnFlag THEN streaming \intersect failing ELSE streaming
       /\ queued' = [d \in AllDevices |->
                       IF d \in streaming' \union failing THEN queued[d] ELSE <<>>]
  /\ IF Quiet /\ Idle'
     THEN mishaps' = {} /\ stray' = "no"
     ELSE mishaps' = mishaps \union {"config"} /\ UNCHANGED stray
  /\ UNCHANGED <<open, mode, pMgmtMem, curQueuedSize, refused, held, threads>>

(* The tables are emptied: every memory is the application's again, those    *)
(* excepted that a queuer is just about to hand over.                        *)
ForgetBuffers ==
  /\ locked
  /\ locked' = FALSE
  /\ pMgmtMem' = EmptyTables /\ curQueuedSize' = 0
  /\ held' = Devices \X {m \in Mems : \A t \in Queuers : queuer[t].mem # m}
  /\ refused' = NoneRefused
  /\ UNCHANGED <<open, mode, streamOnFlag, queued, streaming, threads, mishaps, stray>>

-----------------------------------------------------------------------------

Next ==
  /\ stray # "wild"
  /\ \/ NX_VipInit \/ NX_VipClose
     \/ \E t \in Queuers :
          \/ \E m \in Mems : Claim(t, m)
          \/ Qbuf(t) \/ TestFlag(t) \/ SetFlag(t) \/ StreamOn(t)
     \/ \E t \in Dequeuers :
          Check(t) \/ Dqbuf(t) \/ DqbufFails(t) \/ Take(t) \/ CountDown(t)
     \/ StopAndReconfigure \/ ForgetBuffers

Spec == Init /\ [][Next]_vars

-----------------------------------------------------------------------------
(* Properties.                                                               *)

\* The <<slot, memory>> of device d that are on their way, one list per party.
Handing(d) == {t \in Queuers : queuer[t].pc = "qbuf" /\ d \in queuer[t].todo}
Filled(d) == {t \in Dequeuers : dequeuer[t].pc \in {"dqbuf", "take"}
                                /\ d \in DOMAIN dequeuer[t].idx}
OnTheWay(d) ==
  ToSet(queued[d])
    \union {<<queuer[t].slot[d], queuer[t].mem>> : t \in Handing(d)}
    \union {<<dequeuer[t].idx[d], dequeuer[t].filled[d]>> : t \in Filled(d)}
NumOnTheWay(d) == Len(queued[d]) + Cardinality(Handing(d)) + Cardinality(Filled(d))

(* The slot tables agree with the devices though most of a call runs outside *)
(* the lock: a taken slot stands for one buffer on its way, with the memory  *)
(* that was queued in it, or for one that the device refused, and the        *)
(* counter counts the taken slots and the dequeuers still to count down.  So *)
(* a dequeuer returns the memory that was filled, the full check keeps room  *)
(* for whom it lets in, and a refused buffer costs its slot until the next   *)
(* NX_VipChangeConfig.  This holds until an index comes from no device or a  *)
(* configuration change runs into another call or cannot stop a device.  The *)
(* former takes the latter, a STREAMON or a DQBUF that failed, or two queue  *)
(* calls that ran into each other before the devices streamed.               *)
SlotsAccounted ==
  open /\ ~locked =>
    /\ stray # "no" => mishaps \intersect {"config", "start", "on", "dqbuf"} # {}
    /\ stray = "no" /\ "config" \notin mishaps =>
         \A d \in Devices :
           LET waiting == (Slots \ Empty(d)) \ refused[d] IN
           /\ refused[d] \intersect Empty(d) = {}
           /\ {<<s, pMgmtMem[d][s]>> : s \in waiting} = OnTheWay(d)
           /\ Cardinality(waiting) = NumOnTheWay(d)
           /\ curQueuedSize = NumOnTheWay(d) + Cardinality(refused[d])
                + Cardinality({t \in Dequeuers : dequeuer[t].pc = "count"})

(* With one queuer and one dequeuer at a time, the two memories that         *)
(* NX_VipDequeueBuffer2 returns were queued together, though the devices     *)
(* are asked one after the other.  It takes that no ioctl fails: a buffer    *)
(* that one of the two devices refuses puts them out of step for good.       *)
PairsStayTogether ==
  mishaps = {} =>
    \A t \in Dequeuers : dequeuer[t].pc = "count" =>
      \A d, e \in Devices : dequeuer[t].got[d] = dequeuer[t].got[e]

=============================================================================
