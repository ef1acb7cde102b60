--------------------------- MODULE VpuDriverProofs ---------------------------
(* Proofs about VpuDriver, for any sets of files and threads and any limits  *)
(* that satisfy Limits.  The inductive invariant is built in layers, each    *)
(* proved with the ones before it: the shape of the state and the count of   *)
(* open files (FilesInv), the ownership of slots (HandlesOwned), the power   *)
(* of the VPU (PowerInv), the quotas (QuotaCoversHolders), the slots in use  *)
(* (SlotInv), the firmware's registers (FwInv).                              *)
EXTENDS VpuDriver, FiniteSetTheorems, WellFoundedInduction, TLAPS

(* What the variables hold, the quotas only as integers.                     *)
BaseType ==
  /\ loaded \in BOOLEAN /\ pm \in {"run", "suspended"}
  /\ hw \in HwType /\ store \in Regs
  /\ opened \subseteq Files
  /\ curNum \in Nat /\ cruEnc \in Int /\ cruDec \in Int
  /\ inst \in [Slots -> InstType]
  /\ priv \in [Files -> Slots \cup {None}]
  /\ call \in [Threads -> CallType \cup {None}]
  /\ owner \in [Slots -> Files \cup {None}]
  /\ misuse \in BOOLEAN /\ refused \in BOOLEAN

(* Open files are counted, ioctls run on open files only, and neither        *)
(* outlives the module or runs while the system sleeps.                      *)
FilesInv ==
  /\ BaseType
  /\ IsFiniteSet(opened)
  /\ curNum = Cardinality(opened)
  /\ curNum <= MaxInst
  /\ \A t \in Threads : call[t] # None => pm = "run" /\ call[t].file \in opened
  /\ loaded \/ opened = {}

USE DEF system, quotas, history

-----------------------------------------------------------------------------
(* The hardware functions.                                                   *)

LEMMA ClockType == ASSUME NEW h \in HwType, NEW on \in BOOLEAN
                   PROVE  /\ Clock(h, on) \in HwType
                          /\ Clock(h, on) = [h EXCEPT !.clk = on]
BY DEF Clock, HwType

LEMMA TouchType == ASSUME NEW h \in HwType PROVE Touch(h) \in HwType
BY DEF Touch, HwType

LEMMA HwOnType == ASSUME NEW h \in HwType PROVE HwOn(h) \in HwType
BY DEF HwOn, Clock, HwType

LEMMA HWOffType == ASSUME NEW h \in HwType PROVE HWOff(h) \in HwType
BY DEF HWOff, HwType, Regs

LEMMA VpuInitType == ASSUME NEW h \in HwType, NEW boot \in Boots
                     PROVE  VpuInit(h, boot) \in HwType
<1>1. Touch(HwOn(h)) \in HwType
  BY HwOnType, TouchType
<1>2. QED
  BY <1>1 DEF VpuInit, HwType, Regs, Boots

LEMMA VpuDeInitType == ASSUME NEW h \in HwType PROVE VpuDeInit(h) \in HwType
<1>1. Touch(h) \in HwType /\ HWOff(Touch(h)) \in HwType
  BY TouchType, HWOffType
<1>2. [HWOff(Touch(h)) EXCEPT !.init = FALSE] \in HwType
  BY <1>1 DEF HwType
<1>3. QED
  BY <1>1, <1>2 DEF VpuDeInit

LEMMA IssueType == ASSUME NEW h \in HwType, NEW busy \in BOOLEAN
                   PROVE  Issue(h, busy) \in HwType
<1>1. Touch(h) \in HwType
  BY TouchType
<1>2. QED
  BY <1>1 DEF Issue, HwType

LEMMA CodecCloseType ==
  ASSUME NEW h \in HwType, NEW i \in InstType, NEW busy \in BOOLEAN
  PROVE  CodecClose(h, i, busy) \in HwType
BY TouchType, IssueType DEF CodecClose

LEMMA DeInitIfLastType == ASSUME NEW h \in HwType PROVE DeInitIfLast(h) \in HwType
<1>1. Clock(h, TRUE) \in HwType
  BY ClockType
<1>2. Clock(VpuDeInit(Clock(h, TRUE)), FALSE) \in HwType
  BY <1>1, ClockType, VpuDeInitType
<1>3. QED
  BY <1>2 DEF DeInitIfLast

LEMMA SuspendType == ASSUME NEW h \in HwType PROVE VpuSuspend(h) \in HwType
BY TouchType, HWOffType DEF VpuSuspend

LEMMA ResumeType ==
  ASSUME NEW h \in HwType, NEW saved \in Regs, NEW boot \in Boots
  PROVE  VpuResume(h, saved, boot) \in HwType
<1>1. Touch(HwOn(h)) \in HwType
  BY HwOnType, TouchType
<1>2. QED
  BY <1>1 DEF VpuResume, HwType, Regs, Boots

-----------------------------------------------------------------------------
(* Slots.                                                                    *)

(* A non-empty finite set of integers has a least element: it is the only    *)
(* member of the smallest non-empty initial segment of the set.              *)
LEMMA LeastExists ==
  ASSUME NEW S, S \subseteq Int, IsFiniteSet(S), S # {}
  PROVE  \E s \in S : \A r \in S : s <= r
<1> DEFINE Below(s) == {r \in S : r < s}
           Segments == {X \in SUBSET S : X # {} /\ \A x \in X : Below(x) \subseteq X}
           R == StrictSubsetOrdering(S)
<1>1. /\ IsWellFoundedOn(R, SUBSET S)
      /\ Segments \subseteq SUBSET S
      /\ Segments # {}
  <2>1. S \in Segments
    OBVIOUS
  <2>2. FiniteSubsetsOf(S) = SUBSET S
    BY FS_FiniteSubsetsOfFinite
  <2>3. IsWellFoundedOn(R, FiniteSubsetsOf(S))
    BY FS_StrictSubsetOrderingWellFounded
  <2>4. IsWellFoundedOn(R, SUBSET S)
    <3> HIDE DEF R
    <3>1. QED
      BY <2>2, <2>3, Zenon
  <2>5. Segments \subseteq SUBSET S
    OBVIOUS
  <2>6. QED
    BY <2>1, <2>4, <2>5
<1>2. \E X \in Segments : \A Y \in Segments : ~(<<Y, X>> \in R)
  <2> HIDE DEF R, Segments
  <2>1. QED
    BY <1>1, WFMin, Zenon
<1>3. PICK X \in Segments : \A Y \in Segments : ~(<<Y, X>> \in R)
  BY <1>2
<1>4. PICK s \in X : TRUE
  OBVIOUS
<1>5. Below(s) = {}
  <2>1. SUFFICES ASSUME Below(s) # {} PROVE FALSE
    OBVIOUS
  <2>2. Below(s) \in Segments
    <3>1. \A x \in Below(s), r \in S : r < x => r < s
      <4>1. \A x, r \in S : x \in Int /\ r \in Int
        OBVIOUS
      <4>2. s \in Int /\ s \in S
        BY <1>4
      <4>3. TAKE x \in Below(s), r \in S
      <4>4. x \in Int /\ r \in Int /\ x < s
        BY <4>1, <4>3
      <4>5. QED
        BY <4>2, <4>4
    <3>2. QED
      BY <2>1, <3>1
  <2>3. Below(s) \subseteq X /\ Below(s) # X
    BY <1>4
  <2>4. <<Below(s), X>> \in R
    BY <2>3 DEF StrictSubsetOrdering
  <2>5. QED
    BY <1>3, <2>2, <2>4
<1>6. QED
  BY <1>5

(* Some free slot comes first, and FirstFree returns it.                     *)
LEMMA FirstFreeInSlots == ASSUME FreeSlots # {}
                          PROVE  FirstFree \in FreeSlots /\ FirstFree \in Slots
<1>1. FreeSlots \subseteq Int /\ IsFiniteSet(FreeSlots)
  <2>1. IsFiniteSet(Slots)
    BY Limits, FS_Interval DEF Slots
  <2>2. FreeSlots \in SUBSET Slots
    BY DEF FreeSlots
  <2>3. IsFiniteSet(FreeSlots)
    BY <2>1, <2>2, FS_Subset
  <2>4. QED
    BY <2>2, <2>3, Limits DEF Slots
<1>2. \E s \in FreeSlots : \A r \in FreeSlots : s <= r
  BY <1>1, LeastExists
<1>3. QED
  BY <1>2 DEF FirstFree, FreeSlots

-----------------------------------------------------------------------------
(* Files and types.                                                          *)

LEMMA FilesInit == Init => FilesInv
<1> SUFFICES ASSUME Init PROVE FilesInv
  OBVIOUS
<1>1. hw \in HwType /\ inst \in [Slots -> InstType]
  BY DEF Init, HwType, Regs, NoInstances, InstType, Kinds
<1>2. loaded \in BOOLEAN /\ misuse \in BOOLEAN /\ refused \in BOOLEAN
  BY DEF Init
<1>3. /\ priv \in [Files -> Slots \cup {None}]
      /\ call \in [Threads -> CallType \cup {None}]
      /\ owner \in [Slots -> Files \cup {None}]
  BY DEF Init
<1>4. /\ pm \in {"run", "suspended"} /\ store \in Regs /\ opened \subseteq Files
      /\ curNum \in Nat /\ cruEnc \in Int /\ cruDec \in Int
  BY DEF Init, Regs
<1>5. BaseType
  BY <1>1, <1>2, <1>3, <1>4 DEF BaseType
<1>6. QED
  BY <1>5, Limits, FS_EmptySet DEF Init, FilesInv

\* What the end of an ioctl needs to preserve FilesInv.
LEMMA ReturnFiles ==
  ASSUME FilesInv, NEW t \in Threads, NEW h \in HwType, Return(t, h),
         cruEnc' \in Int, cruDec' \in Int,
         inst' \in [Slots -> InstType],
         priv' \in [Files -> Slots \cup {None}],
         owner' \in [Slots -> Files \cup {None}],
         misuse' \in BOOLEAN
  PROVE  FilesInv'
<1>1. hw' \in HwType
  BY ClockType DEF Return
<1>2. BaseType'
  BY <1>1 DEF FilesInv, BaseType, Return
<1>3. QED
  BY <1>2 DEF FilesInv, Return, BaseType

LEMMA FilesStep == FilesInv /\ [Next]_vars => FilesInv'
<1> SUFFICES ASSUME FilesInv, [Next]_vars PROVE FilesInv'
  OBVIOUS
<1>t. BaseType
  BY DEF FilesInv
<1>c. Clock(hw, TRUE) \in HwType
  BY <1>t, ClockType DEF BaseType
<1>1. ASSUME NEW f \in Files, NxVpuOpen(f) PROVE FilesInv'
  <2>1. hw' \in HwType
    <3>1. \A boot \in Boots : Clock(VpuInit(Clock(hw, TRUE), boot), FALSE) \in HwType
      BY <1>c, VpuInitType, ClockType
    <3>2. QED
      BY <1>1, <1>t, <3>1 DEF NxVpuOpen, BaseType
  <2>2. inst' \in [Slots -> InstType] /\ owner' \in [Slots -> Files \cup {None}]
    <3>1. \A boot \in Boots : /\ SlotsAfterInit(hw, boot) \in [Slots -> InstType]
                              /\ OwnersAfterInit(hw, boot) \in [Slots -> Files \cup {None}]
      BY <1>t DEF SlotsAfterInit, OwnersAfterInit, BaseType, InstType
    <3>2. QED
      BY <1>1, <1>t, <3>1 DEF NxVpuOpen, BaseType
  <2>3. BaseType'
    BY <1>1, <1>t, <2>1, <2>2 DEF NxVpuOpen, BaseType
  <2>4. IsFiniteSet(opened') /\ curNum' = Cardinality(opened') /\ curNum' <= MaxInst
    BY <1>1, <1>t, FS_AddElement, Limits DEF NxVpuOpen, FilesInv, BaseType
  <2>5. QED
    BY <1>1, <2>3, <2>4 DEF NxVpuOpen, FilesInv
<1>2. ASSUME NEW f \in Files, NxVpuClose(f) PROVE FilesInv'
  <2>1. hw' \in HwType
    <3>1. ASSUME NEW i \in InstType, NEW busy \in BOOLEAN
          PROVE  LET up == Clock(hw, TRUE)
                     closed == IF i.init THEN CodecClose(up, i, busy) ELSE up
                 IN  Clock(DeInitIfLast(closed), FALSE) \in HwType
      BY <1>c, CodecCloseType, DeInitIfLastType, ClockType
    <3>2. Clock(DeInitIfLast(Clock(hw, TRUE)), FALSE) \in HwType
      BY <1>c, DeInitIfLastType, ClockType
    <3>3. priv[f] # None => inst[priv[f]] \in InstType
      BY <1>t DEF BaseType
    <3>4. QED
      BY <1>2, <3>1, <3>2, <3>3 DEF NxVpuClose
  <2>2. /\ inst' \in [Slots -> InstType] /\ owner' \in [Slots -> Files \cup {None}]
        /\ cruEnc' \in Int /\ cruDec' \in Int
    <3>1. \A i \in InstType : Freed(i) \in InstType
      BY DEF Freed, InstType
    <3>2. \A kind : EncShare(kind) \in Int /\ DecShare(kind) \in Int
      BY DEF EncShare, DecShare
    <3>3. CASE priv[f] # None /\ inst[priv[f]].inUse
      <4>1. priv[f] \in Slots /\ inst[priv[f]] \in InstType
        BY <1>t, <3>3 DEF BaseType
      <4>2. /\ inst' = [inst EXCEPT ![priv[f]] = Freed(inst[priv[f]])]
            /\ owner' = [owner EXCEPT ![priv[f]] = None]
            /\ cruDec' = cruDec - DecShare(inst[priv[f]].kind)
            /\ cruEnc' = cruEnc - EncShare(inst[priv[f]].kind)
        BY <1>2, <3>3 DEF NxVpuClose
      <4>3. cruEnc' \in Int /\ cruDec' \in Int
        BY <1>t, <3>2, <4>2 DEF BaseType
      <4>4. QED
        BY <1>t, <3>1, <4>1, <4>2, <4>3 DEF BaseType
    <3>4. CASE ~(priv[f] # None /\ inst[priv[f]].inUse)
      BY <1>2, <1>t, <3>4 DEF NxVpuClose, BaseType
    <3>5. QED
      BY <3>3, <3>4
  <2>3. IsFiniteSet(opened') /\ curNum' = Cardinality(opened') /\ curNum' <= MaxInst
        /\ curNum' \in Nat
    <3>1. IsFiniteSet(opened') /\ curNum' = Cardinality(opened')
      BY <1>2, <1>t, FS_RemoveElement DEF NxVpuClose, FilesInv
    <3>2. QED
      BY <1>2, <1>t, <3>1, FS_CardinalityType, Limits DEF NxVpuClose, FilesInv, BaseType
  <2>4. BaseType'
    BY <1>2, <1>t, <2>1, <2>2, <2>3 DEF NxVpuClose, BaseType
  <2>5. \A t \in Threads : call'[t] # None => pm' = "run" /\ call'[t].file \in opened'
    BY <1>2 DEF NxVpuClose, InCall, FilesInv
  <2>6. QED
    BY <1>2, <2>3, <2>4, <2>5 DEF NxVpuClose, FilesInv
<1>3. ASSUME NEW t \in Threads, NEW f \in Files, EnterIoctl(t, f) PROVE FilesInv'
  <2>1. [file |-> f, h |-> priv[f]] \in CallType
    BY <1>t DEF BaseType, CallType
  <2>2. BaseType'
    BY <1>3, <1>t, <2>1 DEF EnterIoctl, BaseType
  <2>3. \A u \in Threads : call'[u] # None => call'[u].file \in opened
    BY <1>3, <1>t DEF EnterIoctl, FilesInv, BaseType
  <2>4. QED
    BY <1>3, <2>2, <2>3 DEF EnterIoctl, FilesInv
<1>4. ASSUME NEW t \in Threads, OpenInstance(t) PROVE FilesInv'
  <2>1. PICK kind \in Kinds, copied \in BOOLEAN :
          LET f == call[t].file
              s == FirstFree
              up == Clock(hw, TRUE)
          IN  /\ inst' = [inst EXCEPT ![s].inUse = TRUE, ![s].kind = kind]
              /\ owner' = [owner EXCEPT ![s] = f]
              /\ Return(t, IF kind = "dec" THEN DecOpen(up) ELSE EncOpen(up))
              /\ misuse' = (misuse \/ ~copied \/ priv[f] # None)
              /\ \/ /\ copied
                    /\ priv' = [priv EXCEPT ![f] = s]
                    /\ cruDec' = cruDec + DecShare(kind)
                    /\ cruEnc' = cruEnc + EncShare(kind)
                 \/ /\ ~copied
                    /\ UNCHANGED <<priv, cruDec, cruEnc>>
    BY <1>4 DEF OpenInstance
  <2>2. FirstFree \in Slots /\ call[t].file \in Files
    BY <1>4, <1>t, FirstFreeInSlots DEF OpenInstance, BaseType, CallType
  <2>3. inst' \in [Slots -> InstType]
    BY <1>t, <2>1, <2>2 DEF BaseType, InstType
  <2>4. /\ owner' \in [Slots -> Files \cup {None}]
        /\ priv' \in [Files -> Slots \cup {None}]
        /\ misuse' \in BOOLEAN
    BY <1>t, <2>1, <2>2 DEF BaseType
  <2>5. cruEnc' \in Int /\ cruDec' \in Int
    BY <1>t, <2>1 DEF BaseType, EncShare, DecShare
  <2>6. (IF kind = "dec" THEN DecOpen(Clock(hw, TRUE)) ELSE EncOpen(Clock(hw, TRUE)))
          \in HwType
    BY <1>c, TouchType DEF DecOpen, EncOpen
  <2>7. QED
    BY <2>1, <2>3, <2>4, <2>5, <2>6, ReturnFiles
<1>5. ASSUME NEW t \in Threads, CloseInstance(t) PROVE FilesInv'
  <2>1. HandleOf(t) \in Slots /\ inst[HandleOf(t)] \in InstType
    BY <1>5, <1>t DEF CloseInstance, HasInstance, HandleOf, BaseType, CallType
  <2>2. PICK busy \in BOOLEAN :
          Return(t, CodecClose(Clock(hw, TRUE), inst[HandleOf(t)], busy))
    BY <1>5 DEF CloseInstance
  <2>3. CodecClose(Clock(hw, TRUE), inst[HandleOf(t)], busy) \in HwType
    BY <1>c, <2>1, CodecCloseType
  <2>4. inst' \in [Slots -> InstType]
    BY <1>5, <1>t, <2>1 DEF CloseInstance, BaseType, InstType
  <2>5. QED
    BY <1>5, <1>t, <2>2, <2>3, <2>4, ReturnFiles DEF CloseInstance, BaseType
<1>6. ASSUME NEW t \in Threads, SetSequence(t) PROVE FilesInv'
  <2>1. HandleOf(t) \in Slots
    BY <1>6, <1>t DEF SetSequence, HasInstance, HandleOf, BaseType, CallType
  <2>2. inst' \in [Slots -> InstType]
    BY <1>6, <1>t, <2>1 DEF SetSequence, BaseType, InstType
  <2>3. \E h \in HwType : Return(t, h)
    BY <1>6, <1>c, IssueType DEF SetSequence
  <2>4. QED
    BY <1>6, <1>t, <2>2, <2>3, ReturnFiles DEF SetSequence, BaseType
<1>7. ASSUME NEW t \in Threads, RunCommand(t) PROVE FilesInv'
  <2>1. \E h \in HwType : Return(t, h)
    BY <1>7, <1>c, IssueType DEF RunCommand
  <2>2. QED
    BY <1>7, <1>t, <2>1, ReturnFiles DEF RunCommand, BaseType
<1>8. ASSUME NEW t \in Threads, RefuseIoctl(t) PROVE FilesInv'
  <2>1. \A b \in BOOLEAN : [Clock(hw, TRUE) EXCEPT !.busy = b] \in HwType
    BY <1>c DEF HwType
  <2>2. \E h \in HwType : Return(t, h)
    BY <1>8, <1>t, <2>1 DEF RefuseIoctl, BaseType, HwType
  <2>3. QED
    BY <1>8, <1>t, <2>2, ReturnFiles DEF RefuseIoctl, BaseType
<1>9. CASE Suspend
  <2>1. hw' \in HwType
    BY <1>9, <1>c, SuspendType, ClockType DEF Suspend
  <2>2. store' \in Regs /\ refused' \in BOOLEAN
    BY <1>9, <1>t DEF Suspend, BaseType, Saved, HwType
  <2>3. QED
    BY <1>9, <1>t, <2>1, <2>2 DEF Suspend, FilesInv, BaseType
<1>10. CASE Resume
  <2>1. hw' \in HwType
    BY <1>10, <1>t, <1>c, ResumeType, ClockType DEF Resume, BaseType, Boots
  <2>2. QED
    BY <1>10, <1>t, <2>1 DEF Resume, FilesInv, BaseType
<1>11. CASE ModuleInit
  <2>1. hw' \in HwType
    <3>1. [hw EXCEPT !.on = FALSE, !.init = FALSE] \in HwType
      BY <1>t DEF BaseType, HwType
    <3>2. QED
      BY <1>11, <3>1, ClockType, VpuInitType DEF ModuleInit
  <2>2. inst' \in [Slots -> InstType]
    BY <1>11 DEF ModuleInit, NoInstances, InstType, Kinds
  <2>3. opened = {}
    BY <1>11 DEF ModuleInit, FilesInv
  <2>4. BaseType'
    <3>1. store' \in Regs /\ owner' \in [Slots -> Files \cup {None}]
      BY <1>11 DEF ModuleInit, Regs
    <3>2. loaded' \in BOOLEAN /\ misuse' \in BOOLEAN /\ refused' \in BOOLEAN
      BY <1>11 DEF ModuleInit
    <3>3. curNum' \in Nat /\ cruEnc' \in Int /\ cruDec' \in Int
      BY <1>11 DEF ModuleInit
    <3>4. UNCHANGED <<pm, opened, priv, call>>
      BY <1>11 DEF ModuleInit
    <3>5. QED
      BY <1>t, <2>1, <2>2, <3>1, <3>2, <3>3, <3>4 DEF BaseType
  <2>5. QED
    BY <1>11, <2>3, <2>4, FS_EmptySet, Limits DEF ModuleInit, FilesInv
<1>12. CASE ModuleExit
  <2>1. hw' \in HwType
    BY <1>12, <1>c, VpuDeInitType, ClockType DEF ModuleExit
  <2>2. QED
    BY <1>12, <1>t, <2>1 DEF ModuleExit, FilesInv, BaseType
<1>13. CASE UNCHANGED vars
  BY <1>13 DEF vars, FilesInv, BaseType
<1>14. QED
  BY <1>1, <1>2, <1>3, <1>4, <1>5, <1>6, <1>7, <1>8, <1>9, <1>10, <1>11, <1>12,
     <1>13 DEF Next, Ioctl

(* gstCurNumInstance counts the open files, ioctls run on open files of a    *)
(* loaded, running driver, and every variable has its type (nx_vpu_open,     *)
(* nx_vpu_close and the power management of linux_vpu_drv.c).                *)
THEOREM FilesCorrect == Spec => []FilesInv
BY FilesInit, FilesStep, PTL DEF Spec

-----------------------------------------------------------------------------
(* Ownership of slots.                                                       *)

(* The outcome of a granted OPEN_INSTANCE: a free slot for the caller's file. *)
LEMMA OpenInstanceOutcome ==
  ASSUME FilesInv, NEW t \in Threads, OpenInstance(t)
  PROVE  \E f \in opened, s \in Slots, kind \in Kinds :
           /\ f = call[t].file
           /\ ~inst[s].inUse
           /\ inst' = [inst EXCEPT ![s].inUse = TRUE, ![s].kind = kind]
           /\ owner' = [owner EXCEPT ![s] = f]
           /\ WithinQuota(kind)
           /\ \/ /\ priv' = [priv EXCEPT ![f] = s]
                 /\ cruDec' = cruDec + DecShare(kind)
                 /\ cruEnc' = cruEnc + EncShare(kind)
                 /\ misuse' = (misuse \/ priv[f] # None)
              \/ /\ UNCHANGED <<priv, cruDec, cruEnc>>
                 /\ misuse'
           /\ call' = [call EXCEPT ![t] = None]
           /\ opened' = opened
<1>1. PICK kind \in Kinds, copied \in BOOLEAN :
        LET f == call[t].file
            s == FirstFree
            up == Clock(hw, TRUE)
        IN  /\ WithinQuota(kind)
            /\ inst' = [inst EXCEPT ![s].inUse = TRUE, ![s].kind = kind]
            /\ owner' = [owner EXCEPT ![s] = f]
            /\ Return(t, IF kind = "dec" THEN DecOpen(up) ELSE EncOpen(up))
            /\ misuse' = (misuse \/ ~copied \/ priv[f] # None)
            /\ \/ /\ copied
                  /\ priv' = [priv EXCEPT ![f] = s]
                  /\ cruDec' = cruDec + DecShare(kind)
                  /\ cruEnc' = cruEnc + EncShare(kind)
               \/ /\ ~copied
                  /\ UNCHANGED <<priv, cruDec, cruEnc>>
  BY DEF OpenInstance
<1>2. /\ FirstFree \in Slots /\ ~inst[FirstFree].inUse
      /\ call[t].file \in opened
  BY FirstFreeInSlots DEF OpenInstance, FreeSlots, FilesInv
<1>3. call' = [call EXCEPT ![t] = None] /\ opened' = opened
  BY <1>1 DEF Return
<1>4. \/ /\ priv' = [priv EXCEPT ![call[t].file] = FirstFree]
         /\ cruDec' = cruDec + DecShare(kind)
         /\ cruEnc' = cruEnc + EncShare(kind)
         /\ misuse' = (misuse \/ priv[call[t].file] # None)
      \/ /\ UNCHANGED <<priv, cruDec, cruEnc>>
         /\ misuse'
  BY <1>1, Zenon
<1>5. QED
  BY <1>1, <1>2, <1>3, <1>4

(* The two ways to close a file: with an instance to give back or without.   *)
LEMMA CloseOutcome ==
  ASSUME FilesInv, HandlesOwned, NEW f \in Files, NxVpuClose(f)
  PROVE  /\ opened' = opened \ {f}
         /\ priv' = [priv EXCEPT ![f] = None]
         /\ call' = call /\ misuse' = misuse
         /\ \A t \in Threads : call[t] # None => call[t].file # f
         /\ \/ /\ priv[f] \in Slots
               /\ inst' = [inst EXCEPT ![priv[f]] = Freed(inst[priv[f]])]
               /\ owner' = [owner EXCEPT ![priv[f]] = None]
               /\ cruDec' = cruDec - DecShare(inst[priv[f]].kind)
               /\ cruEnc' = cruEnc - EncShare(inst[priv[f]].kind)
            \/ /\ priv[f] = None
               /\ UNCHANGED <<inst, owner, cruDec, cruEnc>>
<1>1. priv[f] \in Slots \cup {None} /\ (priv[f] # None => inst[priv[f]].inUse)
  BY DEF FilesInv, BaseType, HandlesOwned, Owns, NxVpuClose
<1>2. CASE priv[f] # None
  BY <1>1, <1>2 DEF NxVpuClose, InCall
<1>3. CASE priv[f] = None
  BY <1>1, <1>3 DEF NxVpuClose, InCall
<1>4. QED
  BY <1>2, <1>3

LEMMA OwnersInit == Init => HandlesOwned
BY DEF Init, HandlesOwned, HasInstance

LEMMA OwnersStep == FilesInv /\ HandlesOwned /\ [Next]_vars => HandlesOwned'
<1> SUFFICES ASSUME FilesInv, HandlesOwned, [Next]_vars PROVE HandlesOwned'
  OBVIOUS
<1> DEFINE OwnsNext(g, s) == inst'[s].inUse /\ owner'[s] = g
<1>t. BaseType
  BY DEF FilesInv
<1>i. ASSUME NEW t \in Threads, call' = [call EXCEPT ![t] = None],
             UNCHANGED <<opened, priv, owner>>,
             \A s \in Slots : inst'[s].inUse = inst[s].inUse
      PROVE  HandlesOwned'
  BY <1>i, <1>t DEF HandlesOwned, Owns, HasInstance, HandleOf, BaseType, CallType
<1>e. ASSUME opened = {}, opened' \subseteq Files, \A f \in opened' : priv'[f] = None,
             call' = call
      PROVE  HandlesOwned'
  BY <1>e DEF HandlesOwned, HasInstance, FilesInv
<1>1. ASSUME NEW f \in Files, NxVpuOpen(f) PROVE HandlesOwned'
  <2>1. CASE curNum = 0
    <3>1. opened = {}
      BY <2>1, FS_EmptySet DEF FilesInv
    <3>2. opened' = {f} /\ priv'[f] = None /\ call' = call
      BY <1>1, <1>t, <3>1 DEF NxVpuOpen, BaseType
    <3>3. QED
      BY <1>e, <3>1, <3>2
  <2>2. CASE curNum # 0
    BY <1>1, <1>t, <2>2 DEF NxVpuOpen, HandlesOwned, Owns, HasInstance, HandleOf, BaseType
  <2>3. QED
    BY <2>1, <2>2
<1>2. ASSUME NEW f \in Files, NxVpuClose(f) PROVE HandlesOwned'
  <2>1. /\ opened' = opened \ {f} /\ priv' = [priv EXCEPT ![f] = None] /\ call' = call
        /\ \A t \in Threads : call[t] # None => call[t].file # f
        /\ f \in opened
    BY <1>2, CloseOutcome DEF NxVpuClose
  <2>2. ASSUME NEW g \in opened, g # f, NEW s \in Slots, Owns(g, s) PROVE OwnsNext(g, s)
    <3>1. CASE priv[f] = None
      BY <1>2, <2>2, <3>1, CloseOutcome, Limits DEF Owns
    <3>2. CASE priv[f] \in Slots
      <4>1. priv[f] # None
        BY <3>2, Limits
      <4>2. owner[priv[f]] = f
        BY <2>1, <4>1 DEF HandlesOwned, Owns
      <4>3. s # priv[f]
        BY <2>2, <4>2 DEF Owns
      <4>4. inst'[s] = inst[s] /\ owner'[s] = owner[s]
        BY <1>2, <1>t, <3>2, <4>1, <4>3, CloseOutcome DEF BaseType
      <4>5. QED
        BY <2>2, <4>4 DEF Owns
    <3>3. QED
      BY <1>t, <3>1, <3>2 DEF BaseType
  <2>3. \A g \in opened' : priv'[g] # None => OwnsNext(g, priv'[g])
    BY <1>t, <2>1, <2>2 DEF HandlesOwned, BaseType
  <2>4. \A t \in Threads : HasInstance(t)' =>
          call'[t].file \in opened' /\ OwnsNext(call'[t].file, HandleOf(t)')
    <3>1. TAKE t \in Threads
    <3>2. HAVE HasInstance(t)'
    <3>3. HasInstance(t) /\ HandleOf(t) \in Slots /\ HandleOf(t)' = HandleOf(t)
      BY <1>t, <2>1, <3>2 DEF HasInstance, HandleOf, BaseType, CallType
    <3>4. call[t].file \in opened /\ call[t].file # f /\ Owns(call[t].file, HandleOf(t))
      BY <2>1, <3>3 DEF HandlesOwned, HasInstance
    <3>5. QED
      BY <2>1, <2>2, <3>3, <3>4
  <2>5. QED
    BY <2>3, <2>4 DEF HandlesOwned, HandleOf, Owns
<1>3. ASSUME NEW t \in Threads, NEW f \in Files, EnterIoctl(t, f) PROVE HandlesOwned'
  BY <1>3, <1>t DEF EnterIoctl, HandlesOwned, Owns, HasInstance, HandleOf, BaseType
<1>4. ASSUME NEW t \in Threads, OpenInstance(t) PROVE HandlesOwned'
  <2>1. PICK f \in opened, s \in Slots, kind \in Kinds :
          /\ ~inst[s].inUse
          /\ inst' = [inst EXCEPT ![s].inUse = TRUE, ![s].kind = kind]
          /\ owner' = [owner EXCEPT ![s] = f]
          /\ priv' = [priv EXCEPT ![f] = s] \/ priv' = priv
          /\ call' = [call EXCEPT ![t] = None]
          /\ opened' = opened
    BY <1>4, OpenInstanceOutcome
  <2>2. /\ inst'[s].inUse /\ owner'[s] = f
        /\ \A r \in Slots \ {s} : inst'[r] = inst[r] /\ owner'[r] = owner[r]
    BY <1>t, <2>1 DEF BaseType, InstType
  <2>3. \A g \in opened, r \in Slots : Owns(g, r) => OwnsNext(g, r)
    BY <2>1, <2>2 DEF Owns
  <2>4. \A g \in opened' : priv'[g] # None => OwnsNext(g, priv'[g])
    BY <1>t, <2>1, <2>2, <2>3 DEF HandlesOwned, BaseType, Owns
  <2>5. \A u \in Threads : HasInstance(u)' =>
          call'[u].file \in opened' /\ OwnsNext(call'[u].file, HandleOf(u)')
    <3>1. TAKE u \in Threads
    <3>2. HAVE HasInstance(u)'
    <3>3. HasInstance(u) /\ HandleOf(u) \in Slots /\ call'[u] = call[u]
      BY <1>t, <2>1, <3>2 DEF HasInstance, HandleOf, BaseType, CallType
    <3>4. call[u].file \in opened /\ Owns(call[u].file, HandleOf(u))
      BY <3>3 DEF HandlesOwned
    <3>5. HandleOf(u)' = HandleOf(u)
      BY <3>3 DEF HandleOf
    <3>6. OwnsNext(call[u].file, HandleOf(u))
      BY <2>3, <3>3, <3>4
    <3>7. QED
      <4>1. opened' = opened
        BY <2>1
      <4>2. QED
        BY <3>3, <3>4, <3>5, <3>6, <4>1
  <2>6. QED
    BY <2>4, <2>5 DEF HandlesOwned, HandleOf, Owns
<1>5. ASSUME NEW t \in Threads, CloseInstance(t) PROVE HandlesOwned'
  <2>1. \A s \in Slots : inst'[s].inUse = inst[s].inUse
    BY <1>5, <1>t DEF CloseInstance, BaseType, InstType
  <2>2. QED
    BY <1>5, <1>i, <2>1 DEF CloseInstance, Return
<1>6. ASSUME NEW t \in Threads, SetSequence(t) PROVE HandlesOwned'
  <2>1. \A s \in Slots : inst'[s].inUse = inst[s].inUse
    <3>1. inst' = [inst EXCEPT ![HandleOf(t)].init = TRUE] \/ inst' = inst
      BY <1>6 DEF SetSequence
    <3>2. QED
      BY <1>t, <3>1 DEF BaseType, InstType
  <2>2. QED
    BY <1>6, <1>i, <2>1 DEF SetSequence, Return
<1>7. ASSUME NEW t \in Threads, RunCommand(t) PROVE HandlesOwned'
  BY <1>7, <1>i DEF RunCommand, Return
<1>8. ASSUME NEW t \in Threads, RefuseIoctl(t) PROVE HandlesOwned'
  BY <1>8, <1>i DEF RefuseIoctl, Return
<1>9. CASE ModuleInit
  BY <1>9, <1>t, <1>e DEF ModuleInit, FilesInv, BaseType
<1>10. CASE Suspend \/ Resume \/ ModuleExit \/ UNCHANGED vars
  BY <1>10 DEF Suspend, Resume, ModuleExit, vars, HandlesOwned, Owns, HasInstance, HandleOf
<1>11. QED
  BY <1>1, <1>2, <1>3, <1>4, <1>5, <1>6, <1>7, <1>8, <1>9, <1>10 DEF Next, Ioctl

(* No two files ever share an instance, and an ioctl always acts on an       *)
(* instance that its own file still owns (nx_vpu_open, nx_vpu_close and      *)
(* nx_vpu_ioctl of linux_vpu_drv.c).                                         *)
THEOREM HandlesAlwaysOwned == Spec => []HandlesOwned
BY FilesInit, FilesStep, OwnersInit, OwnersStep, PTL DEF Spec

-----------------------------------------------------------------------------
(* Power.                                                                    *)

(* The state of the hardware between two handlers while the system runs.     *)
Ready(h) == h \in HwType /\ ~h.fault /\ (h.init => h.on)

(* Between handlers the clock is gated; an initialized VPU is powered unless *)
(* the system sleeps; whoever holds an instance holds it of an initialized   *)
(* VPU.                                                                      *)
PowerInv ==
  /\ ~hw.fault /\ ~hw.clk
  /\ pm = "run" => (hw.init => hw.on)
  /\ \A f \in opened : priv[f] # None => hw.init
  /\ \A t \in Threads : HasInstance(t) => hw.init

LEMMA GatedPower ==
  ASSUME NEW h, Ready(h), NEW on \in BOOLEAN
  PROVE  Ready(Clock(h, on)) /\ Clock(h, on).clk = on /\ Clock(h, on).init = h.init
BY DEF Ready, Clock, HwType

LEMMA BootPower ==
  ASSUME NEW h, Ready(h), h.clk, NEW boot \in Boots
  PROVE  Ready(VpuInit(h, boot)) /\ (h.init => VpuInit(h, boot).init)
<1>1. CASE h.init
  BY <1>1 DEF VpuInit
<1>2. CASE ~h.init
  <2>1. HwOn(h) \in HwType /\ HwOn(h).on /\ HwOn(h).clk /\ ~HwOn(h).fault
    BY DEF Ready, HwOn, Clock, HwType
  <2>2. Touch(HwOn(h)) \in HwType /\ Touch(HwOn(h)).on /\ ~Touch(HwOn(h)).fault
    BY <2>1 DEF Touch, HwType
  <2>3. VpuInit(h, boot) \in HwType
    BY VpuInitType DEF Ready
  <2>4. VpuInit(h, boot).on /\ ~VpuInit(h, boot).fault
    <3> DEFINE g == Touch(HwOn(h))
    <3>1. VpuInit(h, boot) = [g EXCEPT !.regs = "firmware", !.init = (boot # "timeout"),
                                       !.busy = (boot # "ok")]
      BY <1>2 DEF VpuInit
    <3>2. g \in HwType /\ g.on /\ ~g.fault
      BY <2>2
    <3> HIDE DEF g
    <3>3. QED
      BY <3>1, <3>2, Zenon DEF HwType
  <2>5. QED
    BY <1>2, <2>3, <2>4 DEF Ready
<1>3. QED
  BY <1>1, <1>2

LEMMA TouchPower ==
  ASSUME NEW h, Ready(h), h.clk, h.init
  PROVE  Touch(h) = h
BY DEF Ready, Touch, HwType

LEMMA IssuePower ==
  ASSUME NEW h, Ready(h), h.clk, h.init, NEW busy \in BOOLEAN
  PROVE  Ready(Issue(h, busy)) /\ Issue(h, busy).init
BY TouchPower DEF Ready, Issue, HwType

LEMMA CodecClosePower ==
  ASSUME NEW h, Ready(h), h.clk, h.init, NEW i \in InstType, NEW busy \in BOOLEAN
  PROVE  Ready(CodecClose(h, i, busy)) /\ CodecClose(h, i, busy).init
BY TouchPower, IssuePower DEF CodecClose

LEMMA DownPower ==
  ASSUME NEW h, Ready(h), h.clk
  PROVE  Ready(VpuDeInit(h))
<1>1. CASE ~h.init \/ h.busy
  BY <1>1, TouchPower DEF VpuDeInit
<1>2. CASE h.init /\ ~h.busy
  <2>1. Touch(h) = h /\ h \in HwType /\ h.on /\ ~h.fault
    BY <1>2, TouchPower DEF Ready
  <2>2. VpuDeInit(h) = [HWOff(h) EXCEPT !.init = FALSE]
    BY <1>2, <2>1 DEF VpuDeInit
  <2>3. HWOff(h) \in HwType /\ ~HWOff(h).fault
    BY <2>1 DEF HWOff, HwType, Regs
  <2>4. QED
    BY <2>2, <2>3 DEF Ready, HwType
<1>3. QED
  BY <1>1, <1>2 DEF Ready, HwType

LEMMA ReturnPower ==
  ASSUME FilesInv, PowerInv, NEW t \in Threads, NEW h, Ready(h), h.init = hw.init,
         Return(t, h),
         \A f \in opened : priv'[f] # None => hw.init
  PROVE  PowerInv'
<1>1. hw' \in HwType /\ ~hw'.fault /\ ~hw'.clk /\ (hw'.init => hw'.on) /\ hw'.init = hw.init
  BY GatedPower DEF Return, Ready
<1>2. \A u \in Threads : HasInstance(u)' => HasInstance(u)
  BY DEF Return, HasInstance, HandleOf, FilesInv, BaseType
<1>3. opened' = opened
  BY DEF Return
<1>4. QED
  BY <1>1, <1>2, <1>3 DEF PowerInv

LEMMA PowerInit == Init => PowerInv
BY DEF Init, PowerInv, HasInstance

LEMMA PowerStep == FilesInv /\ PowerInv /\ [Next]_vars => PowerInv'
<1> SUFFICES ASSUME FilesInv, PowerInv, [Next]_vars PROVE PowerInv'
  OBVIOUS
<1>t. BaseType
  BY DEF FilesInv
<1>r. ASSUME pm = "run"
      PROVE  /\ Ready(hw) /\ Ready(Clock(hw, TRUE))
             /\ Clock(hw, TRUE).clk /\ Clock(hw, TRUE).init = hw.init
  BY <1>r, <1>t, GatedPower DEF PowerInv, Ready, BaseType
<1>i. ASSUME NEW t \in Threads, call[t] # None PROVE pm = "run"
  BY <1>i DEF FilesInv
<1>1. ASSUME NEW f \in Files, NxVpuOpen(f) PROVE PowerInv'
  <2>1. CASE curNum = 0
    <3>1. PICK boot \in Boots : hw' = Clock(VpuInit(Clock(hw, TRUE), boot), FALSE)
      BY <1>1, <2>1 DEF NxVpuOpen
    <3>2. ~hw'.fault /\ ~hw'.clk /\ (hw'.init => hw'.on)
      BY <1>1, <1>r, <3>1, BootPower, GatedPower DEF NxVpuOpen, Ready
    <3>3. opened = {}
      BY <2>1, FS_EmptySet DEF FilesInv
    <3>4. QED
      BY <1>1, <1>t, <3>2, <3>3 DEF NxVpuOpen, PowerInv, FilesInv, BaseType, HasInstance
  <2>2. CASE curNum # 0
    BY <1>1, <1>t, <2>2 DEF NxVpuOpen, PowerInv, HasInstance, HandleOf, BaseType
  <2>3. QED
    BY <2>1, <2>2
<1>2. ASSUME NEW f \in Files, NxVpuClose(f) PROVE PowerInv'
  <2>1. PICK h : Ready(h) /\ h.init = hw.init /\ hw' = Clock(DeInitIfLast(h), FALSE)
    <3>0. pm = "run" /\ f \in opened
      BY <1>2 DEF NxVpuClose
    <3>1. CASE priv[f] # None /\ inst[priv[f]].inUse
      <4>1. PICK busy \in BOOLEAN :
              LET up == Clock(hw, TRUE)
                  closed == IF inst[priv[f]].init
                              THEN CodecClose(up, inst[priv[f]], busy) ELSE up
              IN  hw' = Clock(DeInitIfLast(closed), FALSE)
        BY <1>2, <3>1 DEF NxVpuClose
      <4>2. hw.init /\ inst[priv[f]] \in InstType
        BY <1>t, <3>0, <3>1 DEF PowerInv, BaseType
      <4>3. QED
        BY <1>r, <3>0, <4>1, <4>2, CodecClosePower
    <3>2. CASE ~(priv[f] # None /\ inst[priv[f]].inUse)
      BY <1>2, <1>r, <3>0, <3>2 DEF NxVpuClose
    <3>3. QED
      BY <3>1, <3>2
  <2>2. Ready(hw') /\ ~hw'.clk
    <3>1. Ready(DeInitIfLast(h))
      BY <2>1, GatedPower, DownPower DEF DeInitIfLast
    <3>2. QED
      BY <2>1, <3>1, GatedPower
  <2>3. opened' # {} => hw'.init = hw.init
    <3>1. f \in opened /\ opened' = opened \ {f}
      BY <1>2 DEF NxVpuClose
    <3>2. curNum = 1 => opened' = {}
      <4>1. curNum = 1 => Cardinality(opened \ {f}) = 0
        <5>1. IsFiniteSet(opened) /\ curNum = Cardinality(opened)
          BY DEF FilesInv
        <5>2. Cardinality(opened \ {f}) = Cardinality(opened) - 1
          BY <3>1, <5>1, FS_RemoveElement
        <5>3. QED
          BY <5>1, <5>2
      <4>2. IsFiniteSet(opened \ {f})
        BY FS_RemoveElement DEF FilesInv
      <4>3. QED
        BY <3>1, <4>1, <4>2, FS_EmptySet
    <3>3. QED
      BY <2>1, <3>2, GatedPower DEF DeInitIfLast
  <2>4. /\ \A g \in opened' : priv'[g] # None => g \in opened /\ priv[g] # None
        /\ \A u \in Threads : HasInstance(u)' => HasInstance(u) /\ call[u].file \in opened'
    <3>1. opened' = opened \ {f} /\ priv' = [priv EXCEPT ![f] = None] /\ call' = call
      BY <1>2 DEF NxVpuClose
    <3>2. \A u \in Threads : call[u] # None => call[u].file \in opened /\ call[u].file # f
      BY <1>2 DEF NxVpuClose, InCall, FilesInv
    <3>3. QED
      BY <1>t, <3>1, <3>2 DEF HasInstance, HandleOf, BaseType
  <2>5. QED
    BY <2>2, <2>3, <2>4 DEF PowerInv, Ready
<1>3. ASSUME NEW t \in Threads, NEW f \in Files, EnterIoctl(t, f) PROVE PowerInv'
  BY <1>3, <1>t DEF EnterIoctl, PowerInv, HasInstance, HandleOf, BaseType
<1>4. ASSUME NEW t \in Threads, OpenInstance(t) PROVE PowerInv'
  <2>1. hw.init /\ call[t] # None
    BY <1>4 DEF OpenInstance
  <2>2. PICK kind : Return(t, IF kind = "dec" THEN DecOpen(Clock(hw, TRUE))
                                              ELSE EncOpen(Clock(hw, TRUE)))
    BY <1>4 DEF OpenInstance
  <2>3. Return(t, Clock(hw, TRUE))
    BY <1>i, <1>r, <2>1, <2>2, TouchPower DEF DecOpen, EncOpen
  <2>4. QED
    BY <1>i, <1>r, <2>1, <2>3, ReturnPower
<1>5. ASSUME NEW t \in Threads, CloseInstance(t) PROVE PowerInv'
  <2>1. hw.init /\ call[t] # None /\ inst[HandleOf(t)] \in InstType
    BY <1>5, <1>t DEF CloseInstance, HasInstance, HandleOf, PowerInv, BaseType, CallType
  <2>2. PICK busy \in BOOLEAN :
          Return(t, CodecClose(Clock(hw, TRUE), inst[HandleOf(t)], busy))
    BY <1>5 DEF CloseInstance
  <2>3. QED
    BY <1>5, <1>i, <1>r, <2>1, <2>2, CodecClosePower, ReturnPower
       DEF CloseInstance
<1>6. ASSUME NEW t \in Threads, SetSequence(t) PROVE PowerInv'
  <2>1. hw.init /\ call[t] # None
    BY <1>6 DEF SetSequence, HasInstance, PowerInv
  <2>2. \E h : Ready(h) /\ h.init = hw.init /\ Return(t, h)
    BY <1>6, <1>i, <1>r, <2>1, IssuePower DEF SetSequence
  <2>3. QED
    BY <1>6, <2>1, <2>2, ReturnPower DEF SetSequence
<1>7. ASSUME NEW t \in Threads, RunCommand(t) PROVE PowerInv'
  <2>1. hw.init /\ call[t] # None
    BY <1>7 DEF RunCommand, HasInstance, PowerInv
  <2>2. \E h : Ready(h) /\ h.init = hw.init /\ Return(t, h)
    BY <1>7, <1>i, <1>r, <2>1, IssuePower DEF RunCommand
  <2>3. QED
    BY <1>7, <2>1, <2>2, ReturnPower DEF RunCommand
<1>8. ASSUME NEW t \in Threads, RefuseIoctl(t) PROVE PowerInv'
  <2>1. call[t] # None
    BY <1>8 DEF RefuseIoctl
  <2>2. \A b \in BOOLEAN : LET h == [Clock(hw, TRUE) EXCEPT !.busy = b]
                          IN  Ready(h) /\ h.init = hw.init
    BY <1>i, <1>r, <2>1 DEF Ready, HwType
  <2>3. \E h : Ready(h) /\ h.init = hw.init /\ Return(t, h)
    BY <1>8, <1>t, <2>2 DEF RefuseIoctl, BaseType, HwType
  <2>4. QED
    BY <1>8, <2>3, ReturnPower DEF RefuseIoctl, PowerInv
<1>9. CASE Suspend
  <2>1. pm = "run"
    BY <1>9 DEF Suspend
  <2>2. ASSUME NEW h, Ready(h), h.clk
        PROVE  LET g == VpuSuspend(h)
               IN g \in HwType /\ ~g.fault /\ g.init = h.init
    <3>1. CASE ~h.init
      BY <2>2, <3>1 DEF VpuSuspend, Ready
    <3>2. CASE h.init
      BY <2>2, <3>2, TouchPower DEF VpuSuspend, Ready, HWOff, HwType, Regs
    <3>3. QED
      BY <3>1, <3>2
  <2>3. ~hw'.fault /\ ~hw'.clk /\ hw'.init = hw.init
    BY <1>9, <1>r, <2>1, <2>2 DEF Suspend, Clock, HwType
  <2>4. QED
    BY <1>9, <2>3 DEF Suspend, PowerInv, HasInstance, HandleOf
<1>10. CASE Resume
  <2> DEFINE h == Clock(hw, TRUE)
  <2>1. h \in HwType /\ ~h.fault /\ h.clk /\ h.init = hw.init
    BY <1>t DEF Clock, HwType, PowerInv, BaseType
  <2>2. PICK boot \in {"ok", "timeout"} : hw' = Clock(VpuResume(h, store, boot), FALSE)
    BY <1>10 DEF Resume
  <2> HIDE DEF h
  <2>3. LET g == VpuResume(h, store, boot)
        IN  g \in HwType /\ ~g.fault /\ g.init = hw.init /\ (g.init => g.on)
    <3>1. CASE ~h.init
      BY <2>1, <3>1 DEF VpuResume
    <3>2. CASE h.init
      <4>1. HwOn(h) \in HwType /\ HwOn(h).on /\ HwOn(h).clk /\ ~HwOn(h).fault
            /\ HwOn(h).init
        BY <2>1, <3>2 DEF HwOn, Clock, HwType
      <4>2. Touch(HwOn(h)) = HwOn(h)
        BY <4>1 DEF Touch, HwType
      <4>3. VpuResume(h, store, boot) \in HwType
        BY <1>t, <2>1, ResumeType DEF BaseType, Boots
      <4>4. VpuResume(h, store, boot)
              = [HwOn(h) EXCEPT !.regs = store, !.busy = (boot = "timeout")]
        BY <3>2, <4>2 DEF VpuResume
      <4>5. /\ VpuResume(h, store, boot).on /\ ~VpuResume(h, store, boot).fault
            /\ VpuResume(h, store, boot).init
        BY <4>1, <4>4, Zenon DEF HwType
      <4>6. QED
        BY <2>1, <3>2, <4>3, <4>5
    <3>3. QED
      BY <3>1, <3>2
  <2>4. ~hw'.fault /\ ~hw'.clk /\ hw'.init = hw.init /\ (hw'.init => hw'.on)
    BY <2>2, <2>3, GatedPower DEF Ready
  <2>5. QED
    BY <1>10, <2>4 DEF Resume, PowerInv, HasInstance, HandleOf
<1>11. CASE ModuleInit
  <2> DEFINE h == [hw EXCEPT !.on = FALSE, !.init = FALSE]
  <2>1. Ready(h)
    BY <1>t DEF Ready, HwType, PowerInv, BaseType
  <2>2. PICK boot \in Boots : hw' = Clock(VpuInit(Clock(h, TRUE), boot), FALSE)
    BY <1>11 DEF ModuleInit
  <2> HIDE DEF h
  <2>3. ~hw'.fault /\ ~hw'.clk /\ (hw'.init => hw'.on)
    BY <2>1, <2>2, GatedPower, BootPower DEF Ready
  <2>4. QED
    BY <1>11, <2>3 DEF ModuleInit, PowerInv, FilesInv, HasInstance
<1>12. CASE ModuleExit
  <2>1. Ready(hw') /\ ~hw'.clk
    BY <1>12, <1>r, DownPower, GatedPower DEF ModuleExit
  <2>2. QED
    BY <1>12, <2>1 DEF ModuleExit, PowerInv, Ready, FilesInv, HasInstance
<1>13. CASE UNCHANGED vars
  BY <1>13 DEF vars, PowerInv, HasInstance, HandleOf
<1>14. QED
  BY <1>1, <1>2, <1>3, <1>4, <1>5, <1>6, <1>7, <1>8, <1>9, <1>10, <1>11, <1>12,
     <1>13 DEF Next, Ioctl

(* No handler ever touches a VPU register while the VPU is unpowered or its  *)
(* clock is gated (NX_VPU_Clock, NX_VPU_HwOn, NX_VPU_HWOff and their callers *)
(* in linux_vpu_drv.c and nx_vpu_api.c).                                     *)
THEOREM HwAlwaysDisciplined == Spec => []HwDiscipline
<1>1. PowerInv => HwDiscipline
  BY DEF PowerInv, HwDiscipline
<1>2. QED
  BY <1>1, FilesInit, FilesStep, PowerInit, PowerStep, PTL DEF Spec

-----------------------------------------------------------------------------
(* Quotas.                                                                   *)

LEMMA HoldersFinite ==
  ASSUME FilesInv, NEW K
  PROVE  IsFiniteSet(Holders(K)) /\ Cardinality(Holders(K)) \in Nat
<1>1. Holders(K) \in SUBSET opened /\ IsFiniteSet(opened)
  BY DEF Holders, FilesInv
<1>2. QED
  BY <1>1, FS_Subset, FS_CardinalityType

LEMMA Shares ==
  ASSUME NEW kind \in Kinds
  PROVE  /\ DecShare(kind) = IF kind \in {"dec"} THEN 1 ELSE 0
         /\ EncShare(kind) = IF kind \in {"enc", "jpg"} THEN 1 ELSE 0
BY DEF DecShare, EncShare, Kinds

\* The end of a step that leaves the holders and the counters alone.
LEMMA SameHolders ==
  ASSUME QuotaCoversHolders, UNCHANGED <<cruEnc, cruDec>>,
         \A K : Holders(K)' = Holders(K)
  PROVE  QuotaCoversHolders'
BY DEF QuotaCoversHolders

(* Opening an instance adds at most the caller to the holders of its kind.   *)
LEMMA HoldersGrow ==
  ASSUME FilesInv, HandlesOwned, NEW K, NEW f \in opened, NEW s \in Slots,
         NEW kind \in Kinds,
         ~inst[s].inUse,
         inst' = [inst EXCEPT ![s].inUse = TRUE, ![s].kind = kind],
         priv' = [priv EXCEPT ![f] = s] \/ priv' = priv,
         opened' = opened
  PROVE  /\ Holders(K)' \subseteq Holders(K) \cup (IF kind \in K THEN {f} ELSE {})
         /\ priv' = priv => Holders(K)' = Holders(K)
<1>t. BaseType
  BY DEF FilesInv
<1>1. inst'[s].kind = kind /\ \A r \in Slots \ {s} : inst'[r] = inst[r]
  BY <1>t DEF BaseType, InstType
<1>2. \A g \in opened : priv[g] # None => priv[g] \in Slots /\ priv[g] # s
  BY <1>t DEF HandlesOwned, Owns, BaseType
<1>3. \A g \in opened : priv[g] # None => inst'[priv[g]] = inst[priv[g]]
  BY <1>1, <1>2
<1>4. CASE priv' = priv
  BY <1>3, <1>4 DEF Holders
<1>5. CASE priv' = [priv EXCEPT ![f] = s]
  <2>1. priv'[f] = s /\ \A g \in opened \ {f} : priv'[g] = priv[g]
    BY <1>t, <1>5 DEF BaseType
  <2>2. \A g \in opened \ {f} : g \in Holders(K)' => g \in Holders(K)
    BY <1>3, <2>1 DEF Holders
  <2>3. f \in Holders(K)' => kind \in K
    BY <1>1, <2>1 DEF Holders
  <2>4. Holders(K)' \subseteq opened
    BY DEF Holders
  <2>5. priv' = priv => Holders(K)' = Holders(K)
    BY <1>4, <1>3 DEF Holders
  <2>6. QED
    BY <2>2, <2>3, <2>4, <2>5
<1>6. QED
  BY <1>4, <1>5

(* Closing a file takes exactly that file from the holders of its kind.      *)
LEMMA HoldersShrink ==
  ASSUME FilesInv, HandlesOwned, NEW f \in Files, NxVpuClose(f), NEW K
  PROVE  Holders(K)' = Holders(K) \ {f}
<1>t. BaseType
  BY DEF FilesInv
<1>1. /\ opened' = opened \ {f}
      /\ \A g \in opened' : priv'[g] = priv[g]
  BY <1>t, CloseOutcome DEF BaseType
<1>2. \A r \in Slots : inst'[r].kind = inst[r].kind
  <2>1. \A i \in InstType : Freed(i).kind = i.kind
    BY DEF Freed, InstType
  <2>2. CASE UNCHANGED inst
    BY <2>2
  <2>3. CASE priv[f] \in Slots /\ inst' = [inst EXCEPT ![priv[f]] = Freed(inst[priv[f]])]
    BY <1>t, <2>1, <2>3 DEF BaseType
  <2>4. QED
    BY <2>2, <2>3, CloseOutcome
<1>3. QED
  BY <1>t, <1>1, <1>2 DEF Holders, BaseType

LEMMA QuotaInit == Init => QuotaCoversHolders
<1> SUFFICES ASSUME Init PROVE QuotaCoversHolders
  OBVIOUS
<1>1. \A K : Holders(K) = {}
  BY DEF Init, Holders
<1>2. \A K : Cardinality(Holders(K)) = 0
  BY <1>1, FS_EmptySet
<1>3. cruEnc = 0 /\ cruDec = 0 /\ EncMax >= 0 /\ DecMax >= 0
  BY Limits DEF Init
<1>4. QED
  BY <1>2, <1>3 DEF QuotaCoversHolders

LEMMA QuotaStep ==
  FilesInv /\ FilesInv' /\ HandlesOwned /\ QuotaCoversHolders /\ [Next]_vars
    => QuotaCoversHolders'
<1> SUFFICES ASSUME FilesInv, FilesInv', HandlesOwned, QuotaCoversHolders, [Next]_vars
             PROVE  QuotaCoversHolders'
  OBVIOUS
<1>t. BaseType
  BY DEF FilesInv
<1>f. \A K : /\ IsFiniteSet(Holders(K)) /\ Cardinality(Holders(K)) \in Nat
             /\ Cardinality(Holders(K)') \in Nat
  <2>1. \A K : Holders(K)' \in SUBSET opened'
    BY DEF Holders
  <2>2. IsFiniteSet(opened')
    BY DEF FilesInv
  <2>3. \A K : Cardinality(Holders(K)') \in Nat
    BY <2>1, <2>2, FS_Subset, FS_CardinalityType
  <2>4. QED
    BY <2>3, HoldersFinite
<1>k. ASSUME UNCHANGED <<opened, priv, cruEnc, cruDec>>,
             \A s \in Slots : inst'[s].kind = inst[s].kind
      PROVE  QuotaCoversHolders'
  <2>1. \A K : Holders(K)' = Holders(K)
    BY <1>k, <1>t DEF Holders, BaseType
  <2>2. QED
    BY <1>k, <2>1, SameHolders
<1>1. ASSUME NEW f \in Files, NxVpuOpen(f) PROVE QuotaCoversHolders'
  <2>1. /\ opened' = opened \cup {f} /\ priv'[f] = None
        /\ \A g \in opened : priv'[g] = priv[g]
        /\ UNCHANGED <<cruEnc, cruDec>>
    BY <1>1, <1>t DEF NxVpuOpen, BaseType
  <2>2. \A s \in Slots : inst'[s].kind = inst[s].kind
    <3>1. \A boot \in Boots, s \in Slots : SlotsAfterInit(hw, boot)[s].kind = inst[s].kind
      BY <1>t DEF SlotsAfterInit, BaseType, InstType
    <3>2. QED
      BY <1>1, <3>1 DEF NxVpuOpen
  <2>3. \A K : Holders(K)' = Holders(K)
    BY <1>1, <1>t, <2>1, <2>2 DEF Holders, BaseType, NxVpuOpen
  <2>4. QED
    BY <2>1, <2>3, SameHolders
<1>2. ASSUME NEW f \in Files, NxVpuClose(f) PROVE QuotaCoversHolders'
  <2>1. \A K : Holders(K)' = Holders(K) \ {f}
    BY <1>2, HoldersShrink
  <2>2. \A K : Cardinality(Holders(K) \ {f})
                 = IF f \in Holders(K) THEN Cardinality(Holders(K)) - 1
                                       ELSE Cardinality(Holders(K))
    BY <1>f, FS_RemoveElement
  <2>3. CASE priv[f] = None
    <3>1. \A K : f \notin Holders(K)
      BY <2>3 DEF Holders
    <3>2. UNCHANGED <<cruEnc, cruDec>>
      BY <1>2, <2>3, CloseOutcome, Limits
    <3>3. \A K : Holders(K)' = Holders(K)
      BY <2>1, <3>1
    <3>4. QED
      BY <3>2, <3>3, SameHolders
  <2>4. CASE priv[f] # None
    <3>1. inst[priv[f]].kind \in Kinds /\ f \in opened
      BY <1>2, <1>t, <2>4 DEF BaseType, InstType, NxVpuClose
    <3>2. \A K : f \in Holders(K) <=> inst[priv[f]].kind \in K
      BY <2>4, <3>1 DEF Holders
    <3>3. /\ cruDec' = cruDec - DecShare(inst[priv[f]].kind)
          /\ cruEnc' = cruEnc - EncShare(inst[priv[f]].kind)
      BY <1>2, <2>4, CloseOutcome
    <3>4. cruDec \in Int /\ cruEnc \in Int /\ DecMax \in Int /\ EncMax \in Int
      BY <1>t, Limits DEF BaseType
    <3>5. Cardinality(Holders({"dec"})') <= cruDec' /\ cruDec' <= DecMax
      BY <1>f, <2>1, <2>2, <3>1, <3>2, <3>3, <3>4, Shares DEF QuotaCoversHolders
    <3>6. Cardinality(Holders({"enc", "jpg"})') <= cruEnc' /\ cruEnc' <= EncMax
      BY <1>f, <2>1, <2>2, <3>1, <3>2, <3>3, <3>4, Shares DEF QuotaCoversHolders
    <3>7. QED
      BY <3>5, <3>6 DEF QuotaCoversHolders
  <2>5. QED
    BY <2>3, <2>4
<1>3. ASSUME NEW t \in Threads, OpenInstance(t) PROVE QuotaCoversHolders'
  <2>1. PICK f \in opened, s \in Slots, kind \in Kinds :
          /\ ~inst[s].inUse
          /\ inst' = [inst EXCEPT ![s].inUse = TRUE, ![s].kind = kind]
          /\ WithinQuota(kind)
          /\ \/ /\ priv' = [priv EXCEPT ![f] = s]
                /\ cruDec' = cruDec + DecShare(kind)
                /\ cruEnc' = cruEnc + EncShare(kind)
             \/ UNCHANGED <<priv, cruDec, cruEnc>>
          /\ opened' = opened
    BY <1>3, OpenInstanceOutcome
  <2>2. \A K : /\ Holders(K)' \subseteq Holders(K) \cup (IF kind \in K THEN {f} ELSE {})
               /\ priv' = priv => Holders(K)' = Holders(K)
    BY <2>1, HoldersGrow
  <2>3. CASE UNCHANGED <<priv, cruDec, cruEnc>>
    BY <2>2, <2>3, SameHolders
  <2>4. CASE cruDec' = cruDec + DecShare(kind) /\ cruEnc' = cruEnc + EncShare(kind)
    <3>1. \A K : Cardinality(Holders(K)')
                   <= Cardinality(Holders(K)) + (IF kind \in K THEN 1 ELSE 0)
      <4>1. TAKE K
      <4>2. CASE kind \in K
        <5>1. Holders(K)' \in SUBSET (Holders(K) \cup {f})
          BY <2>2, <4>2
        <5>2. /\ IsFiniteSet(Holders(K) \cup {f})
              /\ Cardinality(Holders(K) \cup {f}) <= Cardinality(Holders(K)) + 1
          <6>1. IsFiniteSet(Holders(K)) /\ Cardinality(Holders(K)) \in Nat
            BY <1>f
          <6>2. Cardinality(Holders(K) \cup {f})
                  = IF f \in Holders(K) THEN Cardinality(Holders(K))
                                        ELSE Cardinality(Holders(K)) + 1
            BY <6>1, FS_AddElement
          <6>3. QED
            BY <6>1, <6>2, FS_AddElement
        <5>3. Cardinality(Holders(K)') <= Cardinality(Holders(K) \cup {f})
          BY <5>1, <5>2, FS_Subset
        <5>4. Cardinality(Holders(K) \cup {f}) \in Nat
          BY <5>2, FS_CardinalityType
        <5>5. QED
          BY <1>f, <4>2, <5>2, <5>3, <5>4
      <4>3. CASE kind \notin K
        <5>1. Holders(K)' \in SUBSET Holders(K)
          BY <2>2, <4>3
        <5>2. Cardinality(Holders(K)') <= Cardinality(Holders(K))
          BY <1>f, <5>1, FS_Subset
        <5>3. QED
          BY <1>f, <4>3, <5>2
      <4>4. QED
        BY <4>2, <4>3
    <3>2. cruDec \in Int /\ cruEnc \in Int /\ DecMax \in Int /\ EncMax \in Int
      BY <1>t, Limits DEF BaseType
    <3>3. Cardinality(Holders({"dec"})') <= cruDec' /\ cruDec' <= DecMax
      <4>1. Cardinality(Holders({"dec"})')
              <= Cardinality(Holders({"dec"})) + (IF kind \in {"dec"} THEN 1 ELSE 0)
        BY <3>1
      <4>2. cruDec' = cruDec + (IF kind \in {"dec"} THEN 1 ELSE 0)
        BY <2>4, Shares
      <4>3. kind \in {"dec"} => cruDec < DecMax
        BY <2>1 DEF WithinQuota
      <4>4. QED
        BY <1>f, <3>2, <4>1, <4>2, <4>3 DEF QuotaCoversHolders
    <3>4. Cardinality(Holders({"enc", "jpg"})') <= cruEnc' /\ cruEnc' <= EncMax
      <4>1. Cardinality(Holders({"enc", "jpg"})')
              <= Cardinality(Holders({"enc", "jpg"})) + (IF kind \in {"enc", "jpg"} THEN 1 ELSE 0)
        BY <3>1
      <4>2. cruEnc' = cruEnc + (IF kind \in {"enc", "jpg"} THEN 1 ELSE 0)
        BY <2>4, Shares
      <4>3. kind \in {"enc", "jpg"} => cruEnc < EncMax
        BY <2>1 DEF WithinQuota
      <4>4. QED
        BY <1>f, <3>2, <4>1, <4>2, <4>3 DEF QuotaCoversHolders
    <3>5. QED
      BY <3>3, <3>4 DEF QuotaCoversHolders
  <2>5. QED
    BY <2>1, <2>3, <2>4
<1>4. ASSUME NEW t \in Threads, CloseInstance(t) PROVE QuotaCoversHolders'
  <2>1. \A s \in Slots : inst'[s].kind = inst[s].kind
    BY <1>4, <1>t DEF CloseInstance, BaseType, InstType
  <2>2. QED
    BY <1>4, <1>k, <2>1 DEF CloseInstance, Return
<1>5. ASSUME NEW t \in Threads, SetSequence(t) PROVE QuotaCoversHolders'
  <2>1. \A s \in Slots : inst'[s].kind = inst[s].kind
    <3>1. inst' = [inst EXCEPT ![HandleOf(t)].init = TRUE] \/ inst' = inst
      BY <1>5 DEF SetSequence
    <3>2. QED
      BY <1>t, <3>1 DEF BaseType, InstType
  <2>2. QED
    BY <1>5, <1>k, <2>1 DEF SetSequence, Return
<1>6. ASSUME NEW t \in Threads, NEW f \in Files,
             RunCommand(t) \/ RefuseIoctl(t) \/ EnterIoctl(t, f)
      PROVE  QuotaCoversHolders'
  BY <1>6, <1>k DEF RunCommand, RefuseIoctl, EnterIoctl, Return
<1>7. CASE ModuleInit
  <2>1. opened' = {}
    BY <1>7 DEF ModuleInit, FilesInv
  <2>2. \A K : Holders(K)' = {}
    BY <2>1 DEF Holders
  <2>3. \A K : Cardinality(Holders(K)') = 0
    BY <2>2, FS_EmptySet
  <2>4. cruEnc' = 0 /\ cruDec' = 0 /\ EncMax >= 0 /\ DecMax >= 0
    BY <1>7, Limits DEF ModuleInit
  <2>5. QED
    BY <2>3, <2>4 DEF QuotaCoversHolders
<1>8. CASE Suspend \/ Resume \/ ModuleExit \/ UNCHANGED vars
  BY <1>8, <1>k DEF Suspend, Resume, ModuleExit, vars
<1>9. QED
  <2>1. ASSUME NEW t \in Threads, RunCommand(t) \/ RefuseIoctl(t) PROVE QuotaCoversHolders'
    BY <2>1, <1>k DEF RunCommand, RefuseIoctl, Return
  <2>2. QED
    BY <1>1, <1>2, <1>3, <1>4, <1>5, <1>6, <1>7, <1>8, <2>1 DEF Next, Ioctl

LEMMA QuotaTypes == FilesInv /\ QuotaCoversHolders => TypeOK
<1> SUFFICES ASSUME FilesInv, QuotaCoversHolders PROVE TypeOK
  OBVIOUS
<1>1. BaseType
  BY DEF FilesInv
<1>2. cruDec \in 0 .. DecMax /\ cruEnc \in 0 .. EncMax /\ curNum \in 0 .. MaxInst
  BY <1>1, HoldersFinite, Limits DEF QuotaCoversHolders, FilesInv, BaseType
<1>3. QED
  BY <1>1, <1>2 DEF TypeOK, BaseType

(* Type correctness of the driver: in particular the three counters stay     *)
(* within the limits of nx_vpu_config.h and are never decremented below 0.   *)
THEOREM TypeCorrect == Spec => []TypeOK
BY FilesInit, FilesStep, OwnersInit, OwnersStep, QuotaInit, QuotaStep, QuotaTypes,
   PTL DEF Spec

(* The files that hold an encoder or a decoder never exceed the driver's     *)
(* counters, nor the counters their limits (the checks of                    *)
(* IOCTL_VPU_OPEN_INSTANCE in nx_vpu_ioctl), whatever clients do.            *)
THEOREM QuotaAlwaysCovers == Spec => []QuotaCoversHolders
BY FilesInit, FilesStep, OwnersInit, OwnersStep, QuotaInit, QuotaStep, PTL DEF Spec

-----------------------------------------------------------------------------
(* Slots, as long as every file opens one instance and is told of it.        *)

(* Each slot in use is that of an open file which knows it, a free slot has  *)
(* no sequence, and the counters are the slots in use.                       *)
SlotInv ==
  ~misuse =>
    /\ \A s \in Slots : inst[s].inUse => owner[s] \in opened /\ priv[owner[s]] = s
    /\ \A s \in Slots : inst[s].init => inst[s].inUse
    /\ cruDec = Cardinality(SlotsInUse({"dec"}))
    /\ cruEnc = Cardinality(SlotsInUse({"enc", "jpg"}))

LEMMA SlotsFinite ==
  /\ IsFiniteSet(Slots) /\ Cardinality(Slots) = MaxInst
  /\ \A K : IsFiniteSet(SlotsInUse(K)) /\ Cardinality(SlotsInUse(K)) \in Nat
<1>1. IsFiniteSet(Slots) /\ Cardinality(Slots) = MaxInst
  BY Limits, FS_Interval DEF Slots
<1>2. \A K : SlotsInUse(K) \in SUBSET Slots
  BY DEF SlotsInUse
<1>3. \A K : IsFiniteSet(SlotsInUse(K)) /\ Cardinality(SlotsInUse(K)) \in Nat
  BY <1>1, <1>2, FS_Subset, FS_CardinalityType
<1>4. QED
  BY <1>1, <1>3

\* A step that neither takes nor releases a slot.
LEMMA SlotsKept ==
  ASSUME BaseType, SlotInv, misuse' = misuse, UNCHANGED <<owner, cruEnc, cruDec>>,
         \A s \in Slots : /\ inst'[s].inUse = inst[s].inUse /\ inst'[s].kind = inst[s].kind
                          /\ inst'[s].init => inst[s].init \/ inst[s].inUse,
         \A f \in opened : f \in opened' /\ priv'[f] = priv[f]
  PROVE  SlotInv'
<1>1. \A K : SlotsInUse(K)' = SlotsInUse(K)
  BY DEF SlotsInUse
<1>2. QED
  BY <1>1 DEF SlotInv

LEMMA SlotsInit == Init => SlotInv
<1> SUFFICES ASSUME Init PROVE SlotInv
  OBVIOUS
<1>1. \A s \in Slots : ~inst[s].inUse /\ ~inst[s].init
  BY DEF Init, NoInstances
<1>2. \A K : SlotsInUse(K) = {}
  BY <1>1 DEF SlotsInUse
<1>3. QED
  BY <1>1, <1>2, FS_EmptySet DEF Init, SlotInv

LEMMA SlotsStep == FilesInv /\ HandlesOwned /\ SlotInv /\ [Next]_vars => SlotInv'
<1> SUFFICES ASSUME FilesInv, HandlesOwned, SlotInv, [Next]_vars PROVE SlotInv'
  OBVIOUS
<1>t. BaseType
  BY DEF FilesInv
<1>1. ASSUME NEW f \in Files, NxVpuOpen(f) PROVE SlotInv'
  <2>1. /\ misuse' = misuse /\ UNCHANGED <<cruEnc, cruDec>> /\ f \notin opened
        /\ \A g \in opened : g \in opened' /\ priv'[g] = priv[g]
    BY <1>1, <1>t DEF NxVpuOpen, BaseType
  <2>2. CASE curNum = 0
    <3> SUFFICES ASSUME ~misuse PROVE SlotInv'
      BY <2>1 DEF SlotInv
    <3>1. opened = {}
      BY <2>2, FS_EmptySet DEF FilesInv
    <3>2. \A s \in Slots : ~inst[s].inUse /\ ~inst[s].init
      BY <3>1 DEF SlotInv
    <3>3. \A s \in Slots : ~inst'[s].inUse /\ ~inst'[s].init
      <4>1. \A boot \in Boots, s \in Slots :
              ~SlotsAfterInit(hw, boot)[s].inUse /\ ~SlotsAfterInit(hw, boot)[s].init
        BY <1>t, <3>2 DEF SlotsAfterInit, BaseType, InstType
      <4>2. QED
        BY <1>1, <2>2, <4>1 DEF NxVpuOpen
    <3>4. \A K : SlotsInUse(K) = {} /\ SlotsInUse(K)' = {}
      BY <3>2, <3>3 DEF SlotsInUse
    <3>5. QED
      BY <2>1, <3>3, <3>4 DEF SlotInv
  <2>3. CASE curNum # 0
    BY <1>1, <1>t, <2>1, <2>3, SlotsKept DEF NxVpuOpen
  <2>4. QED
    BY <2>2, <2>3
<1>2. ASSUME NEW f \in Files, NxVpuClose(f) PROVE SlotInv'
  <2> SUFFICES ASSUME ~misuse PROVE SlotInv'
    BY <1>2, CloseOutcome DEF SlotInv
  <2>1. /\ opened' = opened \ {f} /\ f \in opened
        /\ \A g \in opened' : priv'[g] = priv[g]
    BY <1>2, <1>t, CloseOutcome DEF NxVpuClose, BaseType
  <2>2. CASE priv[f] = None
    <3>1. UNCHANGED <<inst, owner, cruDec, cruEnc>>
      BY <1>2, <2>2, CloseOutcome, Limits
    <3>2. \A s \in Slots : inst[s].inUse => owner[s] # f
      BY <2>2, Limits DEF SlotInv
    <3>3. \A K : SlotsInUse(K)' = SlotsInUse(K)
      BY <3>1 DEF SlotsInUse
    <3>4. QED
      BY <2>1, <3>1, <3>2, <3>3 DEF SlotInv
  <2>3. CASE priv[f] # None
    <3> DEFINE p == priv[f]
    <3>1. /\ p \in Slots /\ inst[p].inUse /\ inst[p] \in InstType
          /\ inst' = [inst EXCEPT ![p] = Freed(inst[p])]
          /\ owner' = [owner EXCEPT ![p] = None]
          /\ cruDec' = cruDec - DecShare(inst[p].kind)
          /\ cruEnc' = cruEnc - EncShare(inst[p].kind)
      BY <1>2, <1>t, <2>1, <2>3, CloseOutcome DEF BaseType, HandlesOwned, Owns
    <3>2. /\ ~inst'[p].inUse /\ ~inst'[p].init
          /\ \A s \in Slots \ {p} : inst'[s] = inst[s] /\ owner'[s] = owner[s]
      BY <1>t, <3>1 DEF BaseType, Freed, InstType
    <3>3. \A K : SlotsInUse(K)' = SlotsInUse(K) \ {p}
      BY <3>2 DEF SlotsInUse
    <3>4. \A K : p \in SlotsInUse(K) <=> inst[p].kind \in K
      BY <3>1 DEF SlotsInUse
    <3>5. \A K : Cardinality(SlotsInUse(K)')
                   = IF inst[p].kind \in K THEN Cardinality(SlotsInUse(K)) - 1
                                           ELSE Cardinality(SlotsInUse(K))
      BY <3>3, <3>4, SlotsFinite, FS_RemoveElement
    <3>6. inst[p].kind \in Kinds
      BY <3>1 DEF InstType
    <3>7. /\ DecShare(inst[p].kind) = IF inst[p].kind \in {"dec"} THEN 1 ELSE 0
          /\ EncShare(inst[p].kind) = IF inst[p].kind \in {"enc", "jpg"} THEN 1 ELSE 0
      BY <3>6, Shares
    <3>8. /\ cruDec' = Cardinality(SlotsInUse({"dec"})')
          /\ cruEnc' = Cardinality(SlotsInUse({"enc", "jpg"})')
      <4>1. cruDec \in Int /\ cruEnc \in Int
        BY <1>t DEF BaseType
      <4>2. cruDec' = Cardinality(SlotsInUse({"dec"})')
        <5>1. Cardinality(SlotsInUse({"dec"})')
                = cruDec - (IF inst[p].kind \in {"dec"} THEN 1 ELSE 0)
          BY <3>5, <4>1 DEF SlotInv
        <5>2. QED
          BY <3>1, <3>7, <5>1
      <4>3. cruEnc' = Cardinality(SlotsInUse({"enc", "jpg"})')
        <5>1. Cardinality(SlotsInUse({"enc", "jpg"})')
                = cruEnc - (IF inst[p].kind \in {"enc", "jpg"} THEN 1 ELSE 0)
          BY <3>5, <4>1 DEF SlotInv
        <5>2. QED
          BY <3>1, <3>7, <5>1
      <4>4. QED
        BY <4>2, <4>3
    <3>9. \A s \in Slots : inst'[s].inUse => owner'[s] \in opened' /\ priv'[owner'[s]] = s
      <4>1. TAKE s \in Slots
      <4>2. HAVE inst'[s].inUse
      <4>3. s # p /\ inst[s].inUse /\ owner'[s] = owner[s]
        BY <3>2, <4>2
      <4>4. owner[s] \in opened /\ priv[owner[s]] = s
        BY <4>3 DEF SlotInv
      <4>5. owner[s] # f
        BY <4>3, <4>4
      <4>6. QED
        BY <2>1, <4>3, <4>4, <4>5
    <3>10. \A s \in Slots : inst'[s].init => inst'[s].inUse
      BY <3>2 DEF SlotInv
    <3>11. QED
      BY <3>8, <3>9, <3>10 DEF SlotInv
  <2>4. QED
    BY <2>2, <2>3
<1>3. ASSUME NEW t \in Threads, NEW f \in Files, EnterIoctl(t, f) PROVE SlotInv'
  BY <1>3, <1>t, SlotsKept DEF EnterIoctl
<1>4. ASSUME NEW t \in Threads, OpenInstance(t) PROVE SlotInv'
  <2>1. PICK f \in opened, s \in Slots, kind \in Kinds :
          /\ ~inst[s].inUse
          /\ inst' = [inst EXCEPT ![s].inUse = TRUE, ![s].kind = kind]
          /\ owner' = [owner EXCEPT ![s] = f]
          /\ \/ /\ priv' = [priv EXCEPT ![f] = s]
                /\ cruDec' = cruDec + DecShare(kind)
                /\ cruEnc' = cruEnc + EncShare(kind)
                /\ misuse' = (misuse \/ priv[f] # None)
             \/ misuse'
          /\ opened' = opened
    BY <1>4, OpenInstanceOutcome
  <2> SUFFICES ASSUME ~misuse' PROVE SlotInv'
    BY DEF SlotInv
  <2>2. /\ priv' = [priv EXCEPT ![f] = s]
        /\ cruDec' = cruDec + DecShare(kind)
        /\ cruEnc' = cruEnc + EncShare(kind)
        /\ misuse' = (misuse \/ priv[f] # None)
    BY <2>1
  <2>3. ~misuse /\ priv[f] = None
    BY <2>2, Zenon
  <2>4. /\ inst'[s].inUse /\ inst'[s].kind = kind /\ inst'[s].init = inst[s].init
        /\ owner'[s] = f /\ priv'[f] = s
        /\ \A r \in Slots \ {s} : inst'[r] = inst[r] /\ owner'[r] = owner[r]
        /\ \A g \in opened \ {f} : priv'[g] = priv[g]
    BY <1>t, <2>1, <2>2 DEF BaseType, InstType
  <2>5. \A r \in Slots : inst'[r].inUse => owner'[r] \in opened' /\ priv'[owner'[r]] = r
    <3>1. \A r \in Slots \ {s} : inst[r].inUse => owner[r] # f
      BY <2>3, Limits DEF SlotInv
    <3>2. QED
      BY <2>1, <2>3, <2>4, <3>1 DEF SlotInv
  <2>6. \A r \in Slots : inst'[r].init => inst'[r].inUse
    BY <2>3, <2>4 DEF SlotInv
  <2>7. \A K : SlotsInUse(K)' = IF kind \in K THEN SlotsInUse(K) \cup {s} ELSE SlotsInUse(K)
    <3>1. TAKE K
    <3>2. SlotsInUse(K)' = {r \in Slots : inst'[r].inUse /\ inst'[r].kind \in K}
      BY DEF SlotsInUse
    <3>3. \A r \in Slots : (inst'[r].inUse /\ inst'[r].kind \in K)
                             <=> r \in SlotsInUse(K) \/ (r = s /\ kind \in K)
      BY <2>1, <2>4 DEF SlotsInUse
    <3>4. SlotsInUse(K) \subseteq Slots
      BY DEF SlotsInUse
    <3>5. QED
      BY <3>2, <3>3, <3>4
  <2>8. \A K : s \notin SlotsInUse(K)
    BY <2>1 DEF SlotsInUse
  <2>9. \A K : Cardinality(SlotsInUse(K)')
                 = IF kind \in K THEN Cardinality(SlotsInUse(K)) + 1
                                 ELSE Cardinality(SlotsInUse(K))
    BY <2>7, <2>8, SlotsFinite, FS_AddElement
  <2>10. /\ DecShare(kind) = IF kind \in {"dec"} THEN 1 ELSE 0
         /\ EncShare(kind) = IF kind \in {"enc", "jpg"} THEN 1 ELSE 0
    BY <2>1, Shares
  <2>11. cruDec' = Cardinality(SlotsInUse({"dec"})')
    <3>1. Cardinality(SlotsInUse({"dec"})') = cruDec + (IF kind \in {"dec"} THEN 1 ELSE 0)
      BY <1>t, <2>3, <2>9 DEF SlotInv, BaseType
    <3>2. QED
      BY <2>2, <2>10, <3>1
  <2>12. cruEnc' = Cardinality(SlotsInUse({"enc", "jpg"})')
    <3>1. Cardinality(SlotsInUse({"enc", "jpg"})')
            = cruEnc + (IF kind \in {"enc", "jpg"} THEN 1 ELSE 0)
      BY <1>t, <2>3, <2>9 DEF SlotInv, BaseType
    <3>2. QED
      BY <2>2, <2>10, <3>1
  <2>13. QED
    BY <2>5, <2>6, <2>11, <2>12 DEF SlotInv
<1>5. ASSUME NEW t \in Threads, CloseInstance(t) PROVE SlotInv'
  <2>1. \A s \in Slots : /\ inst'[s].inUse = inst[s].inUse /\ inst'[s].kind = inst[s].kind
                         /\ inst'[s].init => inst[s].init
    <3>1. inst' = [inst EXCEPT ![HandleOf(t)].init
                     = (inst[HandleOf(t)].kind = "jpg" /\ inst[HandleOf(t)].init)]
      BY <1>5 DEF CloseInstance
    <3>2. QED
      BY <1>t, <3>1 DEF BaseType, InstType
  <2>2. QED
    BY <1>5, <1>t, <2>1, SlotsKept DEF CloseInstance, Return
<1>6. ASSUME NEW t \in Threads, SetSequence(t) PROVE SlotInv'
  <2>1. HandleOf(t) \in Slots /\ inst[HandleOf(t)].inUse
    BY <1>6, <1>t DEF SetSequence, HandlesOwned, Owns, HasInstance, HandleOf, BaseType, CallType
  <2>2. inst' = [inst EXCEPT ![HandleOf(t)].init = TRUE] \/ inst' = inst
    BY <1>6 DEF SetSequence
  <2>3. \A s \in Slots : /\ inst'[s].inUse = inst[s].inUse /\ inst'[s].kind = inst[s].kind
                         /\ inst'[s].init => inst[s].init \/ inst[s].inUse
    BY <1>t, <2>1, <2>2 DEF BaseType, InstType
  <2>4. QED
    BY <1>6, <1>t, <2>3, SlotsKept DEF SetSequence, Return
<1>7. ASSUME NEW t \in Threads, RunCommand(t) \/ RefuseIoctl(t) PROVE SlotInv'
  BY <1>7, <1>t, SlotsKept DEF RunCommand, RefuseIoctl, Return
<1>8. CASE ModuleInit
  <2>1. \A s \in Slots : ~inst'[s].inUse /\ ~inst'[s].init
    BY <1>8 DEF ModuleInit, NoInstances
  <2>2. \A K : SlotsInUse(K)' = {}
    BY <2>1 DEF SlotsInUse
  <2>3. QED
    BY <1>8, <2>1, <2>2, FS_EmptySet DEF ModuleInit, SlotInv
<1>9. CASE Suspend \/ Resume \/ ModuleExit \/ UNCHANGED vars
  BY <1>9, <1>t, SlotsKept DEF Suspend, Resume, ModuleExit, vars
<1>10. QED
  BY <1>1, <1>2, <1>3, <1>4, <1>5, <1>6, <1>7, <1>8, <1>9 DEF Next, Ioctl

(* A slot that is free holds no sequence of its last user: nx_vpu_close      *)
(* clears isInitialized with the slot, and only the owner's ioctls set it.   *)
THEOREM NeverStaleInit == Spec => []NoStaleInit
<1>1. SlotInv => NoStaleInit
  BY DEF SlotInv, NoStaleInit
<1>2. QED
  BY <1>1, FilesInit, FilesStep, OwnersInit, OwnersStep, SlotsInit, SlotsStep, PTL DEF Spec

(* Nothing leaks: the counters are the slots in use, and who is within the   *)
(* quota finds a free slot, because the quotas together fit in the array.    *)
THEOREM QuotaAlwaysExact == Spec => []QuotaExact
<1>1. FilesInv /\ QuotaCoversHolders /\ SlotInv => QuotaExact
  <2> SUFFICES ASSUME FilesInv, QuotaCoversHolders, SlotInv, ~misuse PROVE QuotaExact
    BY DEF QuotaExact
  <2>1. ASSUME FreeSlots = {} PROVE cruEnc + cruDec = MaxInst
    <3> DEFINE D == SlotsInUse({"dec"})
               E == SlotsInUse({"enc", "jpg"})
    <3>1. \A s \in Slots : inst[s].inUse /\ inst[s].kind \in Kinds
      BY <2>1 DEF FreeSlots, FilesInv, BaseType, InstType
    <3>2. D \cup E = Slots /\ D \cap E = {}
      BY <3>1 DEF SlotsInUse, Kinds
    <3>3. /\ IsFiniteSet(D) /\ IsFiniteSet(E)
          /\ Cardinality(D) \in Nat /\ Cardinality(E) \in Nat
      BY SlotsFinite
    <3>4. cruDec = Cardinality(D) /\ cruEnc = Cardinality(E)
      BY DEF SlotInv
    <3> HIDE DEF D, E
    <3>5. Cardinality(D \cup E) = Cardinality(D) + Cardinality(E) - Cardinality(D \cap E)
      BY <3>3, FS_Union
    <3>6. Cardinality(D \cap E) = 0
      BY <3>2, FS_EmptySet
    <3>7. QED
      <4>1. MaxInst = Cardinality(D) + Cardinality(E) - 0
        BY <3>2, <3>5, <3>6, SlotsFinite
      <4>2. QED
        BY <3>3, <3>4, <4>1
  <2>2. (cruEnc < EncMax \/ cruDec < DecMax) => FreeSlots # {}
    <3>1. cruEnc \in Int /\ cruDec \in Int /\ cruEnc <= EncMax /\ cruDec <= DecMax
      BY DEF FilesInv, BaseType, QuotaCoversHolders
    <3>2. QED
      BY <2>1, <3>1, Limits
  <2>3. QED
    BY <2>2 DEF SlotInv, QuotaExact
<1>2. QED
  BY <1>1, FilesInit, FilesStep, OwnersInit, OwnersStep, QuotaInit, QuotaStep, SlotsInit,
     SlotsStep, PTL DEF Spec

-----------------------------------------------------------------------------
(* Firmware.                                                                 *)

(* What a handler may do to the registers that hold the firmware's code and  *)
(* work buffer addresses: an initialized VPU keeps them, one that was not    *)
(* initialized before gets them.                                             *)
Keeps(h, g) == g \in HwType /\ (g.init => h.init /\ g.regs = h.regs)
MayBoot(h, g) == g \in HwType /\ (g.init => g.regs = "firmware" \/ (h.init /\ g.regs = h.regs))

(* Unless a suspend was refused, an initialized VPU has its firmware while   *)
(* the system runs, and gstVpuRegStore has it while the system sleeps.       *)
FwInv ==
  /\ loaded \/ pm = "run"
  /\ \/ refused
     \/ /\ loaded /\ pm = "run" /\ hw.init => hw.regs = "firmware"
        /\ pm = "suspended" /\ hw.init => store = "firmware"

LEMMA KeepsTransitive ==
  ASSUME NEW h, NEW g, NEW k, Keeps(h, g), Keeps(g, k)
  PROVE  Keeps(h, k)
BY DEF Keeps

LEMMA ClockKeeps == ASSUME NEW h \in HwType, NEW on \in BOOLEAN
                    PROVE  Keeps(h, Clock(h, on)) /\ Clock(h, on).init = h.init
BY DEF Keeps, Clock, HwType

LEMMA CodecCloseKeeps ==
  ASSUME NEW h \in HwType, NEW i \in InstType, NEW busy \in BOOLEAN
  PROVE  Keeps(h, CodecClose(h, i, busy)) /\ CodecClose(h, i, busy).init = h.init
<1>1. Touch(h) \in HwType /\ Touch(h).init = h.init /\ Touch(h).regs = h.regs
  BY TouchType DEF Touch, HwType
<1>2. /\ Issue(h, busy) \in HwType /\ Issue(h, busy).init = h.init
      /\ Issue(h, busy).regs = h.regs
  BY <1>1, IssueType DEF Issue, HwType
<1>3. QED
  BY <1>1, <1>2 DEF CodecClose, Keeps

LEMMA IssueKeeps == ASSUME NEW h \in HwType, NEW busy \in BOOLEAN
                    PROVE  Keeps(h, Issue(h, busy))
<1>1. Touch(h) \in HwType /\ Touch(h).init = h.init /\ Touch(h).regs = h.regs
  BY TouchType DEF Touch, HwType
<1>2. QED
  BY <1>1, IssueType DEF Issue, HwType, Keeps

LEMMA DeInitKeeps == ASSUME NEW h \in HwType PROVE Keeps(h, VpuDeInit(h))
<1>1. Touch(h) \in HwType /\ Touch(h).init = h.init /\ Touch(h).regs = h.regs
  BY TouchType DEF Touch, HwType
<1>2. CASE ~h.init \/ h.busy
  BY <1>1, <1>2 DEF VpuDeInit, Keeps
<1>3. CASE h.init /\ ~h.busy
  <2>1. VpuDeInit(h) = [HWOff(Touch(h)) EXCEPT !.init = FALSE]
    BY <1>3 DEF VpuDeInit
  <2>2. ~VpuDeInit(h).init
    BY <1>1, <2>1, HWOffType DEF HwType
  <2>3. QED
    BY <2>2, VpuDeInitType DEF Keeps
<1>4. QED
  BY <1>2, <1>3 DEF HwType

LEMMA VpuInitBoots == ASSUME NEW h \in HwType, NEW boot \in Boots
                      PROVE  MayBoot(h, VpuInit(h, boot))
<1>1. CASE h.init
  BY <1>1 DEF VpuInit, MayBoot
<1>2. CASE ~h.init
  <2>1. Touch(HwOn(h)) \in HwType
    BY HwOnType, TouchType
  <2>2. VpuInit(h, boot).regs = "firmware"
    BY <1>2, <2>1 DEF VpuInit, HwType
  <2>3. QED
    BY <2>2, VpuInitType DEF MayBoot
<1>3. QED
  BY <1>1, <1>2 DEF HwType

\* What a close does to the hardware: at most a SEQ_END, then the power.
LEMMA CloseHardware ==
  ASSUME BaseType, NEW f \in Files, NxVpuClose(f)
  PROVE  \E h : Keeps(hw, h) /\ h.init = hw.init /\ hw' = Clock(DeInitIfLast(h), FALSE)
<1>1. /\ hw \in HwType /\ Clock(hw, TRUE) \in HwType /\ Keeps(hw, Clock(hw, TRUE))
      /\ Clock(hw, TRUE).init = hw.init
  BY ClockType, ClockKeeps DEF BaseType
<1>2. CASE priv[f] # None /\ inst[priv[f]].inUse
  <2>1. PICK busy \in BOOLEAN :
          LET up == Clock(hw, TRUE)
              closed == IF inst[priv[f]].init
                          THEN CodecClose(up, inst[priv[f]], busy) ELSE up
          IN  hw' = Clock(DeInitIfLast(closed), FALSE)
    BY <1>2 DEF NxVpuClose
  <2>2. inst[priv[f]] \in InstType
    BY <1>2 DEF BaseType
  <2>3. LET closed == CodecClose(Clock(hw, TRUE), inst[priv[f]], busy)
        IN  Keeps(hw, closed) /\ closed.init = hw.init
    BY <1>1, <2>2, CodecCloseKeeps, KeepsTransitive
  <2>4. QED
    BY <1>1, <2>1, <2>3
<1>3. CASE ~(priv[f] # None /\ inst[priv[f]].inUse)
  BY <1>1, <1>3 DEF NxVpuClose
<1>4. QED
  BY <1>2, <1>3

\* A handler that boots the VPU or not, between two gatings of the clock.
LEMMA BootFirmware ==
  ASSUME BaseType, NEW h \in HwType, NEW boot \in Boots,
         hw' = Clock(VpuInit(Clock(h, TRUE), boot), FALSE)
  PROVE  MayBoot(h, hw')
<1>1. Clock(h, TRUE) \in HwType /\ Keeps(h, Clock(h, TRUE))
  BY ClockType, ClockKeeps
<1>2. MayBoot(Clock(h, TRUE), VpuInit(Clock(h, TRUE), boot))
  BY <1>1, VpuInitBoots
<1>3. Keeps(VpuInit(Clock(h, TRUE), boot), hw')
  BY <1>1, VpuInitType, ClockKeeps
<1>4. QED
  BY <1>1, <1>2, <1>3 DEF Keeps, MayBoot

\* A step that leaves the firmware where it was.
LEMMA FwKept ==
  ASSUME FwInv, UNCHANGED system, Keeps(hw, hw')
  PROVE  FwInv'
BY DEF FwInv, Keeps

LEMMA FwReturn ==
  ASSUME BaseType, FwInv, NEW t \in Threads, NEW h, Keeps(Clock(hw, TRUE), h), Return(t, h)
  PROVE  FwInv'
<1>1. Keeps(hw, Clock(hw, TRUE)) /\ Keeps(h, Clock(h, FALSE))
  BY ClockKeeps DEF BaseType, Keeps
<1>2. Keeps(hw, hw')
  BY <1>1 DEF Return, Keeps
<1>3. QED
  BY <1>2, FwKept DEF Return

LEMMA FwInit == Init => FwInv
BY DEF Init, FwInv

LEMMA FwStep == FilesInv /\ FwInv /\ [Next]_vars => FwInv'
<1> SUFFICES ASSUME FilesInv, FwInv, [Next]_vars PROVE FwInv'
  OBVIOUS
<1>t. BaseType
  BY DEF FilesInv
<1>c. hw \in HwType /\ Clock(hw, TRUE) \in HwType /\ Keeps(hw, Clock(hw, TRUE))
  BY <1>t, ClockType, ClockKeeps DEF BaseType
<1>s. Keeps(Clock(hw, TRUE), Clock(hw, TRUE))
  BY <1>c DEF Keeps
<1>1. ASSUME NEW f \in Files, NxVpuOpen(f) PROVE FwInv'
  <2>1. MayBoot(hw, hw')
    <3>1. CASE curNum = 0
      BY <1>1, <1>t, <1>c, <3>1, BootFirmware DEF NxVpuOpen
    <3>2. CASE curNum # 0
      BY <1>1, <1>c, <3>2 DEF NxVpuOpen, MayBoot
    <3>3. QED
      BY <3>1, <3>2
  <2>2. QED
    BY <1>1, <2>1 DEF NxVpuOpen, FwInv, MayBoot
<1>2. ASSUME NEW f \in Files, NxVpuClose(f) PROVE FwInv'
  <2>1. PICK h : Keeps(hw, h) /\ hw' = Clock(DeInitIfLast(h), FALSE)
    BY <1>2, <1>t, CloseHardware DEF NxVpuClose
  <2>2. Keeps(h, DeInitIfLast(h))
    <3>1. h \in HwType
      BY <2>1 DEF Keeps
    <3>2. Keeps(h, h)
      BY <3>1 DEF Keeps
    <3>3. Clock(h, TRUE) \in HwType /\ Keeps(h, Clock(h, TRUE))
      BY <3>1, ClockType, ClockKeeps
    <3>4. LET g == VpuDeInit(Clock(h, TRUE))
          IN  Keeps(Clock(h, TRUE), g) /\ g \in HwType
      BY <3>3, DeInitKeeps, VpuDeInitType
    <3>5. Keeps(h, Clock(VpuDeInit(Clock(h, TRUE)), FALSE))
      BY <3>3, <3>4, ClockKeeps, KeepsTransitive
    <3>6. QED
      BY <3>2, <3>5 DEF DeInitIfLast
  <2>3. Keeps(hw, hw')
    BY <2>1, <2>2, ClockKeeps, KeepsTransitive DEF Keeps
  <2>4. QED
    BY <1>2, <2>3, FwKept DEF NxVpuClose
<1>3. ASSUME NEW t \in Threads, NEW f \in Files, EnterIoctl(t, f) PROVE FwInv'
  BY <1>3, <1>c, FwKept DEF EnterIoctl, Keeps
<1>4. ASSUME NEW t \in Threads, OpenInstance(t) PROVE FwInv'
  <2>1. PICK kind : Return(t, IF kind = "dec" THEN DecOpen(Clock(hw, TRUE))
                                              ELSE EncOpen(Clock(hw, TRUE)))
    BY <1>4 DEF OpenInstance
  <2>2. Keeps(Clock(hw, TRUE), Touch(Clock(hw, TRUE)))
    BY <1>c DEF Touch, Keeps, HwType
  <2>3. QED
    BY <1>t, <1>s, <2>1, <2>2, FwReturn DEF DecOpen, EncOpen
<1>5. ASSUME NEW t \in Threads, CloseInstance(t) PROVE FwInv'
  <2>1. inst[HandleOf(t)] \in InstType
    BY <1>5, <1>t DEF CloseInstance, HasInstance, HandleOf, BaseType, CallType
  <2>2. QED
    BY <1>5, <1>t, <1>c, <2>1, CodecCloseKeeps, FwReturn DEF CloseInstance
<1>6. ASSUME NEW t \in Threads, SetSequence(t) PROVE FwInv'
  BY <1>6, <1>t, <1>c, <1>s, IssueKeeps, FwReturn DEF SetSequence
<1>7. ASSUME NEW t \in Threads, RunCommand(t) PROVE FwInv'
  BY <1>7, <1>t, <1>c, IssueKeeps, FwReturn DEF RunCommand
<1>8. ASSUME NEW t \in Threads, RefuseIoctl(t) PROVE FwInv'
  <2>1. \A b \in BOOLEAN : Keeps(Clock(hw, TRUE), [Clock(hw, TRUE) EXCEPT !.busy = b])
    BY <1>c DEF Keeps, HwType
  <2>2. hw.busy \in BOOLEAN
    BY <1>c DEF HwType
  <2>3. QED
    BY <1>8, <1>t, <2>1, <2>2, FwReturn DEF RefuseIoctl
<1>9. CASE Suspend
  <2>1. loaded /\ pm = "run" /\ pm' = "suspended" /\ loaded' = loaded
    BY <1>9 DEF Suspend
  <2>2. CASE ~hw.init
    <3>1. hw' = Clock(Clock(hw, TRUE), FALSE)
      BY <1>9, <1>c, <2>2, ClockKeeps DEF Suspend, VpuSuspend
    <3>2. ~hw'.init
      BY <1>c, <2>2, <3>1, ClockKeeps
    <3>3. QED
      BY <2>1, <3>2 DEF FwInv
  <2>3. CASE hw.init /\ hw.busy
    <3>1. refused'
      BY <1>9, <2>3, Zenon DEF Suspend
    <3>2. QED
      BY <2>1, <3>1 DEF FwInv
  <2>4. CASE hw.init /\ ~hw.busy
    <3>1. store' = hw.regs
      BY <1>9, <2>4 DEF Suspend, SuspendSaves, Saved
    <3>2. refused => refused'
      BY <1>9 DEF Suspend
    <3>3. QED
      BY <2>1, <2>4, <3>1, <3>2 DEF FwInv
  <2>5. QED
    BY <1>c, <2>2, <2>3, <2>4 DEF HwType
<1>10. CASE Resume
  <2> DEFINE h == Clock(hw, TRUE)
  <2>1. PICK boot \in {"ok", "timeout"} : hw' = Clock(VpuResume(h, store, boot), FALSE)
    BY <1>10 DEF Resume
  <2>2. h \in HwType /\ h.init = hw.init
    BY <1>c, ClockKeeps
  <2>3. pm = "suspended" /\ pm' = "run" /\ loaded' = loaded /\ refused' = refused
    BY <1>10 DEF Resume
  <2> HIDE DEF h
  <2>4. CASE ~hw.init
    <3>1. VpuResume(h, store, boot) = h
      BY <2>2, <2>4 DEF VpuResume
    <3>2. ~hw'.init
      BY <2>1, <2>2, <2>4, <3>1, ClockKeeps
    <3>3. QED
      BY <2>3, <3>2 DEF FwInv
  <2>5. CASE hw.init
    <3>1. Touch(HwOn(h)) \in HwType
      BY <2>2, HwOnType, TouchType
    <3>2. VpuResume(h, store, boot).regs = store
      BY <2>2, <2>5, <3>1 DEF VpuResume, HwType
    <3>3. VpuResume(h, store, boot) \in HwType
      BY <1>t, <2>2, ResumeType DEF BaseType, Boots
    <3>4. hw'.init => hw'.regs = store
      BY <2>1, <3>2, <3>3, ClockKeeps DEF Keeps
    <3>5. QED
      BY <2>3, <2>5, <3>4 DEF FwInv
  <2>6. QED
    BY <2>4, <2>5
<1>11. CASE ModuleInit
  <2> DEFINE h == [hw EXCEPT !.on = FALSE, !.init = FALSE]
  <2>1. h \in HwType /\ ~h.init
    BY <1>c DEF HwType
  <2>2. MayBoot(h, hw')
    <3> HIDE DEF h
    <3>1. QED
      BY <1>11, <1>t, <2>1, BootFirmware DEF ModuleInit, h
  <2>3. pm' = "run"
    BY <1>11 DEF ModuleInit, FwInv
  <2>4. QED
    BY <1>11, <2>1, <2>2, <2>3 DEF ModuleInit, FwInv, MayBoot
<1>12. CASE ModuleExit
  BY <1>12 DEF ModuleExit, FwInv
<1>13. CASE UNCHANGED vars
  BY <1>13 DEF vars, FwInv
<1>14. QED
  BY <1>1, <1>2, <1>3, <1>4, <1>5, <1>6, <1>7, <1>8, <1>9, <1>10, <1>11, <1>12,
     <1>13 DEF Next, Ioctl

(* As long as no suspend finds the VPU busy, no power cycle, whole or        *)
(* partial, loses what the firmware needs: NX_VpuSuspend saves the registers *)
(* before the power goes and NX_VpuResume writes them back.                  *)
THEOREM FirmwareAlwaysSurvives == Spec => []FirmwareSurvives
<1>1. FwInv => FirmwareSurvives
  BY DEF FwInv, FirmwareSurvives, FirmwareIntact
<1>2. QED
  BY <1>1, FilesInit, FilesStep, FwInit, FwStep, PTL DEF Spec

(* The close that leaves no file open powers an initialized VPU off, unless  *)
(* its bit processor is still busy (nx_vpu_close and NX_VpuDeInit).          *)
THEOREM LastCloseAlwaysOff == Spec => LastCloseOff
<1>1. ASSUME FilesInv, [Next]_vars
      PROVE  [opened # {} /\ opened' = {} => ~hw'.on \/ hw'.busy \/ ~hw.init]_vars
  <2> SUFFICES ASSUME opened # {}, opened' = {}, hw.init PROVE ~hw'.on \/ hw'.busy
    OBVIOUS
  <2>t. BaseType
    BY <1>1 DEF FilesInv
  <2>1. PICK f \in opened : NxVpuClose(f)
    BY <1>1, Zenon DEF Next, Ioctl, vars, NxVpuOpen, NxVpuClose, EnterIoctl, OpenInstance,
       CloseInstance, SetSequence, RunCommand, RefuseIoctl, Return, Suspend, Resume,
       ModuleInit, ModuleExit
  <2>2. curNum = 1
    <3>1. opened = {f}
      BY <2>1 DEF NxVpuClose
    <3>2. QED
      BY <1>1, <3>1, FS_Singleton DEF FilesInv
  <2>3. PICK h : Keeps(hw, h) /\ h.init = hw.init /\ hw' = Clock(DeInitIfLast(h), FALSE)
    BY <2>t, <2>1, CloseHardware DEF BaseType
  <2> DEFINE g == Clock(h, TRUE)
  <2>4. g \in HwType /\ g.init /\ Touch(g) \in HwType
    BY <2>3, ClockType, ClockKeeps, TouchType DEF Keeps
  <2>5. hw' = Clock(Clock(VpuDeInit(g), FALSE), FALSE) /\ VpuDeInit(g) \in HwType
    BY <2>2, <2>3, <2>4, VpuDeInitType DEF DeInitIfLast
  <2> HIDE DEF g
  <2>6. Touch(g).busy = g.busy
    BY <2>4 DEF Touch, HwType
  <2>7. VpuDeInit(g).busy \/ ~VpuDeInit(g).on
    <3>1. CASE g.busy
      BY <2>4, <2>6, <3>1 DEF VpuDeInit
    <3>2. CASE ~g.busy
      <4>1. VpuDeInit(g) = [HWOff(Touch(g)) EXCEPT !.init = FALSE]
        BY <2>4, <3>2 DEF VpuDeInit
      <4>2. HWOff(Touch(g)) \in HwType /\ ~HWOff(Touch(g)).on
        BY <2>4, HWOffType DEF HWOff, HwType
      <4>3. QED
        BY <4>1, <4>2 DEF HwType
    <3>3. QED
      BY <3>1, <3>2
  <2>8. QED
    BY <2>5, <2>7 DEF Clock, HwType
<1>2. QED
  BY <1>1, FilesInit, FilesStep, PTL DEF Spec, LastCloseOff

=============================================================================
