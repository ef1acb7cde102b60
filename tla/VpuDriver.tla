------------------------------ MODULE VpuDriver ------------------------------
(***************************************************************************)
(* The coda960 kernel driver seen as a resource manager: open files, the   *)
(* shared table of codec instances, the encoder and decoder quotas, and    *)
(* the power, clock and firmware state of the VPU.                         *)
(*                                                                         *)
(* Every file operation runs under gstDrvMutex, which cannot be            *)
(* interrupted, so a handler body is one step.  What an ioctl does before  *)
(* it takes the mutex is a step of its own (EnterIoctl): it reads          *)
(* filp->private_data, and acts on that copy later.                        *)
(*                                                                         *)
(* A codec command is reduced to what it leaves behind: whether            *)
(* BIT_BUSY_FLAG is still set when the host gives up or is told to bring   *)
(* more stream.  What the commands do is the subject of other modules.     *)
(***************************************************************************)
EXTENDS Integers, FiniteSets

CONSTANTS
  Files,    \* the struct file objects user space may hold
  Threads,  \* the user threads that issue ioctls
  MaxInst,  \* NX_MAX_VPU_INSTANCE = NX_MAX_VPU_INST_SPACE (5 in the code)
  EncMax,   \* NX_MAX_VPU_ENC_INST (3 in the code)
  DecMax,   \* NX_MAX_VPU_DEC_INST (2 in the code)
  None      \* the null pointer

Slots == 0 .. MaxInst - 1

ASSUME Limits ==
  /\ MaxInst \in Nat \ {0}
  /\ EncMax \in Nat \ {0}
  /\ DecMax \in Nat \ {0}
  /\ EncMax + DecMax <= MaxInst
  /\ None \notin Slots \cup Files

VARIABLES
  loaded,   \* is the module loaded
  pm,       \* "run" or "suspended"
  hw,       \* the VPU and the driver's view of it, see HwType
  store,    \* gstVpuRegStore
  opened,   \* the files user space has open
  curNum,   \* gstCurNumInstance
  cruEnc,   \* gstCruEncInstance
  cruDec,   \* gstCruDecInstance
  inst,     \* gstVpuInstance
  priv,     \* filp->private_data of every file
  call,     \* the ioctl a thread is in: its file and its copy of private_data
  owner,    \* history: the file that opened the instance in a slot
  misuse,   \* history: a file opened a second instance, or was not told of one
  refused   \* history: a suspend found the VPU busy and was refused

vars == <<loaded, pm, hw, store, opened, curNum, cruEnc, cruDec, inst, priv,
          call, owner, misuse, refused>>

quotas == <<curNum, cruEnc, cruDec>>
history == <<owner, misuse, refused>>
system == <<loaded, pm, store, refused>>

Kinds == {"dec", "enc", "jpg"}   \* codecMode: below AVC_ENC, above, MJPG_ENC
Boots == {"ok", "noversion", "timeout"}
Regs  == {"blank", "firmware"}   \* what the registers at BIT_BASE+0x100 hold

HwType == [on : BOOLEAN,         \* gstIsVPUOn
           clk : BOOLEAN,        \* CODA960CLKENB
           init : BOOLEAN,       \* gstIsInitialized
           busy : BOOLEAN,       \* BIT_BUSY_FLAG
           regs : Regs,
           fault : BOOLEAN]      \* history: a VPU register was touched unpowered

InstType == [inUse : BOOLEAN, kind : Kinds, init : BOOLEAN]

CallType == [file : Files, h : Slots \cup {None}]

NoInstances == [s \in Slots |-> [inUse |-> FALSE, kind |-> "dec", init |-> FALSE]]

-----------------------------------------------------------------------------
(* The functions of nx_vpu_api.c, as functions of the hardware state.        *)

Clock(h, on) == [h EXCEPT !.clk = on]

\* Any VpuReadReg or VpuWriteReg of a VPU register.
Touch(h) == [h EXCEPT !.fault = @ \/ ~h.on \/ ~h.clk]

HwOn(h) == IF h.on THEN h ELSE [Clock(h, TRUE) EXCEPT !.on = TRUE]

HWOff(h) ==
  IF h.on THEN [h EXCEPT !.on = FALSE, !.regs = "blank", !.busy = FALSE] ELSE h

(* The firmware is loaded and started; the result of the busy wait decides   *)
(* whether the VPU counts as initialized.  Either way the caller sees OK.     *)
VpuInit(h, boot) ==
  IF h.init THEN h
  ELSE [Touch(HwOn(h)) EXCEPT !.regs = "firmware",
                              !.init = (boot # "timeout"),
                              !.busy = (boot # "ok")]

\* The part of NX_VpuInit that releases every slot, reached only on success.
SlotsAfterInit(h, boot) ==
  IF h.init \/ boot = "timeout" THEN inst
  ELSE [s \in Slots |-> [inst[s] EXCEPT !.inUse = FALSE]]

OwnersAfterInit(h, boot) ==
  IF h.init \/ boot = "timeout" THEN owner ELSE [s \in Slots |-> None]

VpuDeInitForgetful(h) ==
  IF ~h.init THEN h ELSE IF h.busy THEN Touch(h) ELSE HWOff(Touch(h))

VpuDeInit(h) ==
  IF ~h.init THEN h
  ELSE IF h.busy THEN Touch(h)
  ELSE [HWOff(Touch(h)) EXCEPT !.init = FALSE]

SuspendSaves(h) == h.init /\ ~h.busy

\* What gstVpuRegStore receives: the registers, read before the power goes.
SavedLate(h) == HWOff(h).regs
Saved(h) == h.regs

VpuSuspend(h) ==
  IF ~h.init THEN h
  ELSE IF SuspendSaves(h) THEN HWOff(Touch(h)) ELSE Touch(h)

VpuResume(h, saved, boot) ==
  IF ~h.init THEN h
  ELSE [Touch(HwOn(h)) EXCEPT !.regs = saved, !.busy = (boot = "timeout")]

\* A command is issued and waited for; busy says whether it is still running.
Issue(h, busy) == [Touch(h) EXCEPT !.busy = busy]

(* NX_VpuEncClose and NX_VpuDecClose: SEQ_END for an initialized instance,   *)
(* and in any case BIT_INT_CLEAR, except for a JPEG encoder.                 *)
CodecClose(h, i, busy) ==
  IF i.kind = "jpg" THEN h
  ELSE IF i.init THEN Issue(h, busy) ELSE Touch(h)

\* The share of an instance in gstCruDecInstance and gstCruEncInstance.
DecShare(kind) == IF kind = "dec" THEN 1 ELSE 0
EncShareJpegFree(kind) == IF kind = "enc" THEN 1 ELSE 0
EncShare(kind) == IF kind = "dec" THEN 0 ELSE 1

\* A slot given back by the close of its file.
FreedFlagOnly(i) == [i EXCEPT !.inUse = FALSE]
Freed(i) == [i EXCEPT !.inUse = FALSE, !.init = FALSE]

FreeSlotsByInit == {s \in Slots : ~inst[s].init}
FreeSlots == {s \in Slots : ~inst[s].inUse}

FirstFree == CHOOSE s \in FreeSlots : \A r \in FreeSlots : s <= r

\* NX_VpuEncOpen: no register is touched.
EncOpen(h) == h

\* NX_VpuDecOpen: the stream pointers and the stream flags are written.
DecOpen(h) == Touch(h)

-----------------------------------------------------------------------------
(* File operations.                                                          *)

Init ==
  /\ loaded = FALSE /\ pm = "run"
  /\ hw = [on |-> FALSE, clk |-> FALSE, init |-> FALSE, busy |-> FALSE,
           regs |-> "blank", fault |-> FALSE]
  /\ store = "blank"
  /\ opened = {}
  /\ curNum = 0 /\ cruEnc = 0 /\ cruDec = 0
  /\ inst = NoInstances
  /\ priv = [f \in Files |-> None]
  /\ call = [t \in Threads |-> None]
  /\ owner = [s \in Slots |-> None]
  /\ misuse = FALSE /\ refused = FALSE

(* nx_vpu_open.  The result of NX_VpuInit is not looked at.                  *)
NxVpuOpen(f) ==
  /\ loaded /\ pm = "run"
  /\ f \notin opened
  /\ curNum < MaxInst
  /\ \/ /\ curNum = 0
        /\ \E boot \in Boots :
             /\ hw' = Clock(VpuInit(Clock(hw, TRUE), boot), FALSE)
             /\ inst' = SlotsAfterInit(hw, boot)
             /\ owner' = OwnersAfterInit(hw, boot)
     \/ /\ curNum # 0
        /\ UNCHANGED <<hw, inst, owner>>
  /\ curNum' = curNum + 1
  /\ opened' = opened \cup {f}
  /\ priv' = [priv EXCEPT ![f] = None]
  /\ UNCHANGED <<system, cruEnc, cruDec, call, misuse>>

InCall(f) == \E t \in Threads : call[t] # None /\ call[t].file = f

\* The last file takes the VPU down with it.
DeInitIfNone(h) ==
  IF curNum = 0 THEN Clock(VpuDeInit(Clock(h, TRUE)), FALSE) ELSE h

DeInitIfLast(h) ==
  IF curNum = 1 THEN Clock(VpuDeInit(Clock(h, TRUE)), FALSE) ELSE h

(* nx_vpu_close, called by the kernel when the last reference to the file    *)
(* goes: no ioctl of this file is running.                                   *)
NxVpuClose(f) ==
  /\ pm = "run"
  /\ f \in opened
  /\ ~InCall(f)
  /\ \/ /\ priv[f] # None /\ inst[priv[f]].inUse
        /\ LET s == priv[f]
               i == inst[s]
           IN  /\ inst' = [inst EXCEPT ![s] = Freed(i)]
               /\ owner' = [owner EXCEPT ![s] = None]
               /\ cruDec' = cruDec - DecShare(i.kind)
               /\ cruEnc' = cruEnc - EncShare(i.kind)
               /\ \E busy \in BOOLEAN :
                    LET up == Clock(hw, TRUE)
                        closed == IF i.init THEN CodecClose(up, i, busy) ELSE up
                    IN  hw' = Clock(DeInitIfLast(closed), FALSE)
     \/ /\ ~(priv[f] # None /\ inst[priv[f]].inUse)
        /\ hw' = Clock(DeInitIfLast(Clock(hw, TRUE)), FALSE)
        /\ UNCHANGED <<inst, owner, cruDec, cruEnc>>
  /\ curNum' = curNum - 1
  /\ opened' = opened \ {f}
  /\ priv' = [priv EXCEPT ![f] = None]
  /\ UNCHANGED <<system, call, misuse>>

(* nx_vpu_ioctl up to DrvMutexLock: private_data is read before the lock.    *)
EnterIoctl(t, f) ==
  /\ pm = "run"
  /\ call[t] = None
  /\ f \in opened
  /\ call' = [call EXCEPT ![t] = [file |-> f, h |-> priv[f]]]
  /\ UNCHANGED <<system, hw, opened, quotas, inst, priv, owner, misuse>>

\* The end of nx_vpu_ioctl: the clock is gated and the mutex released.
Return(t, h) ==
  /\ hw' = Clock(h, FALSE)
  /\ call' = [call EXCEPT ![t] = None]
  /\ UNCHANGED <<system, opened, curNum>>

WithinQuotaInclusive(kind) ==
  IF kind = "dec" THEN cruDec <= DecMax ELSE cruEnc <= EncMax

WithinQuota(kind) == IF kind = "dec" THEN cruDec < DecMax ELSE cruEnc < EncMax

(* IOCTL_VPU_OPEN_INSTANCE.  The instance is taken before its index is       *)
(* copied to the caller; when the copy fails it stays taken.                 *)
OpenInstance(t) ==
  /\ call[t] # None
  /\ hw.init /\ FreeSlots # {}
  /\ \E kind \in Kinds, copied \in BOOLEAN :
       LET f == call[t].file
           s == FirstFree
           up == Clock(hw, TRUE)
       IN  /\ WithinQuota(kind)
           /\ inst' = [inst EXCEPT ![s].inUse = TRUE, ![s].kind = kind]
           /\ owner' = [owner EXCEPT ![s] = f]
           /\ Return(t, IF kind = "dec" THEN DecOpen(up) ELSE EncOpen(up))
           /\ misuse' = (misuse \/ ~copied \/ priv[f] # None)
           /\ \/ /\ copied
                 /\ priv' = [priv EXCEPT ![f] = s]
                 /\ cruDec' = cruDec + DecShare(kind)
                 /\ cruEnc' = cruEnc + EncShare(kind)
              \/ /\ ~copied
                 /\ UNCHANGED <<priv, cruDec, cruEnc>>

HandleOf(t) == call[t].h

\* An ioctl that reached a handler with an instance to act on.
HasInstance(t) == call[t] # None /\ HandleOf(t) # None

(* IOCTL_VPU_CLOSE_INSTANCE ends the sequence; the slot, the quota and       *)
(* private_data wait for the file to be closed.                              *)
CloseInstance(t) ==
  /\ HasInstance(t)
  /\ LET i == inst[HandleOf(t)]
     IN  /\ \E busy \in BOOLEAN : Return(t, CodecClose(Clock(hw, TRUE), i, busy))
         /\ inst' = [inst EXCEPT ![HandleOf(t)].init = (i.kind = "jpg" /\ i.init)]
  /\ UNCHANGED <<cruEnc, cruDec, priv, owner, misuse>>

(* IOCTL_VPU_ENC_SET_SEQ_PARAM and IOCTL_VPU_DEC_SET_SEQ_INFO: SEQ_INIT, or  *)
(* for JPEG the quantiser tables only.                                       *)
SetSequence(t) ==
  /\ HasInstance(t)
  /\ LET s == HandleOf(t)
         up == Clock(hw, TRUE)
     IN  \/ /\ inst[s].kind = "jpg"
            /\ inst' = [inst EXCEPT ![s].init = TRUE]
            /\ Return(t, up)
         \/ /\ inst[s].kind # "jpg"
            /\ \E done \in BOOLEAN, busy \in BOOLEAN :
                 /\ inst' = IF done THEN [inst EXCEPT ![s].init = TRUE] ELSE inst
                 /\ Return(t, Issue(up, busy /\ ~done))
  /\ UNCHANGED <<cruEnc, cruDec, priv, owner, misuse>>

(* The remaining ioctls that reach the hardware: frame buffers, headers,     *)
(* frames, parameter changes and the decoder flush; for JPEG the JPU's.      *)
RunCommand(t) ==
  /\ HasInstance(t)
  /\ \E busy \in BOOLEAN :
       /\ inst[HandleOf(t)].kind = "jpg" => busy = hw.busy
       /\ Return(t, Issue(Clock(hw, TRUE), busy))
  /\ UNCHANGED <<cruEnc, cruDec, inst, priv, owner, misuse>>

(* Any ioctl that fails its checks or never reaches the hardware.  A command *)
(* left running may finish while the clock is on.                            *)
RefuseIoctl(t) ==
  /\ call[t] # None
  /\ \E busy \in {hw.busy, FALSE} :
       Return(t, [Clock(hw, TRUE) EXCEPT !.busy = busy])
  /\ UNCHANGED <<cruEnc, cruDec, inst, priv, owner, misuse>>

-----------------------------------------------------------------------------
(* Power management and module load and unload.                              *)

(* nx_vpu_drv_suspend: user threads are frozen outside the driver.  The      *)
(* VPU_RET_BUSY of NX_VpuSuspend is dropped.                                 *)
Suspend ==
  /\ loaded /\ pm = "run"
  /\ \A t \in Threads : call[t] = None
  /\ hw' = Clock(VpuSuspend(Clock(hw, TRUE)), FALSE)
  /\ store' = IF SuspendSaves(hw) THEN Saved(hw) ELSE store
  /\ refused' = (refused \/ (hw.init /\ hw.busy))
  /\ pm' = "suspended"
  /\ UNCHANGED <<loaded, opened, quotas, inst, priv, call, owner, misuse>>

Resume ==
  /\ pm = "suspended"
  /\ \E boot \in {"ok", "timeout"} :
       hw' = Clock(VpuResume(Clock(hw, TRUE), store, boot), FALSE)
  /\ pm' = "run"
  /\ UNCHANGED <<loaded, store, opened, quotas, inst, priv, call, history>>

(* nx_vpu_init on a freshly loaded module: every static variable is zero.    *)
ModuleInit ==
  /\ ~loaded
  /\ \E boot \in Boots :
       hw' = Clock(VpuInit(Clock([hw EXCEPT !.on = FALSE, !.init = FALSE], TRUE),
                           boot), FALSE)
  /\ loaded' = TRUE
  /\ store' = "blank"
  /\ curNum' = 0 /\ cruEnc' = 0 /\ cruDec' = 0
  /\ inst' = NoInstances
  /\ owner' = [s \in Slots |-> None]
  /\ misuse' = FALSE /\ refused' = FALSE
  /\ UNCHANGED <<pm, opened, priv, call>>

(* nx_vpu_exit: an open file holds a reference to the module.                *)
ModuleExit ==
  /\ loaded /\ pm = "run"
  /\ opened = {}
  /\ hw' = Clock(VpuDeInit(Clock(hw, TRUE)), FALSE)
  /\ loaded' = FALSE
  /\ UNCHANGED <<pm, store, opened, quotas, inst, priv, call, history>>

-----------------------------------------------------------------------------

Ioctl(t) ==
  \/ OpenInstance(t)
  \/ CloseInstance(t)
  \/ SetSequence(t)
  \/ RunCommand(t)
  \/ RefuseIoctl(t)

Next ==
  \/ \E f \in Files : NxVpuOpen(f) \/ NxVpuClose(f)
  \/ \E t \in Threads, f \in Files : EnterIoctl(t, f)
  \/ \E t \in Threads : Ioctl(t)
  \/ Suspend
  \/ Resume
  \/ ModuleInit
  \/ ModuleExit

Spec == Init /\ [][Next]_vars

-----------------------------------------------------------------------------
(* Properties.                                                               *)

(* The counters never leave their ranges: gstCurNumInstance, incremented and *)
(* decremented by open and close, and the two quota counters, incremented by *)
(* an ioctl and decremented by the close of a file.                          *)
TypeOK ==
  /\ loaded \in BOOLEAN /\ pm \in {"run", "suspended"}
  /\ hw \in HwType /\ store \in Regs
  /\ opened \subseteq Files
  /\ curNum \in 0 .. MaxInst
  /\ cruEnc \in 0 .. EncMax /\ cruDec \in 0 .. DecMax
  /\ inst \in [Slots -> InstType]
  /\ priv \in [Files -> Slots \cup {None}]
  /\ call \in [Threads -> CallType \cup {None}]
  /\ owner \in [Slots -> Files \cup {None}]
  /\ misuse \in BOOLEAN /\ refused \in BOOLEAN

Owns(f, s) == inst[s].inUse /\ owner[s] = f

(* No two files share an instance, and no ioctl acts on an instance that was *)
(* given back or given to another file, although nx_vpu_ioctl reads          *)
(* private_data before it holds the mutex and slots are recycled.            *)
HandlesOwned ==
  /\ \A f \in opened : priv[f] # None => Owns(f, priv[f])
  /\ \A t \in Threads :
       HasInstance(t) => call[t].file \in opened /\ Owns(call[t].file, HandleOf(t))

(* No handler touches a VPU register while the VPU is unpowered or its clock *)
(* is gated, whatever files are opened and closed around it, across suspend, *)
(* resume, failed boots and reloads of the module.                           *)
HwDiscipline == ~hw.fault

Holders(kinds) == {f \in opened : priv[f] # None /\ inst[priv[f]].kind \in kinds}

(* The encoders and decoders that files hold never exceed their counters,    *)
(* nor therefore the limits of nx_vpu_config.h, even when a file opens a     *)
(* second instance.                                                          *)
QuotaCoversHolders ==
  /\ Cardinality(Holders({"dec"})) <= cruDec /\ cruDec <= DecMax
  /\ Cardinality(Holders({"enc", "jpg"})) <= cruEnc /\ cruEnc <= EncMax

SlotsInUse(kinds) == {s \in Slots : inst[s].inUse /\ inst[s].kind \in kinds}

(* As long as every file opens one instance and is told of it, the counters  *)
(* are exactly the slots taken: nothing leaks through boots, closes and      *)
(* module reloads, and a caller within its quota always finds a free slot.   *)
QuotaExact ==
  ~misuse => /\ cruDec = Cardinality(SlotsInUse({"dec"}))
             /\ cruEnc = Cardinality(SlotsInUse({"enc", "jpg"}))
             /\ (cruEnc < EncMax \/ cruDec < DecMax) => FreeSlots # {}

(* A free slot never keeps the isInitialized of its last user: the next user *)
(* could otherwise run commands on a sequence it never set up.               *)
NoStaleInit == ~misuse => \A s \in Slots : inst[s].init => inst[s].inUse

(* While the driver believes the VPU is initialized and the system runs, the *)
(* registers at BIT_BASE+0x100 hold what the firmware needs.                 *)
FirmwareIntact == loaded /\ pm = "run" /\ hw.init => hw.regs = "firmware"

(* The same, for a driver that never had to refuse a suspend: power cycles,  *)
(* whole or partial, lose nothing.                                           *)
FirmwareSurvives == refused \/ FirmwareIntact

(* The last close powers the VPU off, unless a command is left running or    *)
(* the boot never succeeded.                                                 *)
LastCloseOff ==
  [][opened # {} /\ opened' = {} => ~hw'.on \/ hw'.busy \/ ~hw.init]_vars

=============================================================================
