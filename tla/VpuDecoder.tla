----------------------------- MODULE VpuDecoder ------------------------------
(***************************************************************************)
(* Decoder instances that share the registers of one VPU: the stream ring  *)
(* of each, the display flags by which frame buffers are lent and returned,*)
(* and the command that waits for more stream while the mutex is free.     *)
(*                                                                         *)
(* An ioctl runs under gstDrvMutex from its first register access to its   *)
(* last, so each is one step; what the VPU answers is a choice.  A user    *)
(* calls the driver through nx_video_api.c, which orders the calls, and    *)
(* never feeds more than the ring has room for: the driver reports both    *)
(* positions and relies on it.  A call that is refused before it touches   *)
(* the instance (a failing copy_from_user, a position outside the ring) is *)
(* a stuttering step.                                                      *)
(***************************************************************************)
EXTENDS Integers, FiniteSets

CONSTANTS
  Insts,        \* the decoder instances
  Frames,       \* the indices of the frame buffers that each instance registers
  RingSize,     \* strmBufSize
  LateReturns,  \* may a frame be returned after a flush or a new sequence?
  None          \* no frame (a negative index), no job

ASSUME Parameters ==
  /\ RingSize \in Nat \ {0}
  /\ LateReturns \in BOOLEAN
  /\ DOMAIN Frames = Insts
  /\ \A i \in Insts : None \notin Frames[i]

VARIABLES
  reg,      \* BIT_WR_PTR, BIT_RD_PTR and BIT_FRM_DIS_FLG
  job,      \* the command that is paused in the VPU until there is more stream
  inst,     \* the VpuDecInfo of every instance
  client,   \* the users: NX_VIDEO_DEC_INFO, what they hold, what befell them
  crossed   \* history: an instance used the VPU while another's command was
            \* paused in it

vars == <<reg, job, inst, client, crossed>>

Offsets == 0 .. RingSize - 1
Addr == [of : Insts, at : Offsets]   \* a physical address in a stream buffer

AllFrames == UNION {Frames[i] : i \in Insts}

RegType == [wr : Addr, rd : Addr, disp : SUBSET AllFrames]

InstType == [isInitialized : BOOLEAN,
             needMoreFrame : BOOLEAN,
             readPos : Addr,
             writePos : Addr,
             frameDisplayFlag : SUBSET AllFrames,
             clearDisplayIndexes : SUBSET AllFrames]

Kinds == {"seq", "pic"}
JobType == [of : Insts, kind : Kinds]

Phases == {"closed", "open", "parsed", "ready"}
Marks == {"failed",  \* a command failed, or its result did not reach the user,
                     \* and there was no flush or new sequence since
          "late",    \* a frame was returned after it had been revoked
          "forgot",  \* a command was issued over a paused one of the instance
          "torn"}    \* a frame was decoded into while the user held it

ClientType == [phase : Phases,
               held : SUBSET AllFrames,    \* frames on display
               stale : SUBSET AllFrames,   \* revoked, and may still be returned
               unread : Offsets,        \* bytes fed and not consumed
               marks : SUBSET Marks]

Base(i) == [of |-> i, at |-> 0]
Ahead(a, n) == [a EXCEPT !.at = (@ + n) % RingSize]
Gap(a, b) == (b.at - a.at) % RingSize

Fresh(i) == [isInitialized |-> FALSE, needMoreFrame |-> FALSE,
             readPos |-> Base(i), writePos |-> Base(i),
             frameDisplayFlag |-> {}, clearDisplayIndexes |-> {}]

NewClient(phase) == [phase |-> phase, held |-> {}, stale |-> {}, unread |-> 0,
                     marks |-> {}]

Init ==
  /\ inst = [i \in Insts |-> Fresh(i)]
  /\ client = [i \in Insts |-> NewClient("closed")]
  /\ \E i \in Insts : reg = [wr |-> Base(i), rd |-> Base(i), disp |-> {}]
  /\ job = None /\ crossed = FALSE

-----------------------------------------------------------------------------
(* The parts of a command.                                                   *)

Resumes(i) == inst[i].needMoreFrame

\* Another instance's command is paused in the VPU.  A closed instance does not
\* care, but what it left may still be resumed by mistake.
Intrudes(i) ==
  /\ job # None /\ job.of # i
  /\ Resumes(i) \/ (client[job.of].phase # "closed" /\ inst[job.of].needMoreFrame)

UsesVpu(i) == crossed' = (crossed \/ Intrudes(i))

\* The frames on display that a flush or a new sequence revokes.
Revoked(i) == client[i].stale \cup (IF LateReturns THEN client[i].held ELSE {})

\* What a user may feed: the room it knows of, and none once pointers mix.
Room(i) == IF inst[i].readPos.of = i /\ inst[i].writePos.of = i
           THEN RingSize - 1 - Gap(inst[i].readPos, inst[i].writePos) ELSE 0

\* mutant: a chunk that ends at the end of the ring does not wrap
FillBufferNoWrap(i, size) ==
  LET vWriteOffset == inst[i].writePos.at
      remain == RingSize - vWriteOffset
  IN  IF remain >= size THEN vWriteOffset + size ELSE size - remain

FillBuffer(i, size) ==
  LET vWriteOffset == inst[i].writePos.at
      remain == RingSize - vWriteOffset
  IN  IF remain > size THEN vWriteOffset + size ELSE size - remain

Fed(i, size) ==
  IF size = 0 THEN inst[i] ELSE [inst[i] EXCEPT !.writePos.at = FillBuffer(i, size)]

\* The registers when the wait for the VPU begins: a resumed command gets the
\* write pointer only.
StartSeq(i, d) ==
  IF Resumes(i) THEN [reg EXCEPT !.wr = d.writePos]
  ELSE [wr |-> d.writePos, rd |-> d.readPos, disp |-> {}]

\* mutant: the VPU reads on where whoever used it last has stopped
StartPicReadsOn(i, d) ==
  IF Resumes(i) THEN [reg EXCEPT !.wr = d.writePos]
  ELSE [reg EXCEPT !.wr = d.writePos,
                   !.disp = d.frameDisplayFlag \ d.clearDisplayIndexes]

\* mutant: the flags of whoever used the VPU last are left in the register
StartPicNoFlags(i, d) ==
  IF Resumes(i) THEN [reg EXCEPT !.wr = d.writePos]
  ELSE [reg EXCEPT !.wr = d.writePos, !.rd = d.readPos]

StartPic(i, d) ==
  IF Resumes(i) THEN [reg EXCEPT !.wr = d.writePos]
  ELSE [wr |-> d.writePos, rd |-> d.readPos,
        disp |-> d.frameDisplayFlag \ d.clearDisplayIndexes]

\* The instance at that moment.
SeqStarted(d) == [d EXCEPT !.needMoreFrame = FALSE]

\* mutant: the returns noted while the command was paused are dropped with it
PicStartedDrops(d) ==
  [d EXCEPT !.needMoreFrame = FALSE, !.clearDisplayIndexes = {}]

PicStarted(d) ==
  IF d.needMoreFrame THEN [d EXCEPT !.needMoreFrame = FALSE]
  ELSE [d EXCEPT !.clearDisplayIndexes = {}]

\* The command that will answer, if any.
Answering(i, kind) == IF Resumes(i) THEN job ELSE [of |-> i, kind |-> kind]

Consumed(r) == {Ahead(r.rd, n) : n \in 0 .. Gap(r.rd, r.wr)}

Unread(i, size, d) ==
  IF crossed' THEN 0  \* the pointers may be another instance's
  ELSE client[i].unread + size - Gap(inst[i].readPos, d.readPos)

-----------------------------------------------------------------------------
(* NX_VpuDecOpen: the instance is cleared and both pointer registers move.   *)

\* mutant: the instance keeps what its last user left in it
DecOpenDirty(i) ==
  /\ client[i].phase = "closed"
  /\ client' = [client EXCEPT ![i] = NewClient("open")]
  /\ inst' = [inst EXCEPT ![i].readPos = Base(i), ![i].writePos = Base(i)]
  /\ reg' = [reg EXCEPT !.wr = Base(i), !.rd = Base(i)]
  /\ UsesVpu(i)
  /\ UNCHANGED job

DecOpen(i) ==
  /\ client[i].phase = "closed"
  /\ client' = [client EXCEPT ![i] = NewClient("open")]
  /\ inst' = [inst EXCEPT ![i] = Fresh(i)]
  /\ reg' = [reg EXCEPT !.wr = Base(i), !.rd = Base(i)]
  /\ UsesVpu(i)
  /\ UNCHANGED job

(* NX_VpuDecSetSeqInfo.  The library takes a new sequence header at any      *)
(* time, and counts as not initialized from then on.  The frames on display  *)
(* are revoked: their buffers belong to the old sequence.                    *)

Reparsed(i, phase, size, d, marks) ==
  [client[i] EXCEPT !.phase = phase, !.held = {}, !.stale = Revoked(i),
                    !.unread = Unread(i, size, d), !.marks = marks]

Unparsed(i) == IF client[i].phase = "open" THEN "open" ELSE "parsed"

MaySetSeqInfo(i, size) ==
  /\ client[i].phase # "closed"
  /\ client[i].phase = "ready" => size > 0

\* The VPU has parsed the header: VPU_DecSeqComplete.
SeqInfoOk(i) == \E size \in 0 .. Room(i) :
  LET fed == Fed(i, size)
      r == StartSeq(i, fed)
      j == Answering(i, "seq")
  IN /\ MaySetSeqInfo(i, size)
     /\ j # None /\ j.kind = "seq"
     /\ UsesVpu(i)
     /\ \E p \in Consumed(r) :
          LET d == [SeqStarted(fed) EXCEPT !.frameDisplayFlag = r.disp,
                      !.readPos = p, !.writePos = r.wr, !.isInitialized = TRUE]
          IN /\ reg' = [r EXCEPT !.rd = p]
             /\ inst' = [inst EXCEPT ![i] = d]
             /\ client' = [client EXCEPT ![i] =
                  Reparsed(i, "parsed", size, d, client[i].marks \ {"failed"})]
     /\ job' = None

\* It has answered that the header is bad: the positions are taken over.
SeqInfoRejected(i) == \E size \in 0 .. Room(i) :
  LET fed == Fed(i, size)
      r == StartSeq(i, fed)
      j == Answering(i, "seq")
  IN /\ MaySetSeqInfo(i, size)
     /\ j # None /\ j.kind = "seq"
     /\ UsesVpu(i)
     /\ \E p \in Consumed(r) :
          LET d == [SeqStarted(fed) EXCEPT !.frameDisplayFlag = r.disp,
                                           !.readPos = p]
          IN /\ reg' = [r EXCEPT !.rd = p]
             /\ inst' = [inst EXCEPT ![i] = d]
             /\ client' = [client EXCEPT ![i] =
                  Reparsed(i, Unparsed(i), size, d, client[i].marks \cup {"failed"})]
     /\ job' = None

\* It needs more stream: the command stays in the VPU and the mutex is free.
SeqInfoPaused(i) == \E size \in 0 .. Room(i) :
  LET fed == Fed(i, size)
      r == StartSeq(i, fed)
      d == [SeqStarted(fed) EXCEPT !.needMoreFrame = TRUE]
      j == Answering(i, "seq")
  IN /\ MaySetSeqInfo(i, size)
     /\ j # None
     /\ UsesVpu(i)
     /\ \E p \in Consumed(r) : reg' = [r EXCEPT !.rd = p]
     /\ inst' = [inst EXCEPT ![i] = d]
     /\ client' = [client EXCEPT ![i] =
                     Reparsed(i, Unparsed(i), size, d, client[i].marks)]
     /\ job' = j

\* Nothing has answered, or something else than a sequence.
SeqInfoFails(i) == \E size \in 0 .. Room(i) :
  LET fed == Fed(i, size)
      d == SeqStarted(fed)
  IN /\ MaySetSeqInfo(i, size)
     /\ UsesVpu(i)
     /\ reg' = StartSeq(i, fed)
     /\ inst' = [inst EXCEPT ![i] = d]
     /\ client' = [client EXCEPT ![i] =
          Reparsed(i, Unparsed(i), size, d, client[i].marks \cup {"failed"})]
     /\ job' = None

\* The header does not reach the ring: only the library forgets its sequence.
SeqInfoRefused(i) ==
  /\ client[i].phase = "ready"
  /\ client' = [client EXCEPT ![i].phase = "parsed"]
  /\ UNCHANGED <<reg, job, inst, crossed>>

DecSetSeqInfo(i) ==
  SeqInfoRefused(i) \/ SeqInfoOk(i) \/ SeqInfoRejected(i) \/ SeqInfoPaused(i) \/ SeqInfoFails(i)

(* NX_VpuDecRegFrameBuf: SET_FRAME_BUF, waited for by the busy flag; a       *)
(* needMoreFrame is left as it is.                                           *)

Forgets(i) == IF inst[i].needMoreFrame THEN {"forgot"} ELSE {}

DecRegFrameBuf(i) ==
  /\ client[i].phase = "parsed"
  /\ \E phase \in {"ready", "parsed"} :
       client' = [client EXCEPT ![i].phase = phase, ![i].marks = @ \cup Forgets(i)]
  /\ UsesVpu(i)
  /\ job' = None
  /\ UNCHANGED <<reg, inst>>

(* NX_VpuDecRunFrame.                                                        *)

Ran(i, size, d, shown, marks) ==
  [client[i] EXCEPT !.unread = Unread(i, size, d), !.held = @ \cup shown,
                    !.marks = @ \cup marks]

Free(i, r) == (Frames[i] \ r.disp) \cup {None}

Torn(i, decoded) == IF decoded \in client[i].held THEN {"torn"} ELSE {}

\* mutant: the display flags are those from before the command
GetOutputInfoStale(d, p, disp) == [d EXCEPT !.readPos = p]

GetOutputInfo(d, p, disp) == [d EXCEPT !.readPos = p, !.frameDisplayFlag = disp]

\* The VPU decodes into a frame that is not lent, and shows one, which it lends.
FrameOk(i) == \E size \in 0 .. Room(i) :
  LET fed == Fed(i, size)
      r == StartPic(i, fed)
      j == Answering(i, "pic")
  IN /\ client[i].phase = "ready"
     /\ j # None /\ j.kind = "pic"
     /\ UsesVpu(i)
     /\ \E p \in Consumed(r), decoded \in Free(i, r), indexFrameDisplay \in Free(i, r) :
          LET shown == {indexFrameDisplay} \ {None}
              d == GetOutputInfo(PicStarted(fed), p, r.disp \cup shown)
          IN /\ reg' = [r EXCEPT !.rd = p, !.disp = @ \cup shown]
             /\ inst' = [inst EXCEPT ![i] = d]
             /\ client' = [client EXCEPT ![i] =
                             Ran(i, size, d, shown, Torn(i, decoded))]
     /\ job' = None

\* The same, but the user is not told of the frame: a leading B frame of VC1
\* is withheld, or copy_to_user fails.
FrameUntold(i) == \E size \in 0 .. Room(i) :
  LET fed == Fed(i, size)
      r == StartPic(i, fed)
      j == Answering(i, "pic")
  IN /\ client[i].phase = "ready"
     /\ j # None /\ j.kind = "pic"
     /\ UsesVpu(i)
     /\ \E p \in Consumed(r), decoded \in Free(i, r), indexFrameDisplay \in Free(i, r) :
          LET shown == {indexFrameDisplay} \ {None}
              d == GetOutputInfo(PicStarted(fed), p, r.disp \cup shown)
          IN /\ reg' = [r EXCEPT !.rd = p, !.disp = @ \cup shown]
             /\ inst' = [inst EXCEPT ![i] = d]
             /\ client' = [client EXCEPT ![i] =
                             Ran(i, size, d, {}, {"failed"} \cup Torn(i, decoded))]
     /\ job' = None

FramePaused(i) == \E size \in 0 .. Room(i) :
  LET fed == Fed(i, size)
      r == StartPic(i, fed)
      d == [PicStarted(fed) EXCEPT !.needMoreFrame = TRUE]
      j == Answering(i, "pic")
  IN /\ client[i].phase = "ready"
     /\ j # None
     /\ UsesVpu(i)
     /\ \E p \in Consumed(r) : reg' = [r EXCEPT !.rd = p]
     /\ inst' = [inst EXCEPT ![i] = d]
     /\ client' = [client EXCEPT ![i] = Ran(i, size, d, {}, {})]
     /\ job' = j

\* A timeout, another interrupt, or an access violation that ends
\* VPU_DecGetOutputInfo early: nothing is taken over from the VPU.
FrameFails(i) == \E size \in 0 .. Room(i) :
  LET fed == Fed(i, size)
      r == StartPic(i, fed)
      d == PicStarted(fed)
  IN /\ client[i].phase = "ready"
     /\ UsesVpu(i)
     /\ reg' = r
     /\ inst' = [inst EXCEPT ![i] = d]
     /\ \E decoded \in IF Answering(i, "pic") = None THEN {None} ELSE Free(i, r) :
          client' = [client EXCEPT ![i] =
                       Ran(i, size, d, {}, {"failed"} \cup Torn(i, decoded))]
     /\ job' = None

DecRunFrame(i) == FrameOk(i) \/ FrameUntold(i) \/ FramePaused(i) \/ FrameFails(i)

(* NX_VpuDecClrDspFlag: noted, and told to the VPU with the next command.    *)
DecClrDspFlag(i) ==
  /\ client[i].phase = "ready"
  /\ \/ \E f \in client[i].held :
          /\ inst' = [inst EXCEPT ![i].clearDisplayIndexes = @ \cup {f}]
          /\ client' = [client EXCEPT ![i].held = @ \ {f}]
     \/ \E f \in client[i].stale :
          /\ inst' = [inst EXCEPT ![i].clearDisplayIndexes = @ \cup {f}]
          /\ client' = [client EXCEPT ![i].stale = @ \ {f},
                                      ![i].marks = @ \cup {"late"}]
  /\ UNCHANGED <<reg, job, crossed>>

(* NX_VpuDecFlush: frames are revoked and the ring is emptied; a timeout     *)
(* leaves the frames and the ring where they are, with nothing left to read. *)

\* mutant: the write position is moved back only when the flush succeeds
FlushedLate(d, ok, i) ==
  IF ok
  THEN [d EXCEPT !.clearDisplayIndexes = {}, !.frameDisplayFlag = {},
                 !.readPos = Base(i), !.writePos = Base(i)]
  ELSE [d EXCEPT !.clearDisplayIndexes = {}]

Flushed(d, ok, i) ==
  IF ok
  THEN [d EXCEPT !.clearDisplayIndexes = {}, !.frameDisplayFlag = {},
                 !.readPos = Base(i), !.writePos = Base(i)]
  ELSE [d EXCEPT !.clearDisplayIndexes = {}, !.writePos = d.readPos]

DecFlush(i) ==
  /\ client[i].phase = "ready"
  /\ \E ok \in BOOLEAN :
       /\ inst' = [inst EXCEPT ![i] = Flushed(inst[i], ok, i)]
       /\ client' = [client EXCEPT
            ![i].held = IF ok THEN {} ELSE @,
            ![i].stale = IF ok THEN Revoked(i) ELSE @,
            ![i].unread = 0,
            ![i].marks = (IF ok THEN @ \ {"failed"} ELSE @ \cup {"failed"})
                         \cup Forgets(i)]
  /\ reg' = [reg EXCEPT !.disp = inst[i].frameDisplayFlag \ inst[i].clearDisplayIndexes]
  /\ UsesVpu(i)
  /\ job' = None

(* NX_VpuDecClose: SEQ_END for an instance that has a sequence.              *)
DecClose(i) ==
  /\ client[i].phase # "closed"
  /\ client' = [client EXCEPT ![i] = NewClient("closed")]
  /\ inst' = [inst EXCEPT ![i].isInitialized = FALSE]
  /\ IF inst[i].isInitialized
     THEN UsesVpu(i) /\ job' = None
     ELSE UNCHANGED <<crossed, job>>
  /\ UNCHANGED reg

Ioctl(i) ==
  \/ DecOpen(i) \/ DecSetSeqInfo(i) \/ DecRegFrameBuf(i) \/ DecRunFrame(i)
  \/ DecClrDspFlag(i) \/ DecFlush(i) \/ DecClose(i)

\* What the VPU does after commands have crossed is not known: the model ends.
Next == ~crossed /\ \E i \in Insts : Ioctl(i)

Spec == Init /\ [][Next]_vars

-----------------------------------------------------------------------------

\* Every variable has its type.
TypeOK ==
  /\ reg \in RegType
  /\ job \in JobType \cup {None}
  /\ inst \in [Insts -> InstType]
  /\ client \in [Insts -> ClientType]
  /\ crossed \in BOOLEAN

\* The positions of an instance are in its own ring, although they pass through
\* registers that all share, and enclose exactly the stream that was fed and not
\* consumed: the VPU is never led to bytes that it has read or that were never fed,
\* through wraps, pauses, failed commands, flushes and new sequences (FillBuffer,
\* the reads of BIT_RD_PTR and BIT_WR_PTR, NX_VpuDecFlush).
RingSound == \A i \in Insts :
  client[i].phase # "closed" /\ ~crossed =>
    /\ {inst[i].readPos, inst[i].writePos} \subseteq [of : {i}, at : Offsets]
    /\ Gap(inst[i].readPos, inst[i].writePos) = client[i].unread

\* Between commands the frames that the VPU will be told are lent are those on
\* display, unless a frame was returned too late or a command failed and there
\* was no flush since: no frame buffer is lost to the decoder, and none lent
\* twice (frameDisplayFlag and clearDisplayIndexes, which five functions update
\* at different times).
FramesAccounted == \A i \in Insts :
  /\ client[i].phase = "ready" /\ ~inst[i].needMoreFrame
  /\ ~crossed /\ client[i].marks \cap {"failed", "late"} = {}
  => inst[i].frameDisplayFlag \ inst[i].clearDisplayIndexes = client[i].held

\* Whatever fails, a frame is not decoded into while it is on display, unless
\* its user returned it twice: once after the flush that revoked it.
HeldIntact == \A i \in Insts :
  "torn" \in client[i].marks => crossed \/ "late" \in client[i].marks

\* An instance that is to resume a command (needMoreFrame) finds that command,
\* and neither none nor another's, unless it put one of its own over it or the
\* instances' commands crossed.
PausedCommandKept == \A i \in Insts :
  /\ client[i].phase # "closed" /\ inst[i].needMoreFrame
  /\ ~crossed /\ "forgot" \notin client[i].marks
  => job # None /\ job.of = i
=============================================================================
