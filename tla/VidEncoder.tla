----------------------------- MODULE VidEncoder ------------------------------
(***************************************************************************)
(* An encoder handle of nx_video_api.c over the encoder instance that it   *)
(* opens in the VPU driver: the memory both share, the calls of a set-up   *)
(* that may each fail, and the position in the group of pictures that the  *)
(* library counts and the VPU knows nothing of.                            *)
(*                                                                         *)
(* A call of the library is one step: the ioctls in it run one after the   *)
(* other, and no other thread uses the handle.  A call that is refused or  *)
(* fails before it changes anything is a stuttering step.  The user calls  *)
(* EncodeFrame and JpegRunFrame once Init has returned VID_ERR_NONE, and   *)
(* ChangeParameter with or without.                                        *)
(***************************************************************************)
EXTENDS Integers, Sequences

CONSTANTS
  Gops,      \* the values of gopSize a user asks for
  MaxPics    \* a bound: pictures after an I picture

ASSUME EncParameters == Gops \subseteq Nat /\ MaxPics \in Nat \ {0}

VARIABLES
  hEnc,      \* the NX_VIDEO_ENC_INFO
  encInst,   \* the driver's side of it: the instance and the memory it knows
  encLost,   \* memory is allocated that no handle points to
  pics,      \* history: the pictures encoded
  encMarks   \* history: what befell the calls so far

encVars == <<hEnc, encInst, encLost, pics, encMarks>>

Codecs == {"avc", "jpeg"}      \* MPEG-4 and H.263 are set up like AVC
RateControls == {"off",        \* enableRC = 0
                 "chip",       \* the VPU controls the rate
                 "lib"}        \* the library does, in hRC

ReconBufs == {"hRefReconBuf0", "hRefReconBuf1", "hSubSampleBuf0", "hSubSampleBuf1"}
EncBufs == ReconBufs \cup {"hInstanceBuf", "hBitStreamBuf"}

\* What NX_VidEncInit allocates, in its order.
InitBufs(codec) ==
  IF codec = "jpeg" THEN <<"hBitStreamBuf">>
  ELSE <<"hRefReconBuf0", "hRefReconBuf1", "hSubSampleBuf0", "hSubSampleBuf1",
         "hBitStreamBuf">>

\* The memory behind an address the driver was given: none given, the handle's,
\* allocated but no longer the handle's, or given back to the allocator.
Backings == {"none", "own", "lost", "freed"}

EncHandle == [open : BOOLEAN,
              codec : Codecs,
              own : SUBSET EncBufs,      \* the handles that are not NULL
              isInitialized : BOOLEAN,
              hRC : BOOLEAN,             \* the library controls the rate
              gopSize : Nat,
              GopFrmCnt : Nat,
              ready : BOOLEAN]           \* Init has returned VID_ERR_NONE

EncInstance == [isInitialized : BOOLEAN,       \* SEQ_INIT was done
                frames : BOOLEAN,              \* SET_FRAME_BUF was done
                gopSize : Nat,                 \* CMD_ENC_SEQ_GOP_NUM
                mem : [EncBufs -> Backings]]

EncMarks == {"openFailed",  \* the ioctl of Open failed
             "halfway",     \* Init gave up after its allocations
             "retried",     \* Init was called again after that
             "starved",     \* an allocation of Init failed
             "noRC"}        \* NX_VidRateCtrlInit returned NULL

EncTypeOK ==
  /\ hEnc \in EncHandle
  /\ encInst \in EncInstance
  /\ encLost \in BOOLEAN
  /\ pics \in [since : -1 .. MaxPics, shaken : BOOLEAN]
  /\ encMarks \subseteq EncMarks

NoEnc == [open |-> FALSE, codec |-> "avc", own |-> {}, isInitialized |-> FALSE,
          hRC |-> FALSE, gopSize |-> 0, GopFrmCnt |-> 0, ready |-> FALSE]
NoEncInst == [isInitialized |-> FALSE, frames |-> FALSE, gopSize |-> 0,
              mem |-> [b \in EncBufs |-> "none"]]

\* since: pictures from the last I picture on, 0 when there was none among them,
\* -1 when there was no picture.  shaken: since the last I picture a call failed,
\* or the I picture that was due became a skipped one.
NoPics == [since |-> -1, shaken |-> FALSE]

EncStart ==
  /\ hEnc = NoEnc /\ encInst = NoEncInst
  /\ encLost = FALSE /\ pics = NoPics /\ encMarks = {}

-----------------------------------------------------------------------------
(* Memory.                                                                   *)

SetOf(s) == {s[i] : i \in DOMAIN s}

\* mutant: the second reconstructed picture is forgotten
LeftByFreeForgets(own) == own \cap {"hRefReconBuf1"}

\* What FreeEncoderMemory leaves: it frees hInstanceBuf too.
LeftByFree(own) == {}

\* What the driver's addresses are worth once the handle has freed, replaced or
\* passed on some buffers.
Freed(mem, bufs) ==
  [b \in EncBufs |-> IF b \in bufs /\ mem[b] = "own" THEN "freed" ELSE mem[b]]
Replaced(mem, bufs) ==
  [b \in EncBufs |-> IF b \in bufs /\ mem[b] = "own" THEN "lost" ELSE mem[b]]
Given(mem, bufs) == [b \in EncBufs |-> IF b \in bufs THEN "own" ELSE mem[b]]

-----------------------------------------------------------------------------
(* The calls of the library.                                                 *)

VidEncOpen(codec) ==
  /\ ~hEnc.open
  /\ pics' = NoPics
  /\ \/ /\ hEnc' = [NoEnc EXCEPT !.open = TRUE, !.codec = codec,
                                  !.own = {"hInstanceBuf"}]
        /\ encInst' = [NoEncInst EXCEPT !.mem["hInstanceBuf"] = "own"]
        /\ encLost' = FALSE /\ encMarks' = {}
     \/ \* the ioctl fails: the handle is freed, hInstanceBuf is not
        /\ hEnc' = NoEnc /\ encInst' = NoEncInst
        /\ encLost' = TRUE /\ encMarks' = {"openFailed"}

\* A call of Init leaves these marks.
Mark(marks) ==
  encMarks' = encMarks \cup marks
                \cup (IF "halfway" \in encMarks THEN {"retried"} ELSE {})

\* AllocateEncoderMemory, when the allocation after the first k fails: what it
\* wrote over is lost, all the rest is freed.
InitStarves(gop) ==
  \E k \in 0 .. Len(InitBufs(hEnc.codec)) - 1 :
    LET over == SetOf(SubSeq(InitBufs(hEnc.codec), 1, k + 1))
        had == (hEnc.own \ over) \cup SetOf(SubSeq(InitBufs(hEnc.codec), 1, k))
        left == LeftByFree(had)
    IN  /\ hEnc' = [hEnc EXCEPT !.gopSize = gop, !.own = left, !.ready = FALSE]
        /\ encInst' = [encInst EXCEPT !.mem = Freed(Replaced(@, over), had \ left)]
        /\ encLost' = (encLost \/ over \cap hEnc.own # {})
        /\ Mark({"starved"})

\* The handle after the allocations, under rate control rc.
Allocated(gop, rc) ==
  [hEnc EXCEPT !.gopSize = gop,
               !.own = @ \cup SetOf(InitBufs(hEnc.codec)),
               !.hRC = IF hEnc.codec = "jpeg" \/ rc = "off" THEN @ ELSE rc = "lib",
               !.ready = FALSE]

LosesOldSetUp(rc) ==
  \/ SetOf(InitBufs(hEnc.codec)) \cap hEnc.own # {}
  \/ hEnc.codec # "jpeg" /\ rc # "off" /\ hEnc.hRC

\* NX_VidRateCtrlInit returns NULL: Init leaves by ERROR_EXIT with the
\* VID_ERR_NONE that ret began with.
InitWithoutRC(gop) ==
  /\ hEnc.codec = "avc"
  /\ hEnc' = [Allocated(gop, "lib") EXCEPT !.hRC = FALSE, !.ready = TRUE]
  /\ encInst' = [encInst EXCEPT !.mem = Replaced(@, SetOf(InitBufs("avc")))]
  /\ encLost' = (encLost \/ LosesOldSetUp("lib"))
  /\ Mark({"halfway", "noRC"})

\* How many of the ioctls the driver carried out, of SET_SEQ_PARAM, SET_FRAME_BUF
\* and GET_HEADER; the call succeeds when no result of theirs was an error.
Stages(codec) == IF codec = "jpeg" THEN 0 .. 1 ELSE 0 .. 3

\* mutant: the result of SET_FRAME_BUF is not looked at
SucceedsUnframed(codec, done, told) ==
  IF codec = "jpeg" THEN told /\ done = 1 ELSE done = 1 \/ (told /\ done = 3)

Succeeds(codec, done, told) == told /\ done = (IF codec = "jpeg" THEN 1 ELSE 3)

\* VPU_EncSeqCommand passes on the size of a group if the VPU controls the rate.
SeqCommand(inst, gop, rc) ==
  [inst EXCEPT !.isInitialized = TRUE, !.gopSize = IF rc = "chip" THEN gop ELSE 0]

\* SET_SEQ_PARAM: the driver has the stream buffer, whether the command is then
\* carried out or not.
SeqParamSet(inst, gop, rc, done) ==
  LET given == [inst EXCEPT !.mem = Given(Replaced(@, SetOf(InitBufs(hEnc.codec))),
                                          {"hBitStreamBuf"})]
  IN  IF done THEN SeqCommand(given, gop, rc) ELSE given

\* SET_FRAME_BUF: the reconstructed pictures and the sub-sampled ones.
FrameBufSet(inst) ==
  [inst EXCEPT !.frames = TRUE, !.mem = Given(@, SetOf(InitBufs(hEnc.codec)))]

\* The driver's instance after some of the ioctls; GET_HEADER changes nothing of it.
InitInstance(gop, rc, done) ==
  LET seq == SeqParamSet(encInst, gop, rc, done > 0)
  IN  IF done > 1 THEN FrameBufSet(seq) ELSE seq

InitRuns(gop, rc) ==
  \E done \in Stages(hEnc.codec), told \in BOOLEAN :
    LET ok == Succeeds(hEnc.codec, done, told)
    IN  /\ hEnc' = [Allocated(gop, rc) EXCEPT !.isInitialized = ok, !.ready = ok]
        /\ encInst' = InitInstance(gop, rc, done)
        /\ encLost' = (encLost \/ LosesOldSetUp(rc))
        /\ Mark(IF ok THEN {} ELSE {"halfway"})

VidEncInit(gop, rc) ==
  /\ hEnc.open /\ ~hEnc.isInitialized
  /\ InitStarves(gop) \/ (rc = "lib" /\ InitWithoutRC(gop)) \/ InitRuns(gop, rc)
  /\ UNCHANGED pics

\* mutant: the I pictures are counted from the first, not from the last
GopPositionLate(forced) ==
  LET force == forced \/ hEnc.GopFrmCnt > hEnc.gopSize \/ hEnc.GopFrmCnt = 0
  IN  [force |-> force, count |-> IF force THEN 1 ELSE hEnc.GopFrmCnt + 1]

\* Does this picture begin a group, and GopFrmCnt after it.
GopPosition(forced) ==
  LET force == forced \/ hEnc.GopFrmCnt >= hEnc.gopSize \/ hEnc.GopFrmCnt = 0
  IN  [force |-> force, count |-> IF force THEN 1 ELSE hEnc.GopFrmCnt + 1]

\* The picture VPU_EncOneFrameCommand makes: a skip has precedence, and the VPU
\* begins groups of its own when it was given a size for them.
PictureTypes(skip, force) ==
  IF skip THEN {"skip"} ELSE IF force THEN {"I"}
  ELSE IF encInst.gopSize > 0 THEN {"I", "P"} ELSE {"P"}

AfterPicture(type, due) ==
  IF type = "I" THEN [since |-> 1, shaken |-> FALSE]
  ELSE [since |-> IF pics.since > 0 THEN pics.since + 1 ELSE 0,
        shaken |-> pics.shaken \/ due]

\* rcSkip: NX_VidRateCtrlGetFrameQp makes a skipped picture of it.  A picture
\* whose ioctl fails does not reach the stream.
VidEncEncodeFrame(forced, skipped, rcSkip) ==
  LET gop == GopPosition(forced)
  IN  /\ hEnc.open /\ hEnc.ready /\ hEnc.codec = "avc"
      /\ rcSkip => hEnc.hRC
      /\ hEnc' = [hEnc EXCEPT !.GopFrmCnt = gop.count]
      /\ \/ pics' = [pics EXCEPT !.shaken = TRUE]
         \/ /\ encInst.isInitialized
            /\ \E type \in PictureTypes(skipped \/ rcSkip, gop.force) :
                 /\ pics' = AfterPicture(type, gop.force)
                 /\ pics'.since <= MaxPics
      /\ UNCHANGED <<encInst, encLost, encMarks>>

\* VID_CHG_GOP: the library takes the new size before anyone agrees to it, and
\* keeps it from the VPU when the rate control is its own.
VidEncChangeParameter(gop) ==
  /\ hEnc.open
  /\ hEnc' = [hEnc EXCEPT !.gopSize = gop]
  /\ \/ UNCHANGED encInst
     \/ ~hEnc.hRC /\ encInst' = [encInst EXCEPT !.gopSize = gop]
  /\ UNCHANGED <<encLost, pics, encMarks>>

VidEncClose ==
  /\ hEnc.open
  /\ hEnc' = NoEnc /\ encInst' = NoEncInst /\ pics' = NoPics
  /\ encLost' = (encLost \/ LeftByFree(hEnc.own) # {})
  /\ UNCHANGED encMarks

EncNext ==
  \/ \E codec \in Codecs : VidEncOpen(codec)
  \/ \E gop \in Gops, rc \in RateControls : VidEncInit(gop, rc)
  \/ \E forced, skipped, rcSkip \in BOOLEAN :
       VidEncEncodeFrame(forced, skipped, rcSkip)
  \/ \E gop \in Gops : VidEncChangeParameter(gop)
  \/ VidEncClose

EncSpec == EncStart /\ [][EncNext]_encVars

-----------------------------------------------------------------------------
(* Properties.                                                               *)

(* Whatever calls are made and fail, and in whatever order, the VPU keeps no *)
(* address that was given back, and all memory is the handle's or free       *)
(* again.  The code does not keep to it in three cases: when an allocation   *)
(* of Init fails, FreeEncoderMemory takes hInstanceBuf from under an         *)
(* instance that is still open; Open leaks it when its ioctl fails; and Init *)
(* tried again leaks what the first attempt allocated.                       *)
EncMemoryAccounted ==
  /\ hEnc.open /\ "starved" \notin encMarks =>
       \A b \in EncBufs : encInst.mem[b] # "freed"
  /\ encLost => encMarks \cap {"openFailed", "retried"} # {}

(* When Init has reported success, the driver's instance has its sequence    *)
(* and its reference pictures, at their present addresses, unless the rate   *)
(* control could not be had, which Init reports as success.                  *)
ReadyMeansSetUp ==
  hEnc.ready /\ "noRC" \notin encMarks =>
    /\ hEnc.isInitialized /\ encInst.isInitialized
    /\ hEnc.codec = "avc" =>
         encInst.frames /\ \A b \in ReconBufs : encInst.mem[b] = "own"
    /\ encInst.mem["hBitStreamBuf"] = "own"

(* The stream begins with an I picture, and a picture that is none follows   *)
(* fewer than gopSize others since the last one, as long as no call failed   *)
(* and no I picture that was due was skipped: GopFrmCnt moves in these cases *)
(* too, and the group it begins then has no I picture.                       *)
KeyFrameInterval ==
  [][~pics'.shaken /\ pics' # pics /\ pics'.since \notin {-1, 1} =>
       pics.since \in 1 .. hEnc.gopSize - 1]_encVars

=============================================================================
