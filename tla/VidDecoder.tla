----------------------------- MODULE VidDecoder ------------------------------
(***************************************************************************)
(* A decoder handle of nx_video_api.c: the memory it shares with the       *)
(* decoder instance in the VPU driver, through set-up calls that may be    *)
(* repeated or fail, and the time stamps it keeps for the pictures that    *)
(* the VPU has decoded and not shown yet.                                  *)
(*                                                                         *)
(* A call of the library is one step, and no other thread uses the handle. *)
(* The stream ring and the lending of frames are the subject of module     *)
(* VpuDecoder; here the driver accepts a picture, fails, or carries the    *)
(* call out and fails to say so.  What changes nothing is left out.        *)
(***************************************************************************)
EXTENDS Integers, FiniteSets

CONSTANTS
  MaxFrames,   \* MAX_DEC_FRAME_BUFFERS
  MinFrames,   \* the numbers of frame buffers the VPU may ask for
  Seqs,        \* sequence headers
  Stamps,      \* time stamps
  Unset,       \* the time stamp -10
  hInstanceBuf, hBitStreamBuf, hColMvBuffer, hSliceBuffer, hUserDataBuffer

ASSUME DecParameters ==
  /\ MaxFrames \in Nat \ {0}
  /\ MinFrames \subseteq 1 .. MaxFrames
  /\ Unset \notin Stamps \cup Seqs \cup {"junk"}

\* The buffers besides the frames, hFrameBuffer[0] and up, are others.
ASSUME BufferNames ==
  /\ {hInstanceBuf, hBitStreamBuf} \cap {hColMvBuffer, hSliceBuffer, hUserDataBuffer} = {}
  /\ hUserDataBuffer \notin {hColMvBuffer, hSliceBuffer} /\ hColMvBuffer # hSliceBuffer
  /\ {hInstanceBuf, hBitStreamBuf, hColMvBuffer, hSliceBuffer, hUserDataBuffer}
       \cap (0 .. MaxFrames - 1) = {}

VARIABLES
  hDec,      \* the NX_VIDEO_DEC_INFO
  decMem,    \* the memory behind each address the driver was given
  stamp,     \* timeStamp[]
  minBuffers, \* the user's: what ParseVideoCfg told, or 0
  picture,   \* history: the picture in each frame buffer
  strays,    \* history: the stamps that stayed when the picture they are of went
  decLost,   \* memory is allocated that no handle points to
  decMarks   \* history: what befell the calls so far

decVars == <<hDec, decMem, stamp, minBuffers, picture, strays, decLost, decMarks>>

Standards == {"avc", "mpeg2"}   \* those that differ in what is allocated

FrameIdx == 0 .. MaxFrames - 1
SetUpBufs == {hColMvBuffer, hSliceBuffer}
OpenBufs == {hInstanceBuf, hBitStreamBuf}
DecBufs == SetUpBufs \cup OpenBufs \cup {hUserDataBuffer} \cup FrameIdx

\* The memory behind an address the driver was given: none given, the handle's,
\* the user's, allocated but no longer the handle's, given back.
DecBackings == {"none", "own", "user", "lost", "freed"}

DecHandle == [open : BOOLEAN,
              codecStd : Standards,
              own : SUBSET DecBufs,          \* what NX_AllocateMemory returned
              isInitialized : BOOLEAN,
              numFrameBuffers : Nat,
              useExternalFrameBuffer : BOOLEAN,
              pSeqData : Seqs \cup {Unset, "junk"}]  \* the header it has

DecMarks == {"parsed",    \* ParseVideoCfg was called
             "reparsed",  \* and called again
             "counted",   \* Init was called since ParseVideoCfg last succeeded
             "retried",   \* Init was called again in that state
             "halfway",   \* Init gave up after its allocations
             "starved",   \* an allocation of Init failed
             "switched",  \* Init was told of buffers after it had its own, or of
                          \* none after it had the user's
             "negative",  \* a picture's data was stored under a negative index
             "wild"}      \* memory the program does not have was used: the end

Cells == {"first", "second"}
Fields == [first : Stamps \cup {Unset}, second : Stamps \cup {Unset, "junk"}]
Pictures == [kind : {"none"}, time : {Unset}]
  \cup [kind : {"untold"}, time : {Unset}]   \* the library has not heard of it
  \cup [kind : {"frame", "field"}, time : Stamps]

DecTypeOK ==
  /\ hDec \in DecHandle
  /\ decMem \in [DecBufs -> DecBackings]
  /\ stamp \in [FrameIdx -> Fields]
  /\ minBuffers \in 0 .. MaxFrames
  /\ picture \in [FrameIdx -> Pictures]
  /\ strays \in [FrameIdx -> SUBSET Cells]
  /\ decLost \in BOOLEAN
  /\ decMarks \subseteq DecMarks

NoDec == [open |-> FALSE, codecStd |-> "avc", own |-> {}, isInitialized |-> FALSE,
          numFrameBuffers |-> 0, useExternalFrameBuffer |-> FALSE,
          pSeqData |-> Unset]
NoDecMem == [b \in DecBufs |-> "none"]
NoFields == [first |-> Unset, second |-> Unset]
NoPicture == [kind |-> "none", time |-> Unset]

\* DecoderFlushDispInfo.
Flushed == [f \in FrameIdx |-> NoFields]
NoPictures == [f \in FrameIdx |-> NoPicture]
NoneLeft == [f \in FrameIdx |-> {}]

\* The cells of a frame buffer that hold a stamp.
Stamped(fields) ==
  (IF fields.first = Unset THEN {} ELSE {"first"})
    \cup (IF fields.second = Unset THEN {} ELSE {"second"})

\* The driver has dropped all pictures, and their stamps stay where they are.
LeaveAll ==
  /\ picture' = NoPictures
  /\ strays' = [f \in FrameIdx |-> Stamped(stamp[f])]

DecStart ==
  /\ hDec = NoDec /\ decMem = NoDecMem
  /\ stamp = Flushed /\ picture = NoPictures /\ strays = NoneLeft
  /\ minBuffers = 0
  /\ decLost = FALSE /\ decMarks = {}

-----------------------------------------------------------------------------
(* Memory.                                                                   *)

DecFreed(mem, bufs) ==
  [b \in DecBufs |-> IF b \in bufs /\ mem[b] = "own" THEN "freed" ELSE mem[b]]
DecReplaced(mem, bufs) ==
  [b \in DecBufs |-> IF b \in bufs /\ mem[b] = "own" THEN "lost" ELSE mem[b]]

\* What AllocateDecoderMemory allocates, in its order.
FrameBufs(h) == IF h.useExternalFrameBuffer THEN {} ELSE 0 .. h.numFrameBuffers - 1
SetUp(h) ==
  FrameBufs(h) \cup {hColMvBuffer}
    \cup (IF h.codecStd = "avc" THEN {hSliceBuffer} ELSE {})
Before(h, buf) ==
  CASE buf = hColMvBuffer -> FrameBufs(h)
    [] buf = hSliceBuffer -> FrameBufs(h) \cup {hColMvBuffer}
    [] OTHER -> 0 .. buf - 1

\* mutant: the slice buffer is forgotten
LeftByDecFreeForgets(h, own) ==
  own \cap (IF h.useExternalFrameBuffer THEN FrameIdx \cup {hSliceBuffer}
            ELSE (FrameIdx \ FrameBufs(h)) \cup {hSliceBuffer})

\* What FreeDecoderMemory leaves: the frames, if some were the user's, and those
\* beyond the present number.
LeftByDecFree(h, own) == own \cap (FrameIdx \ FrameBufs(h))

-----------------------------------------------------------------------------
(* The calls of the library.                                                 *)

Usable == hDec.open /\ "wild" \notin decMarks

\* When it fails it frees what it has, and the handle with the device.
VidDecOpen(codecStd) ==
  /\ ~hDec.open
  /\ hDec' = [NoDec EXCEPT !.open = TRUE, !.codecStd = codecStd, !.own = OpenBufs]
  /\ decMem' = [b \in DecBufs |-> IF b \in OpenBufs THEN "own" ELSE "none"]
  /\ stamp' = Flushed /\ picture' = NoPictures /\ strays' = NoneLeft
  /\ minBuffers' = 0
  /\ decLost' = FALSE /\ decMarks' = {}

\* The marks that a call of ParseVideoCfg leaves.
Parsed == decMarks \cup {"parsed"}
            \cup (IF "parsed" \in decMarks THEN {"reparsed"} ELSE {})

\* A handle that is initialized refuses the header it has, and is set back by
\* another one.
VidDecParseVideoCfg(seq, userData) ==
  LET takes == userData /\ hDec.codecStd = "mpeg2"
      reset == [hDec EXCEPT !.isInitialized = FALSE,
                            !.own = IF takes THEN @ \cup {hUserDataBuffer} ELSE @]
      bufs == IF takes THEN {hUserDataBuffer} ELSE {}
  IN  /\ Usable
      /\ hDec.isInitialized => hDec.pSeqData # seq
      /\ decLost' = (decLost \/ hDec.own \cap bufs # {})
      /\ \/ \* hUserDataBuffer cannot be allocated
            /\ takes
            /\ hDec' = [reset EXCEPT !.own = @ \ bufs]
            /\ decMem' = DecReplaced(decMem, bufs)
            /\ decMarks' = Parsed
            /\ UNCHANGED <<minBuffers, picture, strays>>
         \/ \* the VPU needs more of it, or fails, or succeeds and is not heard
            /\ hDec' = reset
            /\ decMem' = [b \in DecBufs |-> IF b \in bufs THEN "own" ELSE decMem[b]]
            /\ LeaveAll \/ UNCHANGED <<picture, strays>>
            /\ decMarks' = Parsed
            /\ UNCHANGED minBuffers
         \/ \E minFrameBufCnt \in MinFrames :
              /\ hDec' = [reset EXCEPT !.numFrameBuffers = minFrameBufCnt,
                                       !.pSeqData = seq]
              /\ decMem' = [b \in DecBufs |-> IF b \in bufs THEN "own" ELSE decMem[b]]
              /\ LeaveAll
              /\ minBuffers' = minFrameBufCnt
              /\ decMarks' = Parsed \ {"counted"}
      /\ UNCHANGED stamp

\* numBuffers: how many buffers of the user's.  Once some were, none are allocated
\* again.
Registering(numBuffers, addNumBuffers) ==
  IF numBuffers > 0
  THEN [hDec EXCEPT !.numFrameBuffers = numBuffers, !.useExternalFrameBuffer = TRUE]
  ELSE [hDec EXCEPT !.numFrameBuffers = @ + addNumBuffers]

InitMarks(numBuffers) ==
  decMarks \cup {"counted"} \cup (IF "counted" \in decMarks THEN {"retried"} ELSE {})
    \cup (IF IF numBuffers = 0 THEN hDec.useExternalFrameBuffer
             ELSE hDec.own \cap FrameIdx # {}
          THEN {"switched"} ELSE {})

\* The loops run past the end of hFrameBuffer, or of the user's handles.
InitGoesWild(h, numBuffers) ==
  /\ IF h.useExternalFrameBuffer THEN numBuffers = 0 ELSE h.numFrameBuffers > MaxFrames
  /\ decMarks' = InitMarks(numBuffers) \cup {"wild"}
  /\ UNCHANGED <<hDec, decMem, decLost>>

DecInitStarves(h, numBuffers) == \E buf \in SetUp(h) :
  LET over == Before(h, buf) \cup {buf}
      had == (h.own \ {buf}) \cup Before(h, buf)
      left == LeftByDecFree(h, had)
  IN  /\ hDec' = [h EXCEPT !.own = left]
      /\ decMem' = DecFreed(DecReplaced(decMem, over), had \ left)
      /\ decLost' = (decLost \/ over \cap h.own # {})
      /\ decMarks' = InitMarks(numBuffers) \cup {"starved"}

\* REG_FRAME_BUF fails, with the VPU knowing the buffers or not, or succeeds.
DecInitRuns(h, numBuffers) == \E known, ok \in BOOLEAN :
  LET theirs == IF h.useExternalFrameBuffer THEN 0 .. h.numFrameBuffers - 1 ELSE {}
      over == SetUp(h) \cup theirs
      mem == DecReplaced(decMem, over)
  IN  /\ ok => known
      /\ hDec' = [h EXCEPT !.own = (@ \ theirs) \cup SetUp(h), !.isInitialized = ok]
      /\ decMem' = [b \in DecBufs |-> IF ~known \/ b \notin over THEN mem[b]
                                      ELSE IF b \in theirs THEN "user" ELSE "own"]
      /\ decLost' = (decLost \/ over \cap h.own # {})
      /\ decMarks' = InitMarks(numBuffers) \cup (IF ok THEN {} ELSE {"halfway"})

\* Before a header was parsed there is no size to allocate for.  (BoundEarly is
\* a bound: what is added here is forgotten when a header is parsed.)
BoundEarly(h) == h.numFrameBuffers <= MaxFrames
DecInitTooEarly(h) ==
  /\ hDec.pSeqData = Unset /\ BoundEarly(h)
  /\ hDec' = h
  /\ UNCHANGED <<decMem, decLost, decMarks>>

\* The user keeps to MAX_DEC_FRAME_BUFFERS, counting from what ParseVideoCfg told;
\* the handle counts from where the last attempt left it.
VidDecInit(numBuffers, addNumBuffers) ==
  LET h == Registering(numBuffers, addNumBuffers)
  IN  /\ Usable
      /\ ~hDec.isInitialized
      /\ minBuffers + addNumBuffers <= MaxFrames
      /\ \/ DecInitTooEarly(h)
         \/ hDec.pSeqData # Unset /\ InitGoesWild(h, numBuffers)
         \/ /\ hDec.pSeqData # Unset
            /\ h.useExternalFrameBuffer => numBuffers > 0
            /\ h.numFrameBuffers <= MaxFrames
            /\ DecInitStarves(h, numBuffers) \/ DecInitRuns(h, numBuffers)
      /\ UNCHANGED <<stamp, minBuffers, picture, strays>>

\* DecoderPutDispInfo.  A field's stamp would go to the first field if that had
\* none, but a stamp of 64 bits is compared with -10 in 32.
PutDispInfo(f, kind, time) ==
  IF kind = "frame" THEN [stamp EXCEPT ![f].first = time]
  ELSE [stamp EXCEPT ![f].second = time]

\* The cell it writes.
CellOf(kind) == IF kind = "frame" THEN "first" ELSE "second"

\* Under the index -1, picType[] is the last time stamp, and the second stamp is
\* seqDataSize.
PutDispInfoNegative == [stamp EXCEPT ![MaxFrames - 1].second = "junk"]

\* mutant: one stamp is set back when the picture has been shown
ShownKeepsSecond(stamps, f) == [stamps EXCEPT ![f].first = Unset]

\* Both stamps of a picture are returned with it, and set back.
Shown(stamps, f) == [stamps EXCEPT ![f] = NoFields]

Waiting(pictures) ==
  {f \in 0 .. hDec.numFrameBuffers - 1 : pictures[f].kind # "none"}
Decodable(kind) ==
  {f \in 0 .. hDec.numFrameBuffers - 1 :
     picture[f].kind = "none" \/ (kind = "field" /\ picture[f].kind = "field")}

\* The driver has decoded and perhaps shown a picture, and says so.
DecodeTold(time) == \E kind \in {"frame", "field"} :
  \E dec \in Decodable(kind) \cup {-1} :
    LET put == IF dec = -1 THEN PutDispInfoNegative ELSE PutDispInfo(dec, kind, time)
        now == IF dec = -1 THEN picture
               ELSE [picture EXCEPT ![dec] = [kind |-> kind, time |-> time]]
        cells == IF dec = -1 THEN strays ELSE [strays EXCEPT ![dec] = @ \ {CellOf(kind)}]
    IN  /\ \E disp \in Waiting(now) \cup {-1} :
             IF disp = -1 THEN stamp' = put /\ picture' = now /\ strays' = cells
             ELSE /\ stamp' = Shown(put, disp)
                  /\ picture' = [now EXCEPT ![disp] = NoPicture]
                  /\ strays' = [cells EXCEPT ![disp] = {}]
        /\ IF dec # -1 THEN UNCHANGED <<hDec, decMarks>>
           ELSE /\ hDec' = [hDec EXCEPT !.pSeqData = IF kind = "field" THEN "junk" ELSE @]
                /\ decMarks' = decMarks \cup {"negative"}

\* It has, and the call fails: the caller gets VID_ERR_NONE and no picture, and the
\* stamps of the one that was shown stay.
DecodeUntold ==
  /\ \E dec \in Decodable("frame") \cup {-1} :
       LET now == IF dec = -1 THEN picture
                  ELSE [picture EXCEPT ![dec] = [kind |-> "untold", time |-> Unset]]
       IN  \E disp \in Waiting(now) \cup {-1} :
             IF disp = -1 THEN picture' = now /\ UNCHANGED strays
             ELSE /\ picture' = [now EXCEPT ![disp] = NoPicture]
                  /\ strays' = [strays EXCEPT ![disp] = Stamped(stamp[disp])]
  /\ UNCHANGED <<hDec, stamp, decMarks>>

VidDecDecodeFrame(time) ==
  /\ Usable /\ hDec.isInitialized
  /\ DecodeTold(time) \/ DecodeUntold
  /\ UNCHANGED <<decMem, minBuffers, decLost>>

\* The driver has flushed; when it says it has not, the stamps are kept.
VidDecFlush ==
  /\ Usable /\ hDec.isInitialized
  /\ \/ stamp' = Flushed /\ picture' = NoPictures /\ strays' = NoneLeft
     \/ LeaveAll /\ UNCHANGED stamp
  /\ UNCHANGED <<hDec, decMem, minBuffers, decLost, decMarks>>

VidDecClose ==
  /\ Usable
  /\ hDec' = NoDec /\ decMem' = NoDecMem
  /\ stamp' = Flushed /\ picture' = NoPictures /\ strays' = NoneLeft
  /\ minBuffers' = 0
  /\ decLost' = (decLost \/ LeftByDecFree(hDec, hDec.own) # {})
  /\ UNCHANGED decMarks

DecNext ==
  \/ \E codecStd \in Standards : VidDecOpen(codecStd)
  \/ \E seq \in Seqs, userData \in BOOLEAN : VidDecParseVideoCfg(seq, userData)
  \/ \E numBuffers \in {0, MaxFrames}, addNumBuffers \in 0 .. 1 :
       VidDecInit(numBuffers, addNumBuffers)
  \/ \E time \in Stamps : VidDecDecodeFrame(time)
  \/ VidDecFlush
  \/ VidDecClose

DecSpec == DecStart /\ [][DecNext]_decVars

-----------------------------------------------------------------------------
(* Properties.                                                               *)

(* In whatever order a decoder is parsed for, set up, retried and closed,    *)
(* the VPU keeps no address that was given back, all memory is the handle's  *)
(* or free again, and no table is left, provided that the user adds no more  *)
(* buffers than there is room for over what ParseVideoCfg told.  The code    *)
(* does not keep to it when an allocation fails (the instance's own memory   *)
(* is freed under it); when the header is parsed again (the old buffers are  *)
(* leaked); when Init is called again, after a failed allocation or ioctl or *)
(* a second header that was refused, with no header accepted since:          *)
(* addNumBuffers is added again, and hFrameBuffer overrun; and when the user *)
(* passes buffers in one attempt and none in another.                        *)
DecMemoryAccounted ==
  /\ hDec.open /\ "starved" \notin decMarks =>
       \A b \in DecBufs : decMem[b] # "freed"
  /\ decLost => decMarks \cap {"reparsed", "retried"} # {}
  /\ "wild" \in decMarks => decMarks \cap {"retried", "switched"} # {}

\* The stamp a picture is to have in the cell for pictures of a kind.
Due(p, kind) == IF p.kind = kind THEN p.time ELSE Unset

(* Both stamps that will be returned with a picture, however late it is      *)
(* shown and whatever is decoded in between, are its own: of a frame the     *)
(* first is the one that came with its stream and the second is none, of a   *)
(* picture in fields it is the other way round (its first field's stamp is   *)
(* not kept), and of a picture the library never heard of both are none.     *)
(* Foreign is only a stamp that stayed when its own picture went: in a       *)
(* decode call or a flush that failed in the driver after it was carried     *)
(* out, or when another header was parsed; until one is written over it, it  *)
(* is returned with whatever is shown from that buffer.  The second stamp of *)
(* the last entry can be spoilt by an index of -1.                           *)
StampsKept == \A f \in FrameIdx :
  /\ "first" \notin strays[f] => stamp[f].first = Due(picture[f], "frame")
  /\ "second" \notin strays[f] =>
       \/ stamp[f].second = Due(picture[f], "field")
       \/ f = MaxFrames - 1 /\ "negative" \in decMarks

=============================================================================
