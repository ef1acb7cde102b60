--------------------------- MODULE VidCodecProofs ----------------------------
(***************************************************************************)
(* Theorems on the two halves of the codec library: an encoder handle      *)
(* (VidEncoder) and a decoder handle (VidDecoder).  Each has an inductive  *)
(* invariant that relates what a handle owns and where it is in its set-up *)
(* to what has befallen its calls.                                         *)
(***************************************************************************)
EXTENDS VidEncoder, VidDecoder, TLAPS

-----------------------------------------------------------------------------
(* VidEncoder.                                                               *)

(* A handle that is not set up, and none of whose attempts was abandoned,    *)
(* has nothing yet that Init allocates.                                      *)
FreshInv ==
  ~hEnc.isInitialized /\ "halfway" \notin encMarks =>
    hEnc.own \subseteq {"hInstanceBuf"} /\ ~hEnc.hRC

(* GopFrmCnt is ahead of the last I picture by no less than the pictures     *)
(* since, as the VPU may begin a group of its own.                           *)
GopInv == ~pics.shaken /\ hEnc.GopFrmCnt # 0 => pics.since \in 1 .. hEnc.GopFrmCnt

EncInv == EncTypeOK /\ FreshInv /\ EncMemoryAccounted /\ ReadyMeansSetUp /\ GopInv

\* No handle and no instance.
LEMMA NoEncTypes ==
  /\ NoEnc \in EncHandle
  /\ NoEnc.open = FALSE /\ NoEnc.ready = FALSE /\ NoEnc.own = {} /\ NoEnc.hRC = FALSE
  /\ NoEnc.GopFrmCnt = 0 /\ NoEnc.isInitialized = FALSE
  /\ NoEncInst \in EncInstance
  /\ \A b \in EncBufs : NoEncInst.mem[b] = "none"
  /\ NoPics \in [since : -1 .. MaxPics, shaken : BOOLEAN]
<1>1. NoEnc \in EncHandle
  BY DEF NoEnc, EncHandle, Codecs
<1>2. /\ NoEnc.open = FALSE /\ NoEnc.ready = FALSE /\ NoEnc.own = {} /\ NoEnc.hRC = FALSE
      /\ NoEnc.GopFrmCnt = 0 /\ NoEnc.isInitialized = FALSE
  BY DEF NoEnc
<1>3. NoEncInst \in EncInstance /\ \A b \in EncBufs : NoEncInst.mem[b] = "none"
  <2> DEFINE mem == [b \in EncBufs |-> "none"]
  <2>1. mem \in [EncBufs -> Backings] /\ \A b \in EncBufs : mem[b] = "none"
    BY DEF Backings
  <2>2. NoEncInst = [isInitialized |-> FALSE, frames |-> FALSE, gopSize |-> 0, mem |-> mem]
    BY DEF NoEncInst
  <2> HIDE DEF mem
  <2>3. QED
    BY <2>1, <2>2 DEF EncInstance
<1>4. NoPics \in [since : -1 .. MaxPics, shaken : BOOLEAN]
  BY EncParameters DEF NoPics
<1>5. QED
  BY <1>1, <1>2, <1>3, <1>4

LEMMA EncInit == EncStart => EncInv
<1> SUFFICES ASSUME EncStart PROVE EncInv
  OBVIOUS
<1>1. hEnc = NoEnc /\ encInst = NoEncInst /\ encLost = FALSE /\ pics = NoPics /\ encMarks = {}
  BY DEF EncStart
<1>2. EncTypeOK
  BY <1>1, NoEncTypes DEF EncTypeOK
<1>3. FreshInv /\ EncMemoryAccounted /\ ReadyMeansSetUp /\ GopInv
  BY <1>1, NoEncTypes DEF FreshInv, EncMemoryAccounted, ReadyMeansSetUp, GopInv
<1>4. QED
  BY <1>2, <1>3 DEF EncInv

\* The sets of buffers.
LEMMA InitBufsAre ==
  /\ SetOf(InitBufs("jpeg")) = {"hBitStreamBuf"}
  /\ SetOf(InitBufs("avc")) = ReconBufs \cup {"hBitStreamBuf"}
  /\ \A codec \in Codecs :
       /\ SetOf(InitBufs(codec)) \subseteq EncBufs \ {"hInstanceBuf"}
       /\ \A k \in 0 .. Len(InitBufs(codec)) :
            SetOf(SubSeq(InitBufs(codec), 1, k)) \subseteq SetOf(InitBufs(codec))
<1>1. SetOf(InitBufs("jpeg")) = {"hBitStreamBuf"}
  BY DEF SetOf, InitBufs
<1>2. SetOf(InitBufs("avc")) = ReconBufs \cup {"hBitStreamBuf"}
  <2> DEFINE s == <<"hRefReconBuf0", "hRefReconBuf1", "hSubSampleBuf0",
                    "hSubSampleBuf1", "hBitStreamBuf">>
  <2>1. InitBufs("avc") = s
    BY DEF InitBufs
  <2>2. DOMAIN s = 1 .. 5
    OBVIOUS
  <2>3. QED
    BY <2>1, <2>2 DEF SetOf, ReconBufs
<1>3. ASSUME NEW codec \in Codecs
      PROVE  SetOf(InitBufs(codec)) \subseteq EncBufs \ {"hInstanceBuf"}
  BY <1>1, <1>2 DEF Codecs, EncBufs, ReconBufs
<1>4. ASSUME NEW codec \in Codecs, NEW k \in 0 .. Len(InitBufs(codec))
      PROVE  SetOf(SubSeq(InitBufs(codec), 1, k)) \subseteq SetOf(InitBufs(codec))
  <2> DEFINE s == InitBufs(codec)
  <2>1. s \in Seq(EncBufs)
    <3>1. <<"hBitStreamBuf">> \in Seq(EncBufs)
      BY DEF EncBufs
    <3>2. <<"hRefReconBuf0", "hRefReconBuf1", "hSubSampleBuf0", "hSubSampleBuf1",
            "hBitStreamBuf">> \in Seq(EncBufs)
      BY DEF EncBufs, ReconBufs
    <3>3. QED
      BY <3>1, <3>2, Zenon DEF InitBufs
  <2> HIDE DEF s
  <2>2. k \in 0 .. Len(s)
    BY DEF s
  <2>3. DOMAIN SubSeq(s, 1, k) = 1 .. k /\ \A i \in 1 .. k : SubSeq(s, 1, k)[i] = s[i]
    BY <2>1, <2>2
  <2>4. SetOf(SubSeq(s, 1, k)) \subseteq SetOf(s)
    BY <2>1, <2>2, <2>3 DEF SetOf
  <2>5. QED
    BY <2>4 DEF s
<1>5. QED
  BY <1>1, <1>2, <1>3, <1>4

LEMMA EncOpens ==
  ASSUME EncInv, NEW codec \in Codecs, VidEncOpen(codec)
  PROVE  EncInv'
<1>1. pics' = NoPics
  BY DEF VidEncOpen
<1>2. CASE /\ hEnc' = [NoEnc EXCEPT !.open = TRUE, !.codec = codec,
                                     !.own = {"hInstanceBuf"}]
           /\ encInst' = [NoEncInst EXCEPT !.mem["hInstanceBuf"] = "own"]
           /\ encLost' = FALSE /\ encMarks' = {}
  <2>1. hEnc' \in EncHandle
    BY <1>2, NoEncTypes DEF EncHandle, EncBufs
  <2>2. /\ hEnc'.own = {"hInstanceBuf"} /\ hEnc'.hRC = FALSE /\ hEnc'.ready = FALSE
        /\ hEnc'.GopFrmCnt = 0
    BY <1>2, NoEncTypes DEF EncHandle
  <2>3. encInst' \in EncInstance
    BY <1>2, NoEncTypes DEF EncInstance, Backings
  <2>4. \A b \in EncBufs : encInst'.mem[b] # "freed"
    BY <1>2, NoEncTypes DEF EncInstance
  <2>5. EncTypeOK'
    BY <1>1, <1>2, <2>1, <2>3, NoEncTypes DEF EncTypeOK
  <2>6. FreshInv' /\ EncMemoryAccounted' /\ ReadyMeansSetUp' /\ GopInv'
    BY <1>2, <2>2, <2>4 DEF FreshInv, EncMemoryAccounted, ReadyMeansSetUp, GopInv
  <2>7. QED
    BY <2>5, <2>6 DEF EncInv
<1>3. CASE /\ hEnc' = NoEnc /\ encInst' = NoEncInst
           /\ encLost' = TRUE /\ encMarks' = {"openFailed"}
  <2>1. EncTypeOK'
    BY <1>1, <1>3, NoEncTypes DEF EncTypeOK, EncMarks
  <2>2. FreshInv' /\ EncMemoryAccounted' /\ ReadyMeansSetUp' /\ GopInv'
    BY <1>3, NoEncTypes DEF FreshInv, EncMemoryAccounted, ReadyMeansSetUp, GopInv
  <2>3. QED
    BY <2>1, <2>2 DEF EncInv
<1>4. QED
  BY <1>2, <1>3 DEF VidEncOpen

\* What the driver's addresses become keeps to its type, and is freed only by
\* FreeEncoderMemory.
LEMMA BackingsKept ==
  ASSUME NEW mem \in [EncBufs -> Backings], NEW bufs
  PROVE  /\ Freed(mem, bufs) \in [EncBufs -> Backings]
         /\ Replaced(mem, bufs) \in [EncBufs -> Backings]
         /\ Given(mem, bufs) \in [EncBufs -> Backings]
         /\ (\A b \in EncBufs : mem[b] # "freed") =>
              \A b \in EncBufs : Replaced(mem, bufs)[b] # "freed" /\ Given(mem, bufs)[b] # "freed"
         /\ \A b \in EncBufs : b \in bufs => Given(mem, bufs)[b] = "own"
BY DEF Freed, Replaced, Given, Backings

\* A loss of Init comes with the mark of an earlier attempt.
LEMMA InitLoses ==
  ASSUME EncInv, hEnc.open, ~hEnc.isInitialized, NEW lost \in BOOLEAN,
         lost => hEnc.hRC \/ SetOf(InitBufs(hEnc.codec)) \cap hEnc.own # {},
         encLost' = (encLost \/ lost), NEW marks \in SUBSET EncMarks, Mark(marks)
  PROVE  /\ encLost' \in BOOLEAN /\ encMarks' \subseteq EncMarks
         /\ encMarks \subseteq encMarks' /\ marks \subseteq encMarks'
         /\ encLost' => encMarks' \cap {"openFailed", "retried"} # {}
<1>1. EncTypeOK /\ FreshInv /\ EncMemoryAccounted /\ hEnc.codec \in Codecs
  BY DEF EncInv, EncTypeOK, EncHandle
<1>2. encMarks' = encMarks \cup marks
                    \cup (IF "halfway" \in encMarks THEN {"retried"} ELSE {})
  BY DEF Mark
<1>3. encLost' \in BOOLEAN /\ encMarks' \subseteq EncMarks
  BY <1>1, <1>2 DEF EncTypeOK, EncMarks
<1>4. CASE lost
  <2>1. "halfway" \in encMarks
    BY <1>1, <1>4, InitBufsAre DEF FreshInv
  <2>2. "retried" \in encMarks'
    BY <1>2, <2>1
  <2>3. QED
    BY <1>2, <1>3, <2>2
<1>5. CASE ~lost
  <2>1. encLost' => encLost
    BY <1>5
  <2>2. QED
    BY <1>1, <1>2, <1>3, <2>1 DEF EncMemoryAccounted
<1>6. QED
  BY <1>4, <1>5

LEMMA EncInitStarves ==
  ASSUME EncInv, NEW gop \in Gops, hEnc.open, ~hEnc.isInitialized, InitStarves(gop),
         UNCHANGED pics
  PROVE  EncInv'
<1>1. EncTypeOK /\ FreshInv /\ GopInv /\ hEnc \in EncHandle /\ encInst \in EncInstance
  BY DEF EncInv, EncTypeOK
<1> DEFINE bufs == InitBufs(hEnc.codec)
<1>2. PICK k \in 0 .. Len(bufs) - 1 :
        LET over == SetOf(SubSeq(bufs, 1, k + 1))
            had == (hEnc.own \ over) \cup SetOf(SubSeq(bufs, 1, k))
            left == LeftByFree(had)
        IN  /\ hEnc' = [hEnc EXCEPT !.gopSize = gop, !.own = left, !.ready = FALSE]
            /\ encInst' = [encInst EXCEPT !.mem = Freed(Replaced(@, over), had \ left)]
            /\ encLost' = (encLost \/ over \cap hEnc.own # {})
            /\ Mark({"starved"})
  BY DEF InitStarves
<1> DEFINE over == SetOf(SubSeq(bufs, 1, k + 1))
           had == (hEnc.own \ over) \cup SetOf(SubSeq(bufs, 1, k))
           lost == over \cap hEnc.own # {}
           mem == Freed(Replaced(encInst.mem, over), had)
<1>3. /\ hEnc' = [hEnc EXCEPT !.gopSize = gop, !.own = {}, !.ready = FALSE]
      /\ encInst' = [encInst EXCEPT !.mem = mem]
      /\ encLost' = (encLost \/ lost) /\ Mark({"starved"})
  BY <1>2 DEF LeftByFree
<1>4. hEnc.codec \in Codecs /\ bufs \in {InitBufs("jpeg"), InitBufs("avc")}
  BY <1>1 DEF EncHandle, Codecs
<1>5. Len(bufs) \in Nat
  BY <1>4 DEF InitBufs
<1>6. over \subseteq SetOf(bufs)
  BY <1>2, <1>4, <1>5, InitBufsAre
<1> HIDE DEF bufs
<1>7. mem \in [EncBufs -> Backings]
  BY <1>1, BackingsKept DEF EncInstance
<1> HIDE DEF over, had, mem
<1>8. /\ encLost' \in BOOLEAN /\ encMarks' \subseteq EncMarks
      /\ encMarks \subseteq encMarks' /\ "starved" \in encMarks'
      /\ encLost' => encMarks' \cap {"openFailed", "retried"} # {}
  <2>1. lost \in BOOLEAN /\ (lost => hEnc.hRC \/ SetOf(InitBufs(hEnc.codec)) \cap hEnc.own # {})
    BY <1>6 DEF bufs
  <2>2. {"starved"} \in SUBSET EncMarks
    BY DEF EncMarks
  <2> HIDE DEF lost
  <2>3. QED
    BY <1>3, <2>1, <2>2, InitLoses
<1>9. hEnc' \in EncHandle
  BY <1>1, <1>3, EncParameters DEF EncHandle
<1>10. /\ hEnc'.own = {} /\ hEnc'.ready = FALSE /\ hEnc'.hRC = hEnc.hRC
       /\ hEnc'.isInitialized = hEnc.isInitialized /\ hEnc'.GopFrmCnt = hEnc.GopFrmCnt
  BY <1>1, <1>3 DEF EncHandle
<1>11. encInst' \in EncInstance
  BY <1>1, <1>3, <1>7 DEF EncInstance
<1>12. EncTypeOK'
  BY <1>1, <1>8, <1>9, <1>11 DEF EncTypeOK
<1>13. FreshInv' /\ EncMemoryAccounted' /\ ReadyMeansSetUp' /\ GopInv'
  BY <1>1, <1>8, <1>10 DEF FreshInv, EncMemoryAccounted, ReadyMeansSetUp, GopInv
<1>14. QED
  BY <1>12, <1>13 DEF EncInv

\* The handle after the allocations, in its parts.
LEMMA AllocatedIs ==
  ASSUME EncInv, NEW gop \in Gops, NEW rc \in RateControls
  PROVE  LET h == Allocated(gop, rc)
         IN  /\ h \in EncHandle
             /\ h.open = hEnc.open /\ h.codec = hEnc.codec
             /\ h.isInitialized = hEnc.isInitialized /\ h.GopFrmCnt = hEnc.GopFrmCnt
<1> DEFINE own == hEnc.own \cup SetOf(InitBufs(hEnc.codec))
           hRC == IF hEnc.codec = "jpeg" \/ rc = "off" THEN hEnc.hRC ELSE rc = "lib"
<1>1. hEnc \in EncHandle /\ hEnc.codec \in Codecs /\ hEnc.own \subseteq EncBufs
      /\ gop \in Nat
  BY EncParameters DEF EncInv, EncTypeOK, EncHandle
<1>2. own \subseteq EncBufs
  BY <1>1, InitBufsAre
<1>3. hRC \in BOOLEAN
  BY <1>1 DEF EncHandle
<1>4. Allocated(gop, rc) = [hEnc EXCEPT !.gopSize = gop, !.own = own, !.hRC = hRC,
                                        !.ready = FALSE]
  BY DEF Allocated
<1> HIDE DEF own, hRC
<1>5. QED
  BY <1>1, <1>2, <1>3, <1>4 DEF EncHandle

\* Init loses the buffers of an earlier attempt, or its rate control.
LEMMA LosesIs ==
  ASSUME EncInv, NEW rc \in RateControls
  PROVE  /\ LosesOldSetUp(rc) \in BOOLEAN
         /\ LosesOldSetUp(rc) =>
              hEnc.hRC \/ SetOf(InitBufs(hEnc.codec)) \cap hEnc.own # {}
<1>1. hEnc.hRC \in BOOLEAN
  BY DEF EncInv, EncTypeOK, EncHandle
<1>2. QED
  BY <1>1 DEF LosesOldSetUp

LEMMA EncInitWithoutRC ==
  ASSUME EncInv, NEW gop \in Gops, hEnc.open, ~hEnc.isInitialized, InitWithoutRC(gop),
         UNCHANGED pics
  PROVE  EncInv'
<1> DEFINE h == Allocated(gop, "lib")
           mem == Replaced(encInst.mem, SetOf(InitBufs("avc")))
           lost == LosesOldSetUp("lib")
<1>1. /\ EncTypeOK /\ EncMemoryAccounted /\ GopInv
      /\ hEnc \in EncHandle /\ encInst \in EncInstance
  BY DEF EncInv, EncTypeOK
<1>2. /\ hEnc' = [h EXCEPT !.hRC = FALSE, !.ready = TRUE]
      /\ encInst' = [encInst EXCEPT !.mem = mem]
      /\ encLost' = (encLost \/ lost) /\ Mark({"halfway", "noRC"})
  BY DEF InitWithoutRC
<1>3. "lib" \in RateControls
  BY DEF RateControls
<1>4. h \in EncHandle /\ h.GopFrmCnt = hEnc.GopFrmCnt
  BY <1>3, AllocatedIs
<1>5. /\ mem \in [EncBufs -> Backings]
      /\ (\A b \in EncBufs : encInst.mem[b] # "freed") => \A b \in EncBufs : mem[b] # "freed"
  BY <1>1, BackingsKept DEF EncInstance
<1>6. /\ encLost' \in BOOLEAN /\ encMarks' \subseteq EncMarks
      /\ encMarks \subseteq encMarks' /\ {"halfway", "noRC"} \subseteq encMarks'
      /\ encLost' => encMarks' \cap {"openFailed", "retried"} # {}
  <2>1. {"halfway", "noRC"} \in SUBSET EncMarks
    BY DEF EncMarks
  <2>2. lost \in BOOLEAN /\ (lost => hEnc.hRC \/ SetOf(InitBufs(hEnc.codec)) \cap hEnc.own # {})
    BY <1>3, LosesIs
  <2> HIDE DEF lost
  <2>3. QED
    BY <1>2, <2>1, <2>2, InitLoses
<1> HIDE DEF h, mem, lost
<1>7. hEnc' \in EncHandle
  BY <1>2, <1>4 DEF EncHandle
<1>8. hEnc'.GopFrmCnt = hEnc.GopFrmCnt
  BY <1>2, <1>4 DEF EncHandle
<1>9. encInst' \in EncInstance /\ encInst'.mem = mem
  BY <1>1, <1>2, <1>5 DEF EncInstance
<1>10. EncTypeOK'
  BY <1>1, <1>6, <1>7, <1>9 DEF EncTypeOK
<1>11. EncMemoryAccounted'
  <2>1. "starved" \notin encMarks' /\ hEnc'.open => hEnc.open /\ "starved" \notin encMarks
    BY <1>6
  <2>2. QED
    BY <1>1, <1>5, <1>6, <1>9, <2>1 DEF EncMemoryAccounted
<1>12. FreshInv' /\ ReadyMeansSetUp' /\ GopInv'
  BY <1>1, <1>6, <1>8 DEF FreshInv, ReadyMeansSetUp, GopInv
<1>13. QED
  BY <1>10, <1>11, <1>12 DEF EncInv

\* The instance after the ioctls of Init that were carried out.
LEMMA InstanceIs ==
  ASSUME EncInv, NEW gop \in Gops, NEW rc \in RateControls, NEW done \in Stages(hEnc.codec)
  PROVE  LET i == InitInstance(gop, rc, done)
         IN  /\ i \in EncInstance
             /\ (\A b \in EncBufs : encInst.mem[b] # "freed") =>
                  \A b \in EncBufs : i.mem[b] # "freed"
             /\ i.mem["hBitStreamBuf"] = "own"
             /\ done > 0 => i.isInitialized = TRUE
             /\ done > 1 => i.frames = TRUE /\ \A b \in SetOf(InitBufs(hEnc.codec)) :
                                                  i.mem[b] = "own"
<1> DEFINE bufs == SetOf(InitBufs(hEnc.codec))
           m1 == Replaced(encInst.mem, bufs)
           m2 == Given(m1, {"hBitStreamBuf"})
           m3 == Given(m2, bufs)
           size == IF rc = "chip" THEN gop ELSE 0
           given == [encInst EXCEPT !.mem = m2]
           seq == SeqParamSet(encInst, gop, rc, done > 0)
<1>1. /\ encInst \in EncInstance /\ hEnc.codec \in Codecs /\ encInst.mem \in [EncBufs -> Backings]
      /\ gop \in Nat /\ size \in Nat /\ done \in 0 .. 3
  BY EncParameters DEF EncInv, EncTypeOK, EncHandle, EncInstance, Stages
<1>2. bufs \subseteq EncBufs /\ "hBitStreamBuf" \in bufs /\ "hBitStreamBuf" \in EncBufs
  BY <1>1, InitBufsAre DEF Codecs, EncBufs
<1>3. /\ m1 \in [EncBufs -> Backings]
      /\ (\A b \in EncBufs : encInst.mem[b] # "freed") => \A b \in EncBufs : m1[b] # "freed"
  BY <1>1, BackingsKept
<1> HIDE DEF m1
<1>4. /\ m2 \in [EncBufs -> Backings] /\ m2["hBitStreamBuf"] = "own"
      /\ (\A b \in EncBufs : m1[b] # "freed") => \A b \in EncBufs : m2[b] # "freed"
  BY <1>2, <1>3, BackingsKept
<1> HIDE DEF m2
<1>5. /\ m3 \in [EncBufs -> Backings] /\ \A b \in bufs : m3[b] = "own"
      /\ (\A b \in EncBufs : m2[b] # "freed") => \A b \in EncBufs : m3[b] # "freed"
  BY <1>2, <1>4, BackingsKept
<1> HIDE DEF m3, size
<1>6. given \in EncInstance /\ given.mem = m2
  BY <1>1, <1>4 DEF EncInstance
<1>7. seq = IF done > 0 THEN [given EXCEPT !.isInitialized = TRUE, !.gopSize = size] ELSE given
  BY DEF SeqParamSet, SeqCommand, m1, m2, size
<1> HIDE DEF given
<1>8. /\ seq \in EncInstance /\ seq.mem = m2
      /\ done > 0 => seq.isInitialized = TRUE
  <2>1. CASE done > 0
    <3>1. seq = [given EXCEPT !.isInitialized = TRUE, !.gopSize = size]
      BY <1>7, <2>1
    <3>2. QED
      BY <1>1, <1>6, <3>1 DEF EncInstance
  <2>2. CASE ~(done > 0)
    BY <1>6, <1>7, <2>2
  <2>3. QED
    BY <2>1, <2>2
<1> HIDE DEF seq
<1>9. InitInstance(gop, rc, done) =
        IF done > 1 THEN [seq EXCEPT !.frames = TRUE, !.mem = m3] ELSE seq
  <2>1. FrameBufSet(seq) = [seq EXCEPT !.frames = TRUE, !.mem = m3]
    BY <1>8 DEF FrameBufSet, m3
  <2>2. QED
    BY <2>1 DEF InitInstance, seq
<1>10. CASE done > 1
  <2> DEFINE i == [seq EXCEPT !.frames = TRUE, !.mem = m3]
  <2>1. InitInstance(gop, rc, done) = i
    BY <1>9, <1>10
  <2>2. i \in EncInstance
    BY <1>5, <1>8 DEF EncInstance
  <2>3. i.mem = m3 /\ i.frames = TRUE /\ i.isInitialized = seq.isInitialized
    BY <1>8 DEF EncInstance
  <2> HIDE DEF i
  <2>4. QED
    BY <1>1, <1>2, <1>3, <1>4, <1>5, <1>8, <1>10, <2>1, <2>2, <2>3
<1>11. CASE ~(done > 1)
  BY <1>3, <1>4, <1>8, <1>9, <1>11
<1>12. QED
  BY <1>10, <1>11

LEMMA EncInitRuns ==
  ASSUME EncInv, NEW gop \in Gops, NEW rc \in RateControls, hEnc.open,
         ~hEnc.isInitialized, InitRuns(gop, rc), UNCHANGED pics
  PROVE  EncInv'
<1>1. /\ EncTypeOK /\ FreshInv /\ EncMemoryAccounted /\ GopInv
      /\ hEnc \in EncHandle /\ encInst \in EncInstance /\ hEnc.codec \in Codecs
  BY DEF EncInv, EncTypeOK, EncHandle
<1>2. PICK done \in Stages(hEnc.codec), told \in BOOLEAN :
        LET ok == Succeeds(hEnc.codec, done, told)
        IN  /\ hEnc' = [Allocated(gop, rc) EXCEPT !.isInitialized = ok, !.ready = ok]
            /\ encInst' = InitInstance(gop, rc, done)
            /\ encLost' = (encLost \/ LosesOldSetUp(rc))
            /\ Mark(IF ok THEN {} ELSE {"halfway"})
  BY DEF InitRuns
<1> DEFINE ok == Succeeds(hEnc.codec, done, told)
           h == Allocated(gop, rc)
           lost == LosesOldSetUp(rc)
           marks == IF ok THEN {} ELSE {"halfway"}
<1>3. ok \in BOOLEAN /\ (ok => done = (IF hEnc.codec = "jpeg" THEN 1 ELSE 3))
  BY <1>2 DEF Succeeds
<1>4. h \in EncHandle /\ h.codec = hEnc.codec /\ h.GopFrmCnt = hEnc.GopFrmCnt
  BY AllocatedIs
<1>5. /\ encLost' \in BOOLEAN /\ encMarks' \subseteq EncMarks
      /\ encMarks \subseteq encMarks' /\ (~ok => "halfway" \in encMarks')
      /\ encLost' => encMarks' \cap {"openFailed", "retried"} # {}
  <2>1. marks \in SUBSET EncMarks
    BY DEF EncMarks
  <2>2. lost \in BOOLEAN /\ (lost => hEnc.hRC \/ SetOf(InitBufs(hEnc.codec)) \cap hEnc.own # {})
    BY LosesIs
  <2>3. encLost' = (encLost \/ lost) /\ Mark(marks)
    BY <1>2
  <2>4. ~ok => "halfway" \in marks
    OBVIOUS
  <2> HIDE DEF lost, marks
  <2>5. QED
    BY <2>1, <2>2, <2>3, <2>4, InitLoses
<1> HIDE DEF ok, h
<1>6. hEnc' = [h EXCEPT !.isInitialized = ok, !.ready = ok]
  BY <1>2 DEF ok, h
<1>7. hEnc' \in EncHandle
  BY <1>3, <1>4, <1>6 DEF EncHandle
<1>8. /\ hEnc'.isInitialized = ok /\ hEnc'.ready = ok
      /\ hEnc'.codec = hEnc.codec /\ hEnc'.GopFrmCnt = hEnc.GopFrmCnt
  BY <1>4, <1>6 DEF EncHandle
<1> DEFINE i == InitInstance(gop, rc, done)
<1>9. /\ i \in EncInstance
      /\ (\A b \in EncBufs : encInst.mem[b] # "freed") => \A b \in EncBufs : i.mem[b] # "freed"
      /\ i.mem["hBitStreamBuf"] = "own"
      /\ done > 0 => i.isInitialized = TRUE
      /\ done > 1 => i.frames = TRUE /\ \A b \in SetOf(InitBufs(hEnc.codec)) : i.mem[b] = "own"
  BY InstanceIs
<1>10. encInst' = i
  BY <1>2
<1> HIDE DEF i
<1>11. EncTypeOK'
  BY <1>1, <1>5, <1>7, <1>9, <1>10 DEF EncTypeOK
<1>12. EncMemoryAccounted'
  BY <1>1, <1>5, <1>9, <1>10 DEF EncMemoryAccounted
<1>13. FreshInv' /\ GopInv'
  BY <1>1, <1>5, <1>8 DEF FreshInv, GopInv
<1>14. ReadyMeansSetUp'
  <2> SUFFICES ASSUME ok
               PROVE  /\ i.isInitialized /\ i.mem["hBitStreamBuf"] = "own"
                      /\ hEnc.codec = "avc" => i.frames /\ \A b \in ReconBufs : i.mem[b] = "own"
    BY <1>8, <1>10 DEF ReadyMeansSetUp
  <2>1. done = (IF hEnc.codec = "jpeg" THEN 1 ELSE 3)
    BY <1>3
  <2>2. done > 0 /\ (hEnc.codec = "avc" => done > 1)
    BY <2>1
  <2>3. i.isInitialized /\ i.mem["hBitStreamBuf"] = "own"
    BY <1>9, <2>2
  <2>4. ASSUME hEnc.codec = "avc" PROVE i.frames /\ \A b \in ReconBufs : i.mem[b] = "own"
    BY <1>9, <2>2, <2>4, InitBufsAre
  <2>5. QED
    BY <2>3, <2>4
<1>15. QED
  BY <1>11, <1>12, <1>13, <1>14 DEF EncInv

\* What a picture does to the position in the group; and that one which begins none
\* is near the last that did.
LEMMA EncEncodes ==
  ASSUME EncInv, NEW forced \in BOOLEAN, NEW skipped \in BOOLEAN, NEW rcSkip \in BOOLEAN,
         VidEncEncodeFrame(forced, skipped, rcSkip)
  PROVE  /\ EncInv'
         /\ ~pics'.shaken /\ pics' # pics /\ pics'.since \notin {-1, 1} =>
              pics.since \in 1 .. hEnc.gopSize - 1
<1> DEFINE gop == GopPosition(forced)
           n == hEnc.GopFrmCnt
           force == forced \/ n >= hEnc.gopSize \/ n = 0
           count == IF force THEN 1 ELSE n + 1
<1>1. /\ EncTypeOK /\ GopInv /\ FreshInv /\ EncMemoryAccounted /\ ReadyMeansSetUp
      /\ hEnc \in EncHandle /\ n \in Nat /\ hEnc.gopSize \in Nat
      /\ pics \in [since : -1 .. MaxPics, shaken : BOOLEAN]
      /\ MaxPics \in Nat
  BY EncParameters DEF EncInv, EncTypeOK, EncHandle
<1>2. gop.force = force /\ gop.count = count /\ force \in BOOLEAN
  BY DEF GopPosition
<1>3. count \in Nat /\ count # 0
  BY <1>1
<1>4. /\ hEnc' = [hEnc EXCEPT !.GopFrmCnt = count]
      /\ UNCHANGED <<encInst, encLost, encMarks>>
  BY <1>2 DEF VidEncEncodeFrame
<1> HIDE DEF count, force
<1>5. hEnc' \in EncHandle
  BY <1>1, <1>3, <1>4 DEF EncHandle
<1>6. /\ hEnc'.GopFrmCnt = count /\ hEnc'.open = hEnc.open /\ hEnc'.ready = hEnc.ready
      /\ hEnc'.own = hEnc.own /\ hEnc'.codec = hEnc.codec
  BY <1>1, <1>4 DEF EncHandle
<1>7. hEnc'.isInitialized = hEnc.isInitialized /\ hEnc'.hRC = hEnc.hRC
  BY <1>1, <1>4 DEF EncHandle
<1>8. FreshInv' /\ EncMemoryAccounted' /\ ReadyMeansSetUp'
  BY <1>1, <1>4, <1>6, <1>7 DEF FreshInv, EncMemoryAccounted, ReadyMeansSetUp
<1> DEFINE Near == ~pics'.shaken /\ pics' # pics /\ pics'.since \notin {-1, 1} =>
                     pics.since \in 1 .. hEnc.gopSize - 1
<1>9. CASE pics' = [pics EXCEPT !.shaken = TRUE]
  <2>1. pics' \in [since : -1 .. MaxPics, shaken : BOOLEAN]
    BY <1>1, <1>9
  <2>2. pics'.shaken = TRUE
    BY <1>1, <1>9
  <2>3. EncTypeOK'
    BY <1>1, <1>4, <1>5, <2>1 DEF EncTypeOK
  <2>4. GopInv' /\ Near
    BY <2>2 DEF GopInv
  <2>5. QED
    BY <1>8, <2>3, <2>4 DEF EncInv
<1>10. CASE \E type \in PictureTypes(skipped \/ rcSkip, gop.force) :
              pics' = AfterPicture(type, gop.force) /\ pics'.since <= MaxPics
  <2>1. PICK type \in PictureTypes(skipped \/ rcSkip, force) :
          pics' = AfterPicture(type, force) /\ pics'.since <= MaxPics
    BY <1>2, <1>10
  <2>2. CASE type = "I"
    <3>1. pics' = [since |-> 1, shaken |-> FALSE]
      BY <2>1, <2>2 DEF AfterPicture
    <3>2. pics' \in [since : -1 .. MaxPics, shaken : BOOLEAN] /\ pics'.since = 1
      BY <1>1, <2>1, <3>1
    <3>3. EncTypeOK'
      BY <1>1, <1>4, <1>5, <3>2 DEF EncTypeOK
    <3>4. GopInv' /\ Near
      BY <1>3, <1>6, <3>2 DEF GopInv
    <3>5. QED
      BY <1>8, <3>3, <3>4 DEF EncInv
  <2>3. CASE type # "I"
    <3> DEFINE since == IF pics.since > 0 THEN pics.since + 1 ELSE 0
               shaken == pics.shaken \/ force
    <3>1. pics' = [since |-> since, shaken |-> shaken]
      BY <2>1, <2>3 DEF AfterPicture
    <3>2. since \in Nat /\ shaken \in BOOLEAN /\ pics.since \in Int
      BY <1>1, <1>2
    <3> HIDE DEF since, shaken
    <3>3. pics'.since = since /\ pics'.shaken = shaken
      BY <3>1
    <3>4. since <= MaxPics
      BY <2>1, <3>3
    <3>5. pics' \in [since : -1 .. MaxPics, shaken : BOOLEAN]
      BY <1>1, <3>1, <3>2, <3>4
    <3>6. EncTypeOK'
      BY <1>1, <1>4, <1>5, <3>5 DEF EncTypeOK
    <3>7. ASSUME ~shaken
          PROVE  since \in 1 .. count /\ pics.since \in 1 .. hEnc.gopSize - 1
      <4>1. ~pics.shaken /\ ~force
        BY <3>7 DEF shaken
      <4>2. n # 0 /\ n < hEnc.gopSize /\ count = n + 1
        BY <1>1, <4>1 DEF force, count
      <4>3. pics.since \in 1 .. n
        BY <1>1, <4>1, <4>2 DEF GopInv
      <4>4. since = pics.since + 1
        BY <4>3 DEF since
      <4>5. QED
        BY <1>1, <4>2, <4>3, <4>4
    <3>8. GopInv' /\ Near
      BY <1>6, <3>3, <3>7 DEF GopInv
    <3>9. QED
      BY <1>8, <3>6, <3>8 DEF EncInv
  <2>4. QED
    BY <2>2, <2>3
<1>11. QED
  BY <1>9, <1>10 DEF VidEncEncodeFrame

LEMMA EncChanges ==
  ASSUME EncInv, NEW gop \in Gops, VidEncChangeParameter(gop)
  PROVE  EncInv'
<1>1. /\ EncTypeOK /\ GopInv /\ FreshInv /\ EncMemoryAccounted /\ ReadyMeansSetUp
      /\ hEnc \in EncHandle /\ encInst \in EncInstance /\ gop \in Nat
      /\ hEnc' = [hEnc EXCEPT !.gopSize = gop]
      /\ encInst' = encInst \/ encInst' = [encInst EXCEPT !.gopSize = gop]
      /\ UNCHANGED <<encLost, pics, encMarks>>
  BY EncParameters DEF EncInv, EncTypeOK, VidEncChangeParameter
<1>2. hEnc' \in EncHandle
  BY <1>1 DEF EncHandle
<1>3. /\ hEnc'.GopFrmCnt = hEnc.GopFrmCnt /\ hEnc'.open = hEnc.open
      /\ hEnc'.ready = hEnc.ready /\ hEnc'.own = hEnc.own /\ hEnc'.codec = hEnc.codec
  BY <1>1 DEF EncHandle
<1>4. hEnc'.isInitialized = hEnc.isInitialized /\ hEnc'.hRC = hEnc.hRC
  BY <1>1 DEF EncHandle
<1>5. encInst' \in EncInstance
  BY <1>1 DEF EncInstance
<1>6. /\ encInst'.mem = encInst.mem /\ encInst'.isInitialized = encInst.isInitialized
      /\ encInst'.frames = encInst.frames
  BY <1>1 DEF EncInstance
<1>7. EncTypeOK'
  BY <1>1, <1>2, <1>5 DEF EncTypeOK
<1>8. FreshInv' /\ EncMemoryAccounted' /\ ReadyMeansSetUp' /\ GopInv'
  BY <1>1, <1>3, <1>4, <1>6
     DEF FreshInv, EncMemoryAccounted, ReadyMeansSetUp, GopInv
<1>9. QED
  BY <1>7, <1>8 DEF EncInv

LEMMA EncCloses == ASSUME EncInv, VidEncClose PROVE EncInv'
<1>1. /\ EncTypeOK /\ EncMemoryAccounted
      /\ hEnc' = NoEnc /\ encInst' = NoEncInst /\ pics' = NoPics
      /\ encLost' = encLost /\ encMarks' = encMarks
  BY DEF EncInv, EncTypeOK, VidEncClose, LeftByFree
<1>2. EncTypeOK'
  BY <1>1, NoEncTypes DEF EncTypeOK
<1>3. FreshInv' /\ EncMemoryAccounted' /\ ReadyMeansSetUp' /\ GopInv'
  BY <1>1, NoEncTypes DEF FreshInv, EncMemoryAccounted, ReadyMeansSetUp, GopInv
<1>4. QED
  BY <1>2, <1>3 DEF EncInv

LEMMA EncStep ==
  EncInv /\ [EncNext]_encVars =>
    /\ EncInv'
    /\ ~pics'.shaken /\ pics' # pics /\ pics'.since \notin {-1, 1} =>
         pics.since \in 1 .. hEnc.gopSize - 1
<1> SUFFICES ASSUME EncInv, [EncNext]_encVars
             PROVE  /\ EncInv'
                    /\ ~pics'.shaken /\ pics' # pics /\ pics'.since \notin {-1, 1} =>
                         pics.since \in 1 .. hEnc.gopSize - 1
  OBVIOUS
<1>1. CASE \E codec \in Codecs : VidEncOpen(codec)
  <2>1. pics' = NoPics
    BY <1>1 DEF VidEncOpen
  <2>2. pics'.since = -1
    BY <2>1 DEF NoPics
  <2>3. QED
    BY <1>1, <2>2, EncOpens
<1>2. ASSUME NEW gop \in Gops, NEW rc \in RateControls, VidEncInit(gop, rc)
      PROVE  EncInv' /\ pics' = pics
  BY <1>2, EncInitStarves, EncInitWithoutRC, EncInitRuns DEF VidEncInit
<1>3. CASE \E forced, skipped, rcSkip \in BOOLEAN :
             VidEncEncodeFrame(forced, skipped, rcSkip)
  BY <1>3, EncEncodes
<1>4. CASE \E gop \in Gops : VidEncChangeParameter(gop)
  BY <1>4, EncChanges DEF VidEncChangeParameter
<1>5. CASE VidEncClose
  <2>1. pics' = NoPics
    BY <1>5 DEF VidEncClose
  <2>2. pics'.since = -1
    BY <2>1 DEF NoPics
  <2>3. QED
    BY <1>5, <2>2, EncCloses
<1>6. CASE UNCHANGED encVars
  BY <1>6 DEF encVars, EncInv, EncTypeOK, FreshInv, EncMemoryAccounted, ReadyMeansSetUp,
     GopInv
<1>7. QED
  BY <1>1, <1>2, <1>3, <1>4, <1>5, <1>6 DEF EncNext

LEMMA EncAlways == EncSpec => []EncInv
<1>1. EncInv /\ [EncNext]_encVars => EncInv'
  BY EncStep
<1>2. QED
  BY <1>1, EncInit, PTL DEF EncSpec

(* Every variable of an encoder handle keeps to its type.                    *)
THEOREM EncoderTypeCorrect == EncSpec => []EncTypeOK
<1>1. EncInv => EncTypeOK
  BY DEF EncInv
<1>2. QED
  BY <1>1, EncAlways, PTL

(* In whatever order NX_VidEncOpen, Init, ChangeParameter and Close are      *)
(* called and fail, the VPU keeps no address that was given back and nothing *)
(* is lost, but in the three cases that the property names.                  *)
THEOREM EncMemoryAlwaysAccounted == EncSpec => []EncMemoryAccounted
<1>1. EncInv => EncMemoryAccounted
  BY DEF EncInv
<1>2. QED
  BY <1>1, EncAlways, PTL

(* An NX_VidEncInit that reports success has set up the driver's instance,   *)
(* with reference pictures at their present addresses.                       *)
THEOREM ReadyAlwaysMeansSetUp == EncSpec => []ReadyMeansSetUp
<1>1. EncInv => ReadyMeansSetUp
  BY DEF EncInv
<1>2. QED
  BY <1>1, EncAlways, PTL

(* For every size of a group, and however it is changed on the way, the      *)
(* pictures after an I picture (GopFrmCnt in NX_VidEncEncodeFrame) stay      *)
(* within the group while no call fails and no I picture is skipped.         *)
THEOREM KeyFramesKeepTheirInterval == EncSpec => KeyFrameInterval
<1>1. EncInv /\ [EncNext]_encVars =>
        [~pics'.shaken /\ pics' # pics /\ pics'.since \notin {-1, 1} =>
           pics.since \in 1 .. hEnc.gopSize - 1]_encVars
  BY EncStep
<1>2. QED
  BY <1>1, EncAlways, PTL DEF EncSpec, KeyFrameInterval

-----------------------------------------------------------------------------
(* VidDecoder.                                                               *)

(* What a handle has besides its first two buffers comes after a header; and *)
(* what Init allocates is there before Init only after another Init for the  *)
(* same header, or for one that was read before.  So are frame buffers       *)
(* beyond those that FreeDecoderMemory knows.                                *)
OwnInv ==
  /\ hDec.pSeqData # Unset \/ hDec.isInitialized \/ ~(hDec.own \subseteq OpenBufs) =>
       "parsed" \in decMarks
  /\ ~hDec.isInitialized /\ hDec.own \cap (FrameIdx \cup SetUpBufs) # {} =>
       decMarks \cap {"counted", "reparsed"} # {}
  /\ LeftByDecFree(hDec, hDec.own) # {} =>
       decMarks \cap {"reparsed", "retried"} # {}

(* Before Init counts on, the handle counts as ParseVideoCfg told, and before *)
(* a header it has no frames.                                                *)
CountInv ==
  /\ hDec.isInitialized => hDec.pSeqData # Unset
  /\ hDec.pSeqData = Unset => hDec.own \cap FrameIdx = {}
  /\ hDec.pSeqData # Unset /\ "counted" \notin decMarks =>
       hDec.numFrameBuffers = minBuffers

DecInv == DecTypeOK /\ OwnInv /\ CountInv /\ DecMemoryAccounted /\ StampsKept

\* StampsKept, of one frame buffer.
KeptAt(f, fields, p, cells, marks) ==
  /\ "first" \notin cells => fields.first = Due(p, "frame")
  /\ "second" \notin cells => \/ fields.second = Due(p, "field")
                              \/ f = MaxFrames - 1 /\ "negative" \in marks

LEMMA StampsKeptIs ==
  /\ StampsKept <=>
       \A f \in FrameIdx : KeptAt(f, stamp[f], picture[f], strays[f], decMarks)
  /\ StampsKept' <=>
       \A f \in FrameIdx : KeptAt(f, stamp'[f], picture'[f], strays'[f], decMarks')
BY DEF StampsKept, KeptAt

\* No handle, and nothing known of memory and pictures.
LEMMA NoDecTypes ==
  /\ NoDec \in DecHandle /\ NoDec.open = FALSE /\ NoDec.own = {}
  /\ NoDec.isInitialized = FALSE /\ NoDec.pSeqData = Unset
  /\ NoDecMem \in [DecBufs -> DecBackings]
  /\ Flushed \in [FrameIdx -> Fields] /\ NoPictures \in [FrameIdx -> Pictures]
  /\ \A f \in FrameIdx : NoPictures[f].kind = "none"
  /\ NoFields \in Fields /\ NoPicture \in Pictures /\ NoPicture.kind = "none"
  /\ NoneLeft \in [FrameIdx -> SUBSET Cells]
  /\ \A f \in FrameIdx : Flushed[f] = NoFields /\ NoPictures[f] = NoPicture
  /\ NoFields.first = Unset /\ NoFields.second = Unset
  /\ Due(NoPicture, "frame") = Unset /\ Due(NoPicture, "field") = Unset
  /\ 0 \in 0 .. MaxFrames
<1>1. NoDec \in DecHandle
  BY DEF NoDec, DecHandle, Standards
<1>2. NoDec.open = FALSE /\ NoDec.own = {} /\ NoDec.isInitialized = FALSE
      /\ NoDec.pSeqData = Unset
  BY DEF NoDec
<1>3. NoDecMem \in [DecBufs -> DecBackings]
  BY DEF NoDecMem, DecBackings
<1>4. NoFields \in Fields /\ NoPicture \in Pictures /\ NoPicture.kind = "none"
  BY DEF NoFields, NoPicture, Fields, Pictures
<1>5. Flushed \in [FrameIdx -> Fields] /\ NoPictures \in [FrameIdx -> Pictures]
      /\ \A f \in FrameIdx : NoPictures[f].kind = "none"
  BY <1>4 DEF Flushed, NoPictures
<1>6. \A f \in FrameIdx : Flushed[f] = NoFields /\ NoPictures[f] = NoPicture
  BY DEF Flushed, NoPictures
<1>7. /\ NoFields.first = Unset /\ NoFields.second = Unset
      /\ NoneLeft \in [FrameIdx -> SUBSET Cells]
  BY DEF NoFields, NoneLeft
<1>8. Due(NoPicture, "frame") = Unset /\ Due(NoPicture, "field") = Unset
  BY <1>4 DEF Due
<1>9. 0 \in 0 .. MaxFrames
  BY DecParameters
<1>10. QED
  BY <1>1, <1>2, <1>3, <1>4, <1>5, <1>6, <1>7, <1>8, <1>9

\* Without pictures, and no stamp set, there is none that does not belong.
LEMMA NoStamps ==
  ASSUME picture' = NoPictures, stamp' = Flushed PROVE StampsKept'
BY NoDecTypes, StampsKeptIs DEF KeptAt

\* When the driver drops its pictures, their stamps are known as strays.
LEMMA LeavesStamps ==
  ASSUME DecTypeOK, LeaveAll, stamp' = stamp
  PROVE  /\ StampsKept' /\ picture' \in [FrameIdx -> Pictures]
         /\ strays' \in [FrameIdx -> SUBSET Cells]
<1>1. /\ picture' = NoPictures /\ strays' = [f \in FrameIdx |-> Stamped(stamp[f])]
  BY DEF LeaveAll
<1>2. \A f \in FrameIdx : /\ Stamped(stamp[f]) \subseteq Cells
                          /\ "first" \notin Stamped(stamp[f]) => stamp[f].first = Unset
                          /\ "second" \notin Stamped(stamp[f]) => stamp[f].second = Unset
  BY DEF Stamped, Cells
<1>3. StampsKept'
  BY <1>1, <1>2, NoDecTypes, StampsKeptIs DEF KeptAt
<1>4. QED
  BY <1>1, <1>2, <1>3, NoDecTypes

LEMMA DecInit == DecStart => DecInv
<1> SUFFICES ASSUME DecStart PROVE DecInv
  OBVIOUS
<1>1. /\ hDec = NoDec /\ decMem = NoDecMem /\ stamp = Flushed /\ picture = NoPictures
      /\ strays = NoneLeft /\ minBuffers = 0 /\ decLost = FALSE /\ decMarks = {}
  BY DEF DecStart
<1>2. DecTypeOK
  BY <1>1, NoDecTypes DEF DecTypeOK
<1>3. LeftByDecFree(hDec, hDec.own) = {}
  BY <1>1, NoDecTypes DEF LeftByDecFree
<1>4. OwnInv /\ CountInv /\ DecMemoryAccounted /\ StampsKept
  BY <1>1, <1>3, NoDecTypes, StampsKeptIs
     DEF OwnInv, CountInv, DecMemoryAccounted, KeptAt
<1>5. QED
  BY <1>2, <1>4 DEF DecInv

LEMMA DecOpens ==
  ASSUME DecInv, NEW codecStd \in Standards, VidDecOpen(codecStd)
  PROVE  DecInv'
<1>1. /\ hDec' = [NoDec EXCEPT !.open = TRUE, !.codecStd = codecStd, !.own = OpenBufs]
      /\ decMem' = [b \in DecBufs |-> IF b \in OpenBufs THEN "own" ELSE "none"]
      /\ stamp' = Flushed /\ picture' = NoPictures /\ strays' = NoneLeft
      /\ minBuffers' = 0
      /\ decLost' = FALSE /\ decMarks' = {}
  BY DEF VidDecOpen
<1>2. OpenBufs \subseteq DecBufs /\ OpenBufs \cap (FrameIdx \cup SetUpBufs) = {}
  BY BufferNames DEF OpenBufs, DecBufs, SetUpBufs, FrameIdx
<1>3. hDec' \in DecHandle
  BY <1>1, <1>2, NoDecTypes DEF DecHandle
<1>4. hDec'.own = OpenBufs /\ hDec'.isInitialized = FALSE /\ hDec'.pSeqData = Unset
  BY <1>1, NoDecTypes DEF DecHandle
<1>5. decMem' \in [DecBufs -> DecBackings] /\ \A b \in DecBufs : decMem'[b] # "freed"
  BY <1>1 DEF DecBackings
<1>6. DecTypeOK'
  BY <1>1, <1>3, <1>5, NoDecTypes DEF DecTypeOK
<1>7. LeftByDecFree(hDec', hDec'.own) = {}
  BY <1>2, <1>4 DEF LeftByDecFree
<1>8. OwnInv' /\ CountInv'
  BY <1>2, <1>4, <1>7 DEF OwnInv, CountInv
<1>9. DecMemoryAccounted' /\ StampsKept'
  BY <1>1, <1>5, NoStamps DEF DecMemoryAccounted
<1>10. QED
  BY <1>6, <1>8, <1>9 DEF DecInv

\* ParseVideoCfg, however it ends, at most adds the buffer of the user data, and takes
\* the handle back to where Init is to be called.
LEMMA DecParsed ==
  ASSUME DecInv, Usable, decMarks' \in {Parsed, Parsed \ {"counted"}},
         hDec' \in DecHandle, hDec'.open = hDec.open, hDec'.isInitialized = FALSE,
         hDec'.own \subseteq hDec.own \cup {hUserDataBuffer},
         decMem' \in [DecBufs -> DecBackings],
         \A b \in DecBufs : decMem'[b] = "freed" => decMem[b] = "freed",
         NEW lost \in BOOLEAN, lost => hUserDataBuffer \in hDec.own,
         decLost' = (decLost \/ lost),
         CountInv', minBuffers' \in 0 .. MaxFrames,
         LeaveAll \/ UNCHANGED <<picture, strays>>, stamp' = stamp
  PROVE  DecInv'
<1>1. DecTypeOK /\ OwnInv /\ DecMemoryAccounted /\ StampsKept /\ "wild" \notin decMarks
  BY DEF DecInv, Usable
<1>2. /\ decMarks' \subseteq DecMarks /\ decMarks \ {"counted"} \subseteq decMarks' /\ "parsed" \in decMarks'
      /\ "parsed" \in decMarks => "reparsed" \in decMarks'
      /\ "wild" \notin decMarks' /\ ("starved" \in decMarks' <=> "starved" \in decMarks)
  BY <1>1 DEF Parsed, DecTypeOK, DecMarks
<1>3. hUserDataBuffer \notin OpenBufs \cup SetUpBufs \cup FrameIdx
      /\ OpenBufs \cap (FrameIdx \cup SetUpBufs) = {}
  BY BufferNames DEF OpenBufs, SetUpBufs, FrameIdx
<1>4. DecTypeOK'
  <2>1. decLost' \in BOOLEAN
    BY <1>1 DEF DecTypeOK
  <2>2. picture' \in [FrameIdx -> Pictures] /\ strays' \in [FrameIdx -> SUBSET Cells]
    BY <1>1, LeavesStamps DEF DecTypeOK
  <2>3. QED
    BY <1>1, <1>2, <2>1, <2>2 DEF DecTypeOK
<1>5. ~(hDec.own \subseteq OpenBufs) => "reparsed" \in decMarks'
  BY <1>1, <1>2 DEF OwnInv
<1>6. hDec'.own \cap (FrameIdx \cup SetUpBufs) # {} => "reparsed" \in decMarks'
  BY <1>3, <1>5
<1>7. OwnInv'
  BY <1>2, <1>6 DEF OwnInv, LeftByDecFree
<1>8. DecMemoryAccounted'
  <2>1. decLost' => decMarks' \cap {"reparsed", "retried"} # {}
    BY <1>1, <1>2, <1>3, <1>5 DEF DecMemoryAccounted
  <2>2. hDec'.open /\ "starved" \notin decMarks' => \A b \in DecBufs : decMem'[b] # "freed"
    BY <1>1, <1>2 DEF DecMemoryAccounted
  <2>3. QED
    BY <1>2, <2>1, <2>2 DEF DecMemoryAccounted
<1>9. StampsKept'
  <2>1. CASE UNCHANGED <<picture, strays>>
    BY <1>1, <1>2, <2>1 DEF StampsKept
  <2>2. QED
    BY <1>1, <2>1, LeavesStamps
<1>10. QED
  BY <1>4, <1>7, <1>8, <1>9 DEF DecInv

LEMMA DecParses ==
  ASSUME DecInv, NEW seq \in Seqs, NEW userData \in BOOLEAN,
         VidDecParseVideoCfg(seq, userData)
  PROVE  DecInv'
<1> DEFINE takes == userData /\ hDec.codecStd = "mpeg2"
           bufs == IF takes THEN {hUserDataBuffer} ELSE {}
           own == IF takes THEN hDec.own \cup {hUserDataBuffer} ELSE hDec.own
           reset == [hDec EXCEPT !.isInitialized = FALSE, !.own = own]
           lost == hDec.own \cap bufs # {}
           mem == [b \in DecBufs |-> IF b \in bufs THEN "own" ELSE decMem[b]]
<1>1. /\ hDec \in DecHandle /\ hDec.own \subseteq DecBufs
      /\ decMem \in [DecBufs -> DecBackings] /\ hUserDataBuffer \in DecBufs
  BY DEF DecInv, DecTypeOK, DecHandle, DecBufs
<1>2. /\ own \subseteq DecBufs /\ own \subseteq hDec.own \cup {hUserDataBuffer}
      /\ lost \in BOOLEAN /\ (lost => hUserDataBuffer \in hDec.own)
      /\ bufs \subseteq {hUserDataBuffer}
  BY <1>1
<1>3. /\ mem \in [DecBufs -> DecBackings]
      /\ \A b \in DecBufs : mem[b] = "freed" => decMem[b] = "freed"
  BY <1>1 DEF DecBackings
<1>4. /\ DecReplaced(decMem, bufs) \in [DecBufs -> DecBackings]
      /\ \A b \in DecBufs : DecReplaced(decMem, bufs)[b] = "freed" => decMem[b] = "freed"
  BY <1>1 DEF DecReplaced, DecBackings
<1>5. /\ Usable /\ stamp' = stamp /\ decLost' = (decLost \/ lost)
      /\ \/ /\ hDec' = [reset EXCEPT !.own = own \ bufs]
            /\ decMem' = DecReplaced(decMem, bufs)
            /\ decMarks' = Parsed /\ UNCHANGED <<minBuffers, picture, strays>>
         \/ /\ hDec' = reset /\ decMem' = mem
            /\ LeaveAll \/ UNCHANGED <<picture, strays>>
            /\ decMarks' = Parsed /\ minBuffers' = minBuffers
         \/ \E minFrameBufCnt \in MinFrames :
              /\ hDec' = [reset EXCEPT !.numFrameBuffers = minFrameBufCnt,
                                       !.pSeqData = seq]
              /\ decMem' = mem /\ LeaveAll
              /\ minBuffers' = minFrameBufCnt /\ decMarks' = Parsed \ {"counted"}
  <2>1. reset.own = own
    BY <1>1 DEF DecHandle
  <2>2. reset = [hDec EXCEPT !.isInitialized = FALSE,
                             !.own = IF takes THEN @ \cup {hUserDataBuffer} ELSE @]
    OBVIOUS
  <2> HIDE DEF reset
  <2>3. QED
    BY <2>1, <2>2 DEF VidDecParseVideoCfg
<1> HIDE DEF takes, bufs, own, lost, mem
<1>6. /\ reset \in DecHandle /\ reset.open = hDec.open /\ reset.isInitialized = FALSE
      /\ reset.own = own /\ reset.pSeqData = hDec.pSeqData
      /\ reset.numFrameBuffers = hDec.numFrameBuffers
  BY <1>1, <1>2 DEF DecHandle
<1>6a. /\ CountInv /\ minBuffers \in 0 .. MaxFrames
       /\ "counted" \in decMarks => "counted" \in Parsed
  BY DEF DecInv, DecTypeOK, Parsed
<1>6b. hUserDataBuffer \notin FrameIdx
  BY BufferNames DEF FrameIdx
<1> HIDE DEF reset
<1>7. CASE hDec' = [reset EXCEPT !.own = own \ bufs] /\ decMem' = DecReplaced(decMem, bufs)
           /\ decMarks' = Parsed /\ UNCHANGED <<minBuffers, picture, strays>>
  <2>1. /\ hDec' \in DecHandle /\ hDec'.open = hDec.open /\ hDec'.isInitialized = FALSE
        /\ hDec'.own \subseteq hDec.own \cup {hUserDataBuffer}
        /\ hDec'.pSeqData = hDec.pSeqData /\ hDec'.numFrameBuffers = hDec.numFrameBuffers
    BY <1>2, <1>6, <1>7 DEF DecHandle
  <2>2. CountInv' /\ minBuffers' \in 0 .. MaxFrames
    BY <1>6a, <1>6b, <1>7, <2>1 DEF CountInv
  <2>3. QED
    BY <1>2, <1>4, <1>5, <1>7, <2>1, <2>2, DecParsed
<1>8. CASE /\ hDec' = reset /\ decMem' = mem
           /\ LeaveAll \/ UNCHANGED <<picture, strays>>
           /\ decMarks' = Parsed /\ minBuffers' = minBuffers
  <2>1. hDec'.own \subseteq hDec.own \cup {hUserDataBuffer}
    BY <1>2, <1>6, <1>8
  <2>2. CountInv' /\ minBuffers' \in 0 .. MaxFrames
    BY <1>6, <1>6a, <1>6b, <1>8, <2>1 DEF CountInv
  <2>3. QED
    BY <1>2, <1>3, <1>5, <1>6, <1>8, <2>1, <2>2, DecParsed
<1>9. ASSUME NEW n \in MinFrames,
             hDec' = [reset EXCEPT !.numFrameBuffers = n, !.pSeqData = seq],
             decMem' = mem, LeaveAll, minBuffers' = n,
             decMarks' = Parsed \ {"counted"}
      PROVE  DecInv'
  <2>1. n \in Nat /\ n \in 0 .. MaxFrames
    BY DecParameters
  <2>2. /\ hDec' \in DecHandle /\ hDec'.open = hDec.open /\ hDec'.isInitialized = FALSE
        /\ hDec'.own \subseteq hDec.own \cup {hUserDataBuffer}
        /\ hDec'.numFrameBuffers = n /\ hDec'.pSeqData = seq
    BY <1>2, <1>6, <1>9, <2>1 DEF DecHandle
  <2>3. CountInv' /\ minBuffers' \in 0 .. MaxFrames
    BY <1>9, <2>1, <2>2, DecParameters DEF CountInv
  <2>4. QED
    BY <1>2, <1>3, <1>5, <1>9, <2>2, <2>3, DecParsed
<1>10. QED
  BY <1>5, <1>7, <1>8, <1>9

-----------------------------------------------------------------------------
(* VidDecoder: Init.                                                         *)

\* The handle as Init sees it, and what it will allocate.
LEMMA RegisteringIs ==
  ASSUME DecInv, NEW numBuffers \in {0, MaxFrames}, NEW addNumBuffers \in 0 .. 1
  PROVE  LET h == Registering(numBuffers, addNumBuffers)
         IN  /\ h \in DecHandle /\ h.open = hDec.open /\ h.own = hDec.own
             /\ h.isInitialized = hDec.isInitialized /\ h.pSeqData = hDec.pSeqData
             /\ h.numFrameBuffers \in Nat
             /\ ~h.useExternalFrameBuffer =>
                  h.numFrameBuffers = hDec.numFrameBuffers + addNumBuffers
             /\ h.useExternalFrameBuffer /\ numBuffers = 0 => hDec.useExternalFrameBuffer
             /\ h.numFrameBuffers <= MaxFrames =>
                  SetUp(h) \subseteq FrameIdx \cup SetUpBufs
             /\ SetUp(h) \cap FrameIdx \subseteq FrameBufs(h)
<1> DEFINE h == Registering(numBuffers, addNumBuffers)
<1>1. hDec \in DecHandle /\ hDec.numFrameBuffers \in Nat /\ MaxFrames \in Nat
  BY DecParameters DEF DecInv, DecTypeOK, DecHandle
<1>2. /\ h \in DecHandle /\ h.open = hDec.open /\ h.own = hDec.own
      /\ h.isInitialized = hDec.isInitialized /\ h.pSeqData = hDec.pSeqData
      /\ h.useExternalFrameBuffer /\ numBuffers = 0 => hDec.useExternalFrameBuffer
      /\ ~h.useExternalFrameBuffer => h.numFrameBuffers = hDec.numFrameBuffers + addNumBuffers
  <2>1. CASE numBuffers > 0
    <3>1. h = [hDec EXCEPT !.numFrameBuffers = numBuffers, !.useExternalFrameBuffer = TRUE]
      BY <2>1 DEF Registering
    <3>2. numBuffers \in Nat /\ numBuffers # 0
      BY <1>1, <2>1
    <3> HIDE DEF h
    <3>3. QED
      BY <1>1, <3>1, <3>2 DEF DecHandle
  <2>2. CASE ~(numBuffers > 0)
    <3> DEFINE n == hDec.numFrameBuffers + addNumBuffers
    <3>1. h = [hDec EXCEPT !.numFrameBuffers = n]
      BY <2>2 DEF Registering
    <3>2. n \in Nat
      BY <1>1
    <3> HIDE DEF h, n
    <3>3. QED
      BY <1>1, <3>1, <3>2 DEF DecHandle, n
  <2>3. QED
    BY <2>1, <2>2
<1> HIDE DEF h
<1>3. h.numFrameBuffers \in Nat
  BY <1>2 DEF DecHandle
<1>4. h.numFrameBuffers <= MaxFrames => FrameBufs(h) \subseteq FrameIdx
  BY <1>1, <1>3 DEF FrameBufs, FrameIdx
<1>5. hColMvBuffer \notin FrameIdx /\ hSliceBuffer \notin FrameIdx
  BY BufferNames DEF FrameIdx
<1>6. h.numFrameBuffers <= MaxFrames => SetUp(h) \subseteq FrameIdx \cup SetUpBufs
  BY <1>4 DEF SetUp, SetUpBufs
<1>7. SetUp(h) \cap FrameIdx \subseteq FrameBufs(h)
  BY <1>5 DEF SetUp
<1>8. QED
  BY <1>2, <1>3, <1>6, <1>7 DEF h

\* What comes before a buffer in AllocateDecoderMemory.
LEMMA BeforeIs ==
  ASSUME NEW h \in DecHandle, NEW buf \in SetUp(h), h.numFrameBuffers <= MaxFrames
  PROVE  Before(h, buf) \subseteq SetUp(h)
<1>1. h.numFrameBuffers \in Nat /\ MaxFrames \in Nat
  BY DecParameters DEF DecHandle
<1>2. CASE buf = hColMvBuffer
  BY <1>2 DEF Before, SetUp
<1>3. CASE buf = hSliceBuffer
  <2>1. Before(h, buf) = FrameBufs(h) \cup {hColMvBuffer}
    BY <1>3, BufferNames DEF Before
  <2>2. QED
    BY <2>1 DEF SetUp
<1>4. CASE buf \notin {hColMvBuffer, hSliceBuffer}
  <2>1. buf \in FrameBufs(h)
    BY <1>4 DEF SetUp
  <2>2. FrameBufs(h) = 0 .. h.numFrameBuffers - 1
    BY <2>1 DEF FrameBufs
  <2>3. Before(h, buf) = 0 .. buf - 1
    BY <1>4 DEF Before
  <2>4. 0 .. buf - 1 \subseteq 0 .. h.numFrameBuffers - 1
    BY <1>1, <2>1, <2>2
  <2>5. QED
    BY <2>2, <2>3, <2>4 DEF SetUp
<1>5. QED
  BY <1>2, <1>3, <1>4

\* The marks of a call of Init.
LEMMA InitMarksAre ==
  ASSUME DecInv, NEW numBuffers
  PROVE  /\ InitMarks(numBuffers) \subseteq DecMarks /\ decMarks \subseteq InitMarks(numBuffers)
         /\ "counted" \in InitMarks(numBuffers)
         /\ "counted" \in decMarks => "retried" \in InitMarks(numBuffers)
         /\ numBuffers = 0 /\ hDec.useExternalFrameBuffer => "switched" \in InitMarks(numBuffers)
         /\ "wild" \in InitMarks(numBuffers) => "wild" \in decMarks
         /\ ~hDec.isInitialized /\ hDec.own \cap (FrameIdx \cup SetUpBufs) # {} =>
              InitMarks(numBuffers) \cap {"reparsed", "retried"} # {}
<1> DEFINE cond == IF numBuffers = 0 THEN hDec.useExternalFrameBuffer
                   ELSE hDec.own \cap FrameIdx # {}
           again == IF "counted" \in decMarks THEN {"retried"} ELSE {}
           switch == IF cond THEN {"switched"} ELSE {}
<1>1. InitMarks(numBuffers) = decMarks \cup {"counted"} \cup again \cup switch
  BY DEF InitMarks
<1>2. decMarks \subseteq DecMarks /\ again \subseteq {"retried"} /\ switch \subseteq {"switched"}
  BY DEF DecInv, DecTypeOK
<1>3. "counted" \in decMarks => "retried" \in again
  OBVIOUS
<1>4. numBuffers = 0 /\ hDec.useExternalFrameBuffer => "switched" \in switch
  OBVIOUS
<1>5. ~hDec.isInitialized /\ hDec.own \cap (FrameIdx \cup SetUpBufs) # {} =>
        decMarks \cap {"counted", "reparsed"} # {}
  BY DEF DecInv, OwnInv
<1> HIDE DEF again, switch
<1>6. QED
  BY <1>1, <1>2, <1>3, <1>4, <1>5 DEF DecMarks

\* Once Init has begun, what is lost and what is left comes with a mark.
LEMMA DecInitDone ==
  ASSUME DecInv, Usable, ~hDec.isInitialized, hDec.pSeqData # Unset, NEW numBuffers,
         NEW more \in SUBSET (DecMarks \ {"wild"}), decMarks' = InitMarks(numBuffers) \cup more,
         hDec' \in DecHandle, hDec'.open = hDec.open,
         hDec'.pSeqData = hDec.pSeqData,
         LeftByDecFree(hDec', hDec'.own) \subseteq hDec.own,
         decMem' \in [DecBufs -> DecBackings],
         "starved" \in more \/ \A b \in DecBufs : decMem'[b] = "freed" => decMem[b] = "freed",
         NEW lost \in BOOLEAN, lost => hDec.own \cap (FrameIdx \cup SetUpBufs) # {},
         decLost' = (decLost \/ lost), UNCHANGED <<stamp, minBuffers, picture, strays>>
  PROVE  DecInv'
<1>1. DecTypeOK /\ OwnInv /\ DecMemoryAccounted /\ StampsKept /\ "wild" \notin decMarks
  BY DEF DecInv, Usable
<1>2. /\ decMarks' \subseteq DecMarks /\ decMarks \subseteq decMarks' /\ more \subseteq decMarks'
      /\ "wild" \notin decMarks' /\ "counted" \in decMarks'
      /\ hDec.own \cap (FrameIdx \cup SetUpBufs) # {} => decMarks' \cap {"reparsed", "retried"} # {}
  BY <1>1, InitMarksAre
<1>3. DecTypeOK'
  <2>1. decLost' \in BOOLEAN
    BY <1>1 DEF DecTypeOK
  <2>2. QED
    BY <1>1, <1>2, <2>1 DEF DecTypeOK
<1>4. OwnInv'
  <2>1. "parsed" \in decMarks'
    BY <1>1, <1>2 DEF OwnInv
  <2>2. ~hDec'.isInitialized /\ hDec'.own \cap (FrameIdx \cup SetUpBufs) # {} =>
          decMarks' \cap {"counted", "reparsed"} # {}
    BY <1>2
  <2>3. LeftByDecFree(hDec', hDec'.own) # {} => decMarks' \cap {"reparsed", "retried"} # {}
    <3>1. LeftByDecFree(hDec', hDec'.own) \subseteq FrameIdx
      BY DEF LeftByDecFree
    <3>2. QED
      BY <1>2, <3>1
  <2>4. QED
    BY <2>1, <2>2, <2>3 DEF OwnInv
<1>5. DecMemoryAccounted'
  <2>1. decLost' => decMarks' \cap {"reparsed", "retried"} # {}
    BY <1>1, <1>2 DEF DecMemoryAccounted
  <2>2. hDec'.open /\ "starved" \notin decMarks' => \A b \in DecBufs : decMem'[b] # "freed"
    BY <1>1, <1>2 DEF DecMemoryAccounted
  <2>3. QED
    BY <1>2, <2>1, <2>2 DEF DecMemoryAccounted
<1>6. StampsKept'
  BY <1>1, <1>2 DEF StampsKept
<1>7. CountInv'
  BY <1>2 DEF CountInv
<1>8. QED
  BY <1>3, <1>4, <1>5, <1>6, <1>7 DEF DecInv

\* What the driver's addresses become keeps to its type.
LEMMA DecBackingsKept ==
  ASSUME NEW mem \in [DecBufs -> DecBackings], NEW bufs
  PROVE  /\ DecFreed(mem, bufs) \in [DecBufs -> DecBackings]
         /\ DecReplaced(mem, bufs) \in [DecBufs -> DecBackings]
         /\ \A b \in DecBufs : DecReplaced(mem, bufs)[b] = "freed" => mem[b] = "freed"
BY DEF DecFreed, DecReplaced, DecBackings

LEMMA DecInits ==
  ASSUME DecInv, NEW numBuffers \in {0, MaxFrames}, NEW addNumBuffers \in 0 .. 1,
         VidDecInit(numBuffers, addNumBuffers)
  PROVE  DecInv'
<1> DEFINE h == Registering(numBuffers, addNumBuffers)
<1>1. /\ Usable /\ ~hDec.isInitialized
      /\ minBuffers + addNumBuffers <= MaxFrames
      /\ \/ DecInitTooEarly(h)
         \/ hDec.pSeqData # Unset /\ InitGoesWild(h, numBuffers)
         \/ /\ hDec.pSeqData # Unset
            /\ h.useExternalFrameBuffer => numBuffers > 0
            /\ h.numFrameBuffers <= MaxFrames
            /\ DecInitStarves(h, numBuffers) \/ DecInitRuns(h, numBuffers)
      /\ UNCHANGED <<stamp, minBuffers, picture, strays>>
  BY DEF VidDecInit
<1>2. /\ DecTypeOK /\ OwnInv /\ CountInv /\ DecMemoryAccounted /\ StampsKept
      /\ decMem \in [DecBufs -> DecBackings] /\ hDec.own \subseteq DecBufs
      /\ hDec \in DecHandle
  BY DEF DecInv, DecTypeOK, DecHandle
<1>3. /\ h \in DecHandle /\ h.open = hDec.open /\ h.own = hDec.own
      /\ h.isInitialized = hDec.isInitialized /\ h.pSeqData = hDec.pSeqData
      /\ h.numFrameBuffers \in Nat /\ MaxFrames \in Nat
      /\ ~h.useExternalFrameBuffer => h.numFrameBuffers = hDec.numFrameBuffers + addNumBuffers
      /\ h.useExternalFrameBuffer /\ numBuffers = 0 => hDec.useExternalFrameBuffer
      /\ h.numFrameBuffers <= MaxFrames => SetUp(h) \subseteq FrameIdx \cup SetUpBufs
      /\ SetUp(h) \cap FrameIdx \subseteq FrameBufs(h)
  BY RegisteringIs, DecParameters
<1>4. FrameIdx \cup SetUpBufs \subseteq DecBufs
  BY DEF DecBufs
<1> HIDE DEF h
<1>4a. CASE DecInitTooEarly(h)
  <2>1. /\ hDec.pSeqData = Unset /\ hDec' = h
        /\ UNCHANGED <<decMem, decLost, decMarks>>
    BY <1>4a DEF DecInitTooEarly
  <2>2. DecTypeOK'
    BY <1>1, <1>2, <1>3, <2>1 DEF DecTypeOK
  <2>3. CountInv'
    BY <1>1, <1>2, <1>3, <2>1 DEF CountInv
  <2>4. OwnInv'
    <3>1. LeftByDecFree(hDec', hDec'.own) = {}
      BY <1>2, <1>3, <2>1 DEF CountInv, LeftByDecFree
    <3>2. QED
      BY <1>2, <1>3, <2>1, <3>1 DEF OwnInv
  <2>5. DecMemoryAccounted' /\ StampsKept'
    BY <1>1, <1>2, <1>3, <2>1 DEF DecMemoryAccounted, StampsKept
  <2>6. QED
    BY <2>2, <2>3, <2>4, <2>5 DEF DecInv
<1>5. CASE hDec.pSeqData # Unset /\ InitGoesWild(h, numBuffers)
  <2>1. /\ IF h.useExternalFrameBuffer THEN numBuffers = 0 ELSE h.numFrameBuffers > MaxFrames
        /\ decMarks' = InitMarks(numBuffers) \cup {"wild"}
        /\ UNCHANGED <<hDec, decMem, decLost>>
    BY <1>5 DEF InitGoesWild
  <2>2. /\ decMarks' \subseteq DecMarks /\ decMarks \subseteq decMarks'
        /\ decMarks' \cap {"retried", "switched"} # {} /\ "counted" \in decMarks'
    <3>1. CASE h.useExternalFrameBuffer
      BY <1>3, <2>1, <3>1, InitMarksAre DEF DecMarks
    <3>2. CASE ~h.useExternalFrameBuffer
      <4>1. ~(h.numFrameBuffers <= MaxFrames)
        BY <1>3, <2>1, <3>2
      <4>2. "counted" \in decMarks
        BY <1>1, <1>2, <1>3, <1>5, <3>2, <4>1 DEF CountInv
      <4>3. QED
        BY <2>1, <4>2, InitMarksAre DEF DecMarks
    <3>3. QED
      BY <3>1, <3>2
  <2>3. DecTypeOK'
    BY <1>1, <1>2, <2>1, <2>2 DEF DecTypeOK
  <2>4. OwnInv' /\ CountInv'
    BY <1>2, <2>1, <2>2 DEF OwnInv, CountInv
  <2>5. DecMemoryAccounted'
    BY <1>2, <2>1, <2>2 DEF DecMemoryAccounted
  <2>6. StampsKept'
    BY <1>1, <1>2, <2>2 DEF StampsKept
  <2>7. QED
    BY <2>3, <2>4, <2>5, <2>6 DEF DecInv
<1>6. ASSUME hDec.pSeqData # Unset, h.numFrameBuffers <= MaxFrames,
             DecInitStarves(h, numBuffers)
      PROVE  DecInv'
  <2>1. PICK buf \in SetUp(h) :
          LET over == Before(h, buf) \cup {buf}
              had == (h.own \ {buf}) \cup Before(h, buf)
              left == LeftByDecFree(h, had)
          IN  /\ hDec' = [h EXCEPT !.own = left]
              /\ decMem' = DecFreed(DecReplaced(decMem, over), had \ left)
              /\ decLost' = (decLost \/ over \cap h.own # {})
              /\ decMarks' = InitMarks(numBuffers) \cup {"starved"}
    BY <1>6 DEF DecInitStarves
  <2> DEFINE over == Before(h, buf) \cup {buf}
             had == (h.own \ {buf}) \cup Before(h, buf)
             left == LeftByDecFree(h, had)
             lost == over \cap h.own # {}
  <2>2. /\ hDec' = [h EXCEPT !.own = left]
        /\ decMem' = DecFreed(DecReplaced(decMem, over), had \ left)
        /\ decLost' = (decLost \/ lost)
        /\ decMarks' = InitMarks(numBuffers) \cup {"starved"}
    BY <2>1
  <2>3. Before(h, buf) \subseteq SetUp(h)
    BY <1>3, <1>6, BeforeIs
  <2>4. over \subseteq FrameIdx \cup SetUpBufs
    BY <1>3, <1>6, <2>3
  <2>5. left \subseteq hDec.own /\ left \subseteq DecBufs
    BY <1>2, <1>3, <2>3 DEF LeftByDecFree
  <2>6. lost \in BOOLEAN /\ (lost => hDec.own \cap (FrameIdx \cup SetUpBufs) # {})
    BY <1>3, <2>4
  <2> HIDE DEF over, had, left, lost
  <2>7. decMem' \in [DecBufs -> DecBackings]
    BY <1>2, <2>2, DecBackingsKept
  <2>8. hDec' \in DecHandle
    BY <1>3, <2>2, <2>5 DEF DecHandle
  <2>9. hDec'.open = hDec.open /\ hDec'.own = left /\ hDec'.pSeqData = hDec.pSeqData
    BY <1>3, <2>2 DEF DecHandle
  <2>10. LeftByDecFree(hDec', hDec'.own) \subseteq hDec.own
    BY <2>5, <2>9 DEF LeftByDecFree
  <2>11. {"starved"} \in SUBSET (DecMarks \ {"wild"})
    BY DEF DecMarks
  <2>12. QED
    BY <1>1, <1>6, <2>2, <2>6, <2>7, <2>8, <2>9, <2>10, <2>11, DecInitDone
<1>7. ASSUME hDec.pSeqData # Unset, h.numFrameBuffers <= MaxFrames,
             DecInitRuns(h, numBuffers)
      PROVE  DecInv'
  <2>1. PICK known \in BOOLEAN, ok \in BOOLEAN :
          LET theirs == IF h.useExternalFrameBuffer THEN 0 .. h.numFrameBuffers - 1 ELSE {}
              over == SetUp(h) \cup theirs
              mem == DecReplaced(decMem, over)
          IN  /\ ok => known
              /\ hDec' = [h EXCEPT !.own = (@ \ theirs) \cup SetUp(h), !.isInitialized = ok]
              /\ decMem' = [b \in DecBufs |-> IF ~known \/ b \notin over THEN mem[b]
                                              ELSE IF b \in theirs THEN "user" ELSE "own"]
              /\ decLost' = (decLost \/ over \cap h.own # {})
              /\ decMarks' = InitMarks(numBuffers) \cup (IF ok THEN {} ELSE {"halfway"})
    BY <1>7 DEF DecInitRuns
  <2> DEFINE theirs == IF h.useExternalFrameBuffer THEN 0 .. h.numFrameBuffers - 1 ELSE {}
             over == SetUp(h) \cup theirs
             mem == DecReplaced(decMem, over)
             own == (h.own \ theirs) \cup SetUp(h)
             lost == over \cap h.own # {}
             more == IF ok THEN {} ELSE {"halfway"}
  <2>2. /\ hDec' = [h EXCEPT !.own = own, !.isInitialized = ok]
        /\ decMem' = [b \in DecBufs |-> IF ~known \/ b \notin over THEN mem[b]
                                        ELSE IF b \in theirs THEN "user" ELSE "own"]
        /\ decLost' = (decLost \/ lost)
        /\ decMarks' = InitMarks(numBuffers) \cup more
    BY <1>3, <2>1 DEF DecHandle
  <2>3. theirs \subseteq FrameIdx
    BY <1>3, <1>7 DEF FrameIdx
  <2>4. over \subseteq FrameIdx \cup SetUpBufs
    BY <1>3, <1>7, <2>3
  <2>5. own \subseteq DecBufs /\ own \subseteq hDec.own \cup SetUp(h)
    BY <1>2, <1>3, <1>4, <2>4
  <2>6. lost \in BOOLEAN /\ (lost => hDec.own \cap (FrameIdx \cup SetUpBufs) # {})
    BY <1>3, <2>4
  <2>7. /\ mem \in [DecBufs -> DecBackings]
        /\ \A b \in DecBufs : mem[b] = "freed" => decMem[b] = "freed"
    BY <1>2, DecBackingsKept
  <2>8. more \in SUBSET (DecMarks \ {"wild"})
    BY DEF DecMarks
  <2> HIDE DEF theirs, over, mem, own, lost, more
  <2>9. /\ decMem' \in [DecBufs -> DecBackings]
        /\ \A b \in DecBufs : decMem'[b] = "freed" => decMem[b] = "freed"
    BY <2>2, <2>7 DEF DecBackings
  <2>10. hDec' \in DecHandle
    BY <1>3, <2>2, <2>5 DEF DecHandle
  <2>11. /\ hDec'.open = hDec.open /\ hDec'.own = own /\ hDec'.isInitialized = ok
         /\ hDec'.useExternalFrameBuffer = h.useExternalFrameBuffer
         /\ hDec'.numFrameBuffers = h.numFrameBuffers /\ hDec'.pSeqData = hDec.pSeqData
    BY <1>3, <2>2 DEF DecHandle
  <2>12. FrameBufs(hDec') = FrameBufs(h)
    BY <2>11 DEF FrameBufs
  <2>13. LeftByDecFree(hDec', hDec'.own) \subseteq hDec.own
    BY <1>3, <2>5, <2>11, <2>12 DEF LeftByDecFree
  <2>14. QED
    BY <1>1, <1>7, <2>2, <2>6, <2>8, <2>9, <2>10, <2>11, <2>13, DecInitDone
<1>8. QED
  BY <1>1, <1>4a, <1>5, <1>6, <1>7

-----------------------------------------------------------------------------
(* VidDecoder: the pictures.                                                 *)

\* Calls that leave the memory alone.
LEMMA DecMemoryKeeps ==
  ASSUME DecInv, DecTypeOK', StampsKept', UNCHANGED <<decMem, minBuffers, decLost>>,
         decMarks \subseteq decMarks', decMarks' \subseteq decMarks \cup {"negative"},
         hDec'.open = hDec.open, hDec'.own = hDec.own,
         hDec'.isInitialized = hDec.isInitialized,
         hDec'.numFrameBuffers = hDec.numFrameBuffers,
         hDec'.useExternalFrameBuffer = hDec.useExternalFrameBuffer,
         hDec'.pSeqData = hDec.pSeqData \/ (hDec.isInitialized /\ hDec'.pSeqData = "junk")
  PROVE  DecInv'
<1>1. OwnInv /\ CountInv /\ DecMemoryAccounted
  BY DEF DecInv
<1>2. LeftByDecFree(hDec', hDec'.own) = LeftByDecFree(hDec, hDec.own)
  BY DEF LeftByDecFree, FrameBufs
<1>3. OwnInv'
  BY <1>1, <1>2 DEF OwnInv
<1>4. CountInv'
  BY <1>1, DecParameters DEF CountInv
<1>5. DecMemoryAccounted'
  BY <1>1 DEF DecMemoryAccounted
<1>6. QED
  BY <1>3, <1>4, <1>5 DEF DecInv

\* A stamp goes where its picture goes, and the other cell is as it was.
LEMMA PutKeeps ==
  ASSUME DecInv, NEW kind \in {"frame", "field"}, NEW time \in Stamps,
         NEW dec \in Decodable(kind)
  PROVE  LET put == PutDispInfo(dec, kind, time)
             now == [picture EXCEPT ![dec] = [kind |-> kind, time |-> time]]
             cells == [strays EXCEPT ![dec] = @ \ {CellOf(kind)}]
         IN  /\ put \in [FrameIdx -> Fields] /\ now \in [FrameIdx -> Pictures]
             /\ cells \in [FrameIdx -> SUBSET Cells]
             /\ \A f \in FrameIdx : KeptAt(f, put[f], now[f], cells[f], decMarks)
<1> DEFINE put == PutDispInfo(dec, kind, time)
           new == [kind |-> kind, time |-> time]
           now == [picture EXCEPT ![dec] = new]
           cells == [strays EXCEPT ![dec] = @ \ {CellOf(kind)}]
<1>1. /\ stamp \in [FrameIdx -> Fields] /\ picture \in [FrameIdx -> Pictures]
      /\ strays \in [FrameIdx -> SUBSET Cells]
      /\ \A f \in FrameIdx : KeptAt(f, stamp[f], picture[f], strays[f], decMarks)
  BY StampsKeptIs DEF DecInv, DecTypeOK
<1>2. /\ new \in Pictures
      /\ Due(new, kind) = time
      /\ kind = "frame" => Due(new, "field") = Unset
      /\ kind = "field" => Due(new, "frame") = Unset
  BY DEF Pictures, Due
<1>3. /\ picture[dec].kind = "none" \/ (kind = "field" /\ picture[dec].kind = "field")
      /\ Due(picture[dec], "frame") = Unset
      /\ kind = "frame" => Due(picture[dec], "field") = Unset
  <2>1. picture[dec].kind = "none" \/ (kind = "field" /\ picture[dec].kind = "field")
    BY DEF Decodable
  <2>2. QED
    BY <2>1 DEF Due
<1> HIDE DEF new
<1>4. now \in [FrameIdx -> Pictures] /\ cells \in [FrameIdx -> SUBSET Cells]
  BY <1>1, <1>2
<1>5. CASE kind = "frame"
  <2>1. put = [stamp EXCEPT ![dec].first = time] /\ CellOf(kind) = "first"
    BY <1>5 DEF PutDispInfo, CellOf
  <2>2. put \in [FrameIdx -> Fields]
    BY <1>1, <2>1 DEF Fields
  <2>3. dec \in FrameIdx => /\ put[dec].first = time /\ put[dec].second = stamp[dec].second
                            /\ now[dec] = new /\ cells[dec] = strays[dec] \ {"first"}
    BY <1>1, <2>1 DEF Fields
  <2>4. \A f \in FrameIdx : f # dec => /\ put[f] = stamp[f] /\ now[f] = picture[f]
                                       /\ cells[f] = strays[f]
    BY <1>1, <2>1
  <2> HIDE DEF put, now, cells
  <2>5. dec \in FrameIdx => KeptAt(dec, put[dec], now[dec], cells[dec], decMarks)
    BY <1>1, <1>2, <1>3, <1>5, <2>3 DEF KeptAt
  <2>6. \A f \in FrameIdx : KeptAt(f, put[f], now[f], cells[f], decMarks)
    BY <1>1, <2>4, <2>5
  <2>7. QED
    BY <1>4, <2>2, <2>6 DEF put, now, cells, new
<1>6. CASE kind = "field"
  <2>1. put = [stamp EXCEPT ![dec].second = time] /\ CellOf(kind) = "second"
    BY <1>6 DEF PutDispInfo, CellOf
  <2>2. put \in [FrameIdx -> Fields]
    BY <1>1, <2>1 DEF Fields
  <2>3. dec \in FrameIdx => /\ put[dec].second = time /\ put[dec].first = stamp[dec].first
                            /\ now[dec] = new /\ cells[dec] = strays[dec] \ {"second"}
    BY <1>1, <2>1 DEF Fields
  <2>4. \A f \in FrameIdx : f # dec => /\ put[f] = stamp[f] /\ now[f] = picture[f]
                                       /\ cells[f] = strays[f]
    BY <1>1, <2>1
  <2> HIDE DEF put, now, cells
  <2>5. dec \in FrameIdx => KeptAt(dec, put[dec], now[dec], cells[dec], decMarks)
    BY <1>1, <1>2, <1>3, <1>6, <2>3 DEF KeptAt
  <2>6. \A f \in FrameIdx : KeptAt(f, put[f], now[f], cells[f], decMarks)
    BY <1>1, <2>4, <2>5
  <2>7. QED
    BY <1>4, <2>2, <2>6 DEF put, now, cells, new
<1>7. QED
  BY <1>5, <1>6

\* A picture that is shown takes its stamps with it.
LEMMA ShownKeeps ==
  ASSUME NEW put \in [FrameIdx -> Fields], NEW now \in [FrameIdx -> Pictures],
         NEW cells \in [FrameIdx -> SUBSET Cells],
         \A f \in FrameIdx : KeptAt(f, put[f], now[f], cells[f], decMarks'),
         NEW disp \in Int,
         IF disp = -1 THEN stamp' = put /\ picture' = now /\ strays' = cells
         ELSE /\ stamp' = Shown(put, disp)
              /\ picture' = [now EXCEPT ![disp] = NoPicture]
              /\ strays' = [cells EXCEPT ![disp] = {}]
  PROVE  /\ stamp' \in [FrameIdx -> Fields] /\ picture' \in [FrameIdx -> Pictures]
         /\ strays' \in [FrameIdx -> SUBSET Cells] /\ StampsKept'
<1>1. CASE disp = -1
  BY <1>1, StampsKeptIs
<1>2. CASE disp # -1
  <2>1. /\ stamp' = [put EXCEPT ![disp] = NoFields]
        /\ picture' = [now EXCEPT ![disp] = NoPicture]
        /\ strays' = [cells EXCEPT ![disp] = {}]
    BY <1>2 DEF Shown
  <2>2. /\ stamp' \in [FrameIdx -> Fields] /\ picture' \in [FrameIdx -> Pictures]
        /\ strays' \in [FrameIdx -> SUBSET Cells]
    BY <2>1, NoDecTypes
  <2>3. ASSUME NEW f \in FrameIdx
        PROVE  KeptAt(f, stamp'[f], picture'[f], strays'[f], decMarks')
    <3>1. CASE f = disp
      <4>1. stamp'[f] = NoFields /\ picture'[f] = NoPicture
        BY <2>1, <3>1
      <4>2. QED
        BY <4>1, NoDecTypes DEF KeptAt
    <3>2. CASE f # disp
      <4>1. stamp'[f] = put[f] /\ picture'[f] = now[f] /\ strays'[f] = cells[f]
        BY <2>1, <3>2
      <4>2. QED
        BY <4>1
    <3>3. QED
      BY <3>1, <3>2
  <2>4. QED
    BY <2>2, <2>3, StampsKeptIs
<1>3. QED
  BY <1>1, <1>2

LEMMA DecTold ==
  ASSUME DecInv, NEW time \in Stamps, hDec.isInitialized, DecodeTold(time),
         UNCHANGED <<decMem, minBuffers, decLost>>
  PROVE  DecInv'
<1>1. /\ DecTypeOK /\ hDec \in DecHandle
      /\ stamp \in [FrameIdx -> Fields] /\ picture \in [FrameIdx -> Pictures]
      /\ strays \in [FrameIdx -> SUBSET Cells]
      /\ \A f \in FrameIdx : KeptAt(f, stamp[f], picture[f], strays[f], decMarks)
  BY StampsKeptIs DEF DecInv, DecTypeOK
<1>0. PICK kind \in {"frame", "field"} :
        \E dec \in Decodable(kind) \cup {-1} :
          LET put == IF dec = -1 THEN PutDispInfoNegative ELSE PutDispInfo(dec, kind, time)
              now == IF dec = -1 THEN picture
                     ELSE [picture EXCEPT ![dec] = [kind |-> kind, time |-> time]]
              cells == IF dec = -1 THEN strays ELSE [strays EXCEPT ![dec] = @ \ {CellOf(kind)}]
          IN  /\ \E disp \in Waiting(now) \cup {-1} :
                   IF disp = -1 THEN stamp' = put /\ picture' = now /\ strays' = cells
                   ELSE /\ stamp' = Shown(put, disp)
                        /\ picture' = [now EXCEPT ![disp] = NoPicture]
                        /\ strays' = [cells EXCEPT ![disp] = {}]
              /\ IF dec # -1 THEN UNCHANGED <<hDec, decMarks>>
                 ELSE /\ hDec' = [hDec EXCEPT !.pSeqData = IF kind = "field" THEN "junk" ELSE @]
                      /\ decMarks' = decMarks \cup {"negative"}
  BY DEF DecodeTold
<1>2. PICK dec \in Decodable(kind) \cup {-1} :
        LET put == IF dec = -1 THEN PutDispInfoNegative ELSE PutDispInfo(dec, kind, time)
            now == IF dec = -1 THEN picture
                   ELSE [picture EXCEPT ![dec] = [kind |-> kind, time |-> time]]
            cells == IF dec = -1 THEN strays ELSE [strays EXCEPT ![dec] = @ \ {CellOf(kind)}]
        IN  /\ \E disp \in Waiting(now) \cup {-1} :
                 IF disp = -1 THEN stamp' = put /\ picture' = now /\ strays' = cells
                 ELSE /\ stamp' = Shown(put, disp)
                      /\ picture' = [now EXCEPT ![disp] = NoPicture]
                      /\ strays' = [cells EXCEPT ![disp] = {}]
            /\ IF dec # -1 THEN UNCHANGED <<hDec, decMarks>>
               ELSE /\ hDec' = [hDec EXCEPT !.pSeqData = IF kind = "field" THEN "junk" ELSE @]
                    /\ decMarks' = decMarks \cup {"negative"}
  BY <1>0
<1> DEFINE put == IF dec = -1 THEN PutDispInfoNegative ELSE PutDispInfo(dec, kind, time)
           now == IF dec = -1 THEN picture
                  ELSE [picture EXCEPT ![dec] = [kind |-> kind, time |-> time]]
           cells == IF dec = -1 THEN strays ELSE [strays EXCEPT ![dec] = @ \ {CellOf(kind)}]
<1>3. PICK disp \in Waiting(now) \cup {-1} :
        IF disp = -1 THEN stamp' = put /\ picture' = now /\ strays' = cells
        ELSE /\ stamp' = Shown(put, disp)
             /\ picture' = [now EXCEPT ![disp] = NoPicture]
             /\ strays' = [cells EXCEPT ![disp] = {}]
  BY <1>2
<1>4. dec \in Int /\ disp \in Int /\ (dec # -1 => dec \in Decodable(kind))
  BY DEF Decodable, Waiting
<1>5. /\ decMarks \subseteq decMarks' /\ decMarks' \subseteq decMarks \cup {"negative"}
      /\ dec # -1 => decMarks' = decMarks
      /\ dec = -1 => "negative" \in decMarks'
  BY <1>2
<1>6. /\ put \in [FrameIdx -> Fields] /\ now \in [FrameIdx -> Pictures]
      /\ cells \in [FrameIdx -> SUBSET Cells]
      /\ \A f \in FrameIdx : KeptAt(f, put[f], now[f], cells[f], decMarks')
  <2>1. CASE dec # -1
    <3>1. /\ put = PutDispInfo(dec, kind, time)
          /\ now = [picture EXCEPT ![dec] = [kind |-> kind, time |-> time]]
          /\ cells = [strays EXCEPT ![dec] = @ \ {CellOf(kind)}]
      BY <2>1
    <3> HIDE DEF put, now, cells
    <3>2. /\ put \in [FrameIdx -> Fields] /\ now \in [FrameIdx -> Pictures]
          /\ cells \in [FrameIdx -> SUBSET Cells]
          /\ \A f \in FrameIdx : KeptAt(f, put[f], now[f], cells[f], decMarks)
      BY <1>4, <2>1, <3>1, PutKeeps
    <3>3. QED
      BY <1>5, <2>1, <3>2
  <2>2. CASE dec = -1
    <3> DEFINE last == MaxFrames - 1
    <3>1. put = [stamp EXCEPT ![last].second = "junk"] /\ now = picture /\ cells = strays
      BY <2>2 DEF PutDispInfoNegative
    <3> HIDE DEF put, now, cells, last
    <3>2. put \in [FrameIdx -> Fields]
      BY <1>1, <3>1 DEF Fields
    <3>3. \A f \in FrameIdx : put[f].first = stamp[f].first
      BY <1>1, <3>1 DEF Fields
    <3>4. \A f \in FrameIdx : f # last => put[f] = stamp[f]
      BY <1>1, <3>1
    <3>5. ASSUME NEW f \in FrameIdx
          PROVE  KeptAt(f, put[f], now[f], cells[f], decMarks')
      <4>1. KeptAt(f, stamp[f], now[f], cells[f], decMarks)
        BY <1>1, <3>1
      <4>2. QED
        BY <1>5, <2>2, <3>3, <3>4, <4>1 DEF KeptAt, last
    <3>6. QED
      BY <1>1, <3>1, <3>2, <3>5
  <2>3. QED
    BY <2>1, <2>2
<1> HIDE DEF put, now, cells
<1>7. /\ stamp' \in [FrameIdx -> Fields] /\ picture' \in [FrameIdx -> Pictures]
      /\ strays' \in [FrameIdx -> SUBSET Cells] /\ StampsKept'
  BY <1>3, <1>4, <1>6, ShownKeeps
<1>8. /\ hDec' \in DecHandle /\ hDec'.open = hDec.open /\ hDec'.own = hDec.own
      /\ hDec'.isInitialized = hDec.isInitialized
      /\ hDec'.numFrameBuffers = hDec.numFrameBuffers
      /\ hDec'.useExternalFrameBuffer = hDec.useExternalFrameBuffer
      /\ hDec'.pSeqData = hDec.pSeqData \/ hDec'.pSeqData = "junk"
  <2>1. CASE hDec' = hDec
    BY <1>1, <2>1
  <2>2. CASE hDec' = [hDec EXCEPT !.pSeqData = "junk"]
    BY <1>1, <2>2 DEF DecHandle
  <2>3. hDec' = hDec \/ hDec' = [hDec EXCEPT !.pSeqData = "junk"]
    BY <1>1, <1>2 DEF DecHandle
  <2>4. QED
    BY <2>1, <2>2, <2>3
<1>9. DecTypeOK'
  BY <1>1, <1>5, <1>7, <1>8 DEF DecTypeOK, DecMarks
<1>10. QED
  BY <1>5, <1>7, <1>8, <1>9, DecMemoryKeeps

LEMMA DecUntold ==
  ASSUME DecInv, DecodeUntold, UNCHANGED <<decMem, minBuffers, decLost>>
  PROVE  DecInv'
<1>1. /\ DecTypeOK
      /\ stamp \in [FrameIdx -> Fields] /\ picture \in [FrameIdx -> Pictures]
      /\ strays \in [FrameIdx -> SUBSET Cells]
      /\ \A f \in FrameIdx : KeptAt(f, stamp[f], picture[f], strays[f], decMarks)
      /\ UNCHANGED <<hDec, stamp, decMarks>>
  BY StampsKeptIs DEF DecInv, DecTypeOK, DecodeUntold
<1> DEFINE untold == [kind |-> "untold", time |-> Unset]
<1>2. PICK dec \in Decodable("frame") \cup {-1} :
        LET now == IF dec = -1 THEN picture ELSE [picture EXCEPT ![dec] = untold]
        IN  \E disp \in Waiting(now) \cup {-1} :
              IF disp = -1 THEN picture' = now /\ UNCHANGED strays
              ELSE /\ picture' = [now EXCEPT ![disp] = NoPicture]
                   /\ strays' = [strays EXCEPT ![disp] = Stamped(stamp[disp])]
  BY DEF DecodeUntold
<1> DEFINE now == IF dec = -1 THEN picture ELSE [picture EXCEPT ![dec] = untold]
<1>3. /\ untold \in Pictures /\ untold.kind = "untold"
      /\ Due(untold, "frame") = Unset /\ Due(untold, "field") = Unset
  BY DEF Pictures, Due
<1> HIDE DEF untold
<1>4. dec # -1 => picture[dec].kind = "none"
  BY DEF Decodable
<1>5. /\ now \in [FrameIdx -> Pictures]
      /\ \A f \in FrameIdx : KeptAt(f, stamp[f], now[f], strays[f], decMarks)
  <2>1. CASE dec = -1
    BY <1>1, <2>1
  <2>2. CASE dec # -1
    <3>1. now \in [FrameIdx -> Pictures]
      BY <1>1, <1>3
    <3>2. ASSUME NEW f \in FrameIdx
          PROVE  KeptAt(f, stamp[f], now[f], strays[f], decMarks)
      <4>1. CASE f = dec
        <5>1. now[f] = untold
          BY <1>1, <2>2, <4>1
        <5>2. Due(picture[f], "frame") = Unset /\ Due(picture[f], "field") = Unset
          BY <1>4, <2>2, <4>1 DEF Due
        <5>3. KeptAt(f, stamp[f], picture[f], strays[f], decMarks)
          BY <1>1
        <5>4. QED
          BY <1>3, <5>1, <5>2, <5>3 DEF KeptAt
      <4>2. CASE f # dec
        <5>1. now[f] = picture[f]
          BY <1>1, <2>2, <4>2
        <5>2. QED
          BY <1>1, <5>1
      <4>3. QED
        BY <4>1, <4>2
    <3>3. QED
      BY <3>1, <3>2
  <2>3. QED
    BY <2>1, <2>2
<1>6. PICK disp \in Waiting(now) \cup {-1} :
        IF disp = -1 THEN picture' = now /\ UNCHANGED strays
        ELSE /\ picture' = [now EXCEPT ![disp] = NoPicture]
             /\ strays' = [strays EXCEPT ![disp] = Stamped(stamp[disp])]
  BY <1>2
<1> HIDE DEF now
<1>7. /\ picture' \in [FrameIdx -> Pictures] /\ strays' \in [FrameIdx -> SUBSET Cells]
      /\ \A f \in FrameIdx : KeptAt(f, stamp'[f], picture'[f], strays'[f], decMarks')
  <2>1. CASE disp = -1
    BY <1>1, <1>5, <1>6, <2>1
  <2>2. CASE disp # -1
    <3> DEFINE left == Stamped(stamp[disp])
    <3>1. /\ left \subseteq Cells
          /\ "first" \notin left => stamp[disp].first = Unset
          /\ "second" \notin left => stamp[disp].second = Unset
      BY DEF Stamped, Cells
    <3> HIDE DEF left
    <3>2. picture' = [now EXCEPT ![disp] = NoPicture] /\ strays' = [strays EXCEPT ![disp] = left]
      BY <1>6, <2>2 DEF left
    <3>3. picture' \in [FrameIdx -> Pictures] /\ strays' \in [FrameIdx -> SUBSET Cells]
      BY <1>1, <1>5, <3>1, <3>2, NoDecTypes
    <3>4. ASSUME NEW f \in FrameIdx
          PROVE  KeptAt(f, stamp'[f], picture'[f], strays'[f], decMarks')
      <4>1. CASE f = disp
        <5>1. picture'[f] = NoPicture /\ strays'[f] = left /\ stamp'[f] = stamp[disp]
          BY <1>1, <1>5, <3>2, <4>1
        <5>2. QED
          BY <3>1, <5>1, NoDecTypes DEF KeptAt
      <4>2. CASE f # disp
        <5>1. picture'[f] = now[f] /\ strays'[f] = strays[f]
          BY <1>1, <1>5, <3>2, <4>2
        <5>2. QED
          BY <1>1, <1>5, <5>1
      <4>3. QED
        BY <4>1, <4>2
    <3>5. QED
      BY <3>3, <3>4
  <2>3. QED
    BY <2>1, <2>2
<1>8. StampsKept'
  BY <1>7, StampsKeptIs
<1>9. DecTypeOK'
  BY <1>1, <1>7 DEF DecTypeOK
<1>10. QED
  BY <1>1, <1>8, <1>9, DecMemoryKeeps

LEMMA DecFlushes == ASSUME DecInv, VidDecFlush PROVE DecInv'
<1>1. /\ DecTypeOK
      /\ \/ stamp' = Flushed /\ picture' = NoPictures /\ strays' = NoneLeft
         \/ LeaveAll /\ UNCHANGED stamp
      /\ UNCHANGED <<hDec, decMem, minBuffers, decLost, decMarks>>
  BY DEF DecInv, VidDecFlush
<1>2. /\ StampsKept' /\ stamp' \in [FrameIdx -> Fields] /\ picture' \in [FrameIdx -> Pictures]
      /\ strays' \in [FrameIdx -> SUBSET Cells]
  <2>1. CASE stamp' = Flushed /\ picture' = NoPictures /\ strays' = NoneLeft
    BY <2>1, NoDecTypes, NoStamps
  <2>2. CASE LeaveAll /\ UNCHANGED stamp
    BY <1>1, <2>2, LeavesStamps DEF DecTypeOK
  <2>3. QED
    BY <1>1, <2>1, <2>2
<1>3. DecTypeOK'
  BY <1>1, <1>2 DEF DecTypeOK
<1>4. QED
  BY <1>1, <1>2, <1>3, DecMemoryKeeps

LEMMA DecCloses == ASSUME DecInv, VidDecClose PROVE DecInv'
<1> DEFINE left == LeftByDecFree(hDec, hDec.own) # {}
<1>1. /\ DecTypeOK /\ OwnInv /\ DecMemoryAccounted
      /\ hDec' = NoDec /\ decMem' = NoDecMem
      /\ stamp' = Flushed /\ picture' = NoPictures /\ strays' = NoneLeft
      /\ minBuffers' = 0
      /\ decLost' = (decLost \/ left) /\ decMarks' = decMarks
  BY DEF DecInv, VidDecClose
<1>2. left \in BOOLEAN /\ (left => decMarks \cap {"reparsed", "retried"} # {})
  BY <1>1 DEF OwnInv
<1> HIDE DEF left
<1>3. decLost' \in BOOLEAN /\ (decLost' => decMarks \cap {"reparsed", "retried"} # {})
  BY <1>1, <1>2 DEF DecTypeOK, DecMemoryAccounted
<1>4. DecTypeOK'
  BY <1>1, <1>3, NoDecTypes DEF DecTypeOK
<1>5. LeftByDecFree(hDec', hDec'.own) = {}
  BY <1>1, NoDecTypes DEF LeftByDecFree
<1>6. OwnInv' /\ CountInv'
  BY <1>1, <1>5, NoDecTypes DEF OwnInv, CountInv
<1>7. DecMemoryAccounted' /\ StampsKept'
  BY <1>1, <1>3, NoDecTypes, NoStamps DEF DecMemoryAccounted
<1>8. QED
  BY <1>4, <1>6, <1>7 DEF DecInv

LEMMA DecStep == DecInv /\ [DecNext]_decVars => DecInv'
<1> SUFFICES ASSUME DecInv, [DecNext]_decVars PROVE DecInv'
  OBVIOUS
<1>1. CASE \E codecStd \in Standards : VidDecOpen(codecStd)
  BY <1>1, DecOpens
<1>2. CASE \E seq \in Seqs, userData \in BOOLEAN : VidDecParseVideoCfg(seq, userData)
  BY <1>2, DecParses
<1>3. CASE \E numBuffers \in {0, MaxFrames}, addNumBuffers \in 0 .. 1 :
             VidDecInit(numBuffers, addNumBuffers)
  BY <1>3, DecInits
<1>4. CASE \E time \in Stamps : VidDecDecodeFrame(time)
  BY <1>4, DecTold, DecUntold DEF VidDecDecodeFrame
<1>5. CASE VidDecFlush
  BY <1>5, DecFlushes
<1>6. CASE VidDecClose
  BY <1>6, DecCloses
<1>7. CASE UNCHANGED decVars
  <2>1. DecTypeOK' /\ StampsKept'
    BY <1>7 DEF decVars, DecInv, DecTypeOK, StampsKept
  <2>2. QED
    BY <1>7, <2>1, DecMemoryKeeps DEF decVars
<1>8. QED
  BY <1>1, <1>2, <1>3, <1>4, <1>5, <1>6, <1>7 DEF DecNext

LEMMA DecAlways == DecSpec => []DecInv
<1>1. QED
  BY DecInit, DecStep, PTL DEF DecSpec

(* Every variable of a decoder handle keeps to its type.                     *)
THEOREM DecoderHandleTypeCorrect == DecSpec => []DecTypeOK
<1>1. DecInv => DecTypeOK
  BY DEF DecInv
<1>2. QED
  BY <1>1, DecAlways, PTL

(* In whatever order NX_VidDecParseVideoCfg, Init and Close are called,      *)
(* repeated and fail, for every table size and every number of buffers the   *)
(* VPU asks for: no address that was given back stays with the VPU, nothing  *)
(* is lost and no table is left, but in the cases that the property names.   *)
THEOREM DecMemoryAlwaysAccounted == DecSpec => []DecMemoryAccounted
<1>1. DecInv => DecMemoryAccounted
  BY DEF DecInv
<1>2. QED
  BY <1>1, DecAlways, PTL

(* Both stamps that go out with a picture (DecoderPutDispInfo) are its own,  *)
(* for every order of decoding and showing and every table size, but for a   *)
(* stamp whose picture went without it and for the last entry, which an      *)
(* index of -1 may spoil.                                                    *)
THEOREM StampsAlwaysKept == DecSpec => []StampsKept
<1>1. DecInv => StampsKept
  BY DEF DecInv
<1>2. QED
  BY <1>1, DecAlways, PTL

=============================================================================
