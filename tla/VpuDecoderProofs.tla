-------------------------- MODULE VpuDecoderProofs ---------------------------
(* Proofs about VpuDecoder, for any instances, frame buffers and ring size.  *)
(* The invariant speaks of an open instance at a time, as long as the        *)
(* commands of two instances have not crossed: its ring (RingInv), the       *)
(* command it has paused in the VPU and what that command left in the shared *)
(* registers (PauseInv), and the frames on display (LentInv).                *)
EXTENDS VpuDecoder, TLAPS

OwnRing(i) == [of : {i}, at : Offsets]

\* The command paused in the VPU is of this instance.
OwnsJob(i) == job # None /\ job.of = i

(* The positions are in the ring of the instance and enclose what is unread. *)
RingInv(i) ==
  /\ inst[i].readPos \in OwnRing(i) /\ inst[i].writePos \in OwnRing(i)
  /\ Gap(inst[i].readPos, inst[i].writePos) = client[i].unread

(* A paused command is the instance's own unless it was forgotten; the VPU   *)
(* has then stopped within the unread stream, and its display flags are      *)
(* those of a new sequence or, but for the returns noted since, the frames   *)
(* on display.                                                               *)
PauseInv(i) ==
  inst[i].needMoreFrame =>
    /\ "forgot" \notin client[i].marks => OwnsJob(i)
    /\ OwnsJob(i) =>
         /\ reg.rd \in OwnRing(i)
         /\ Gap(inst[i].readPos, reg.rd) <= Gap(inst[i].readPos, inst[i].writePos)
         /\ job.kind = "seq" => reg.disp = {} /\ client[i].phase # "ready"
         /\ job.kind = "pic" /\ client[i].phase = "ready" /\ "late" \notin client[i].marks =>
              /\ client[i].held \subseteq reg.disp
              /\ inst[i].clearDisplayIndexes \subseteq reg.disp
              /\ "failed" \notin client[i].marks =>
                   client[i].held = reg.disp \ inst[i].clearDisplayIndexes

(* No frame on display is free for the VPU; and after no failure, the frames *)
(* that are not free are on display.                                         *)
LentInv(i) ==
  /\ client[i].held \subseteq Frames[i]
  /\ "late" \notin client[i].marks =>
       /\ "torn" \notin client[i].marks
       /\ client[i].held \subseteq inst[i].frameDisplayFlag \ inst[i].clearDisplayIndexes
       /\ "failed" \notin client[i].marks /\ ~inst[i].needMoreFrame =>
            inst[i].frameDisplayFlag \ inst[i].clearDisplayIndexes = client[i].held

DecInv(i) ==
  /\ client[i].phase # "closed" => RingInv(i) /\ PauseInv(i) /\ LentInv(i)
  /\ client[i].phase = "closed" => client[i].marks = {}

IInv == TypeOK /\ (~crossed => \A i \in Insts : DecInv(i))

-----------------------------------------------------------------------------
(* The ring.                                                                 *)

LEMMA OwnRingIs ==
  ASSUME NEW i \in Insts, NEW x
  PROVE  x \in OwnRing(i) <=> x \in Addr /\ x.of = i
BY DEF OwnRing, Addr

(* The distance from one position to another, with the wrap made explicit.   *)
LEMMA GapIs ==
  ASSUME NEW a \in Addr, NEW b \in Addr
  PROVE  /\ Gap(a, b) \in Offsets
         /\ Gap(a, b) = IF a.at <= b.at THEN b.at - a.at ELSE b.at - a.at + RingSize
<1>1. a.at \in 0 .. RingSize - 1 /\ b.at \in 0 .. RingSize - 1 /\ RingSize \in Nat
  BY Parameters DEF Addr, Offsets
<1>2. ASSUME NEW x \in Int, -RingSize < x, x < RingSize
      PROVE  x % RingSize = IF 0 <= x THEN x ELSE x + RingSize
  BY <1>1, <1>2, Parameters
<1>3. (b.at - a.at) % RingSize
        = IF 0 <= b.at - a.at THEN b.at - a.at ELSE b.at - a.at + RingSize
  BY <1>1, <1>2
<1>4. QED
  BY <1>1, <1>3 DEF Gap, Offsets

(* A position some way ahead of another.                                     *)
LEMMA AheadIs ==
  ASSUME NEW a \in Addr, NEW n \in Offsets
  PROVE  /\ Ahead(a, n) \in Addr /\ Ahead(a, n).of = a.of
         /\ Ahead(a, n).at = IF a.at + n < RingSize THEN a.at + n ELSE a.at + n - RingSize
<1>1. a.at \in 0 .. RingSize - 1 /\ n \in 0 .. RingSize - 1 /\ RingSize \in Nat
  BY Parameters DEF Addr, Offsets
<1>2. ASSUME NEW x \in Nat, x < 2 * RingSize
      PROVE  x % RingSize = IF x < RingSize THEN x ELSE x - RingSize
  BY <1>1, <1>2, Parameters
<1>3. (a.at + n) % RingSize = IF a.at + n < RingSize THEN a.at + n ELSE a.at + n - RingSize
  BY <1>1, <1>2
<1>4. Ahead(a, n) = [a EXCEPT !.at = (a.at + n) % RingSize]
  BY DEF Ahead
<1>5. QED
  BY <1>1, <1>3, <1>4 DEF Addr, Offsets

(* What the VPU has read lies between where it was and where it is.          *)
LEMMA ConsumedIs ==
  ASSUME NEW i \in Insts, NEW r \in RegType, NEW a \in OwnRing(i), r.rd \in OwnRing(i),
         r.wr \in OwnRing(i), Gap(a, r.rd) <= Gap(a, r.wr), NEW p \in Consumed(r)
  PROVE  /\ p \in OwnRing(i)
         /\ Gap(a, p) <= Gap(a, r.wr)
         /\ Gap(p, r.wr) = Gap(a, r.wr) - Gap(a, p)
<1>1. a \in Addr /\ r.rd \in Addr /\ r.wr \in Addr /\ r.rd.of = i
  BY OwnRingIs
<1>2. PICK n \in 0 .. Gap(r.rd, r.wr) : p = Ahead(r.rd, n)
  BY DEF Consumed
<1>3. n \in Offsets /\ n <= Gap(r.rd, r.wr)
  BY <1>1, <1>2, GapIs, Parameters DEF Offsets
<1>4. /\ p \in Addr /\ p.of = i
      /\ p.at = IF r.rd.at + n < RingSize THEN r.rd.at + n ELSE r.rd.at + n - RingSize
  BY <1>1, <1>2, <1>3, AheadIs
<1>5. \A x \in {a, r.rd, r.wr, p} : x.at \in 0 .. RingSize - 1
  BY <1>1, <1>4 DEF Addr, Offsets
<1>6. /\ Gap(a, p) = IF a.at <= p.at THEN p.at - a.at ELSE p.at - a.at + RingSize
      /\ Gap(a, r.rd) = IF a.at <= r.rd.at THEN r.rd.at - a.at ELSE r.rd.at - a.at + RingSize
      /\ Gap(a, r.wr) = IF a.at <= r.wr.at THEN r.wr.at - a.at ELSE r.wr.at - a.at + RingSize
      /\ Gap(p, r.wr) = IF p.at <= r.wr.at THEN r.wr.at - p.at ELSE r.wr.at - p.at + RingSize
      /\ Gap(r.rd, r.wr) = IF r.rd.at <= r.wr.at THEN r.wr.at - r.rd.at
                           ELSE r.wr.at - r.rd.at + RingSize
  BY <1>1, <1>4, GapIs
<1>7. Gap(a, p) <= Gap(a, r.wr) /\ Gap(p, r.wr) = Gap(a, r.wr) - Gap(a, p)
  BY <1>3, <1>4, <1>5, <1>6, Parameters DEF Offsets
<1>8. QED
  BY <1>4, <1>7, OwnRingIs

(* FillBuffer moves the write position by what is fed, and only that.        *)
LEMMA FedIs ==
  ASSUME TypeOK, NEW i \in Insts, RingInv(i), NEW size \in 0 .. Room(i)
  PROVE  /\ Fed(i, size) \in InstType
         /\ Fed(i, size) = [inst[i] EXCEPT !.writePos = Fed(i, size).writePos]
         /\ Fed(i, size).writePos \in OwnRing(i)
         /\ Gap(inst[i].readPos, Fed(i, size).writePos) = client[i].unread + size
<1> DEFINE d == inst[i]
<1>1. /\ d \in InstType /\ d.readPos \in Addr /\ d.writePos \in Addr
      /\ d.readPos.of = i /\ d.writePos.of = i /\ client[i].unread \in Offsets
  BY DEF TypeOK, InstType, ClientType, RingInv, OwnRing, Addr
<1>2. Room(i) = RingSize - 1 - client[i].unread
  BY <1>1 DEF Room, RingInv
<1>3. /\ size \in Nat /\ size + client[i].unread < RingSize
      /\ d.writePos.at \in 0 .. RingSize - 1 /\ d.readPos.at \in 0 .. RingSize - 1
      /\ RingSize \in Nat
  BY <1>1, <1>2, Parameters DEF Addr, Offsets
<1>4. CASE size = 0
  <2>1. Fed(i, size) = d
    BY <1>4 DEF Fed
  <2>2. d = [d EXCEPT !.writePos = d.writePos]
    BY <1>1 DEF InstType
  <2>3. QED
    BY <1>1, <1>4, <2>1, <2>2, OwnRingIs DEF RingInv, Offsets
<1>5. CASE size # 0
  <2> DEFINE w == [d.writePos EXCEPT !.at = FillBuffer(i, size)]
  <2>1. FillBuffer(i, size) = IF d.writePos.at + size < RingSize
                              THEN d.writePos.at + size
                              ELSE d.writePos.at + size - RingSize
    BY <1>3 DEF FillBuffer
  <2>2. w \in Addr /\ w.of = i /\ w.at = FillBuffer(i, size)
    BY <1>1, <1>3, <2>1 DEF Addr, Offsets
  <2>3. Fed(i, size) = [d EXCEPT !.writePos = w]
    BY <1>1, <1>5 DEF Fed
  <2>4. Gap(d.readPos, w) = client[i].unread + size
    <3> HIDE DEF w
    <3>1. /\ Gap(d.readPos, w) = IF d.readPos.at <= w.at THEN w.at - d.readPos.at
                                 ELSE w.at - d.readPos.at + RingSize
          /\ client[i].unread = IF d.readPos.at <= d.writePos.at
                                THEN d.writePos.at - d.readPos.at
                                ELSE d.writePos.at - d.readPos.at + RingSize
      BY <1>1, <2>2, GapIs DEF RingInv
    <3>2. QED
      BY <1>3, <2>1, <2>2, <3>1
  <2> HIDE DEF w
  <2>5. Fed(i, size) \in InstType /\ Fed(i, size).writePos = w
    BY <1>1, <2>2, <2>3 DEF InstType
  <2>6. QED
    BY <2>2, <2>3, <2>4, <2>5, OwnRingIs
<1>6. QED
  BY <1>4, <1>5

-----------------------------------------------------------------------------
(* The parts of a command.                                                   *)

LEMMA StartIs ==
  ASSUME TypeOK, NEW i \in Insts, NEW d \in InstType
  PROVE  /\ StartSeq(i, d) \in RegType /\ StartPic(i, d) \in RegType
         /\ StartSeq(i, d).wr = d.writePos /\ StartPic(i, d).wr = d.writePos
         /\ Resumes(i) => /\ StartSeq(i, d).rd = reg.rd /\ StartSeq(i, d).disp = reg.disp
                          /\ StartPic(i, d).rd = reg.rd /\ StartPic(i, d).disp = reg.disp
         /\ ~Resumes(i) =>
              /\ StartSeq(i, d).rd = d.readPos /\ StartSeq(i, d).disp = {}
              /\ StartPic(i, d).rd = d.readPos
              /\ StartPic(i, d).disp = d.frameDisplayFlag \ d.clearDisplayIndexes
<1>1. reg \in RegType
  BY DEF TypeOK
<1>2. CASE Resumes(i)
  BY <1>1, <1>2 DEF StartSeq, StartPic, RegType, InstType
<1>3. CASE ~Resumes(i)
  BY <1>3 DEF StartSeq, StartPic, RegType, InstType
<1>4. QED
  BY <1>2, <1>3

LEMMA ConsumedType ==
  ASSUME NEW r \in RegType, NEW p \in Consumed(r)
  PROVE  p \in Addr
<1>1. r.rd \in Addr /\ r.wr \in Addr
  BY DEF RegType
<1>2. \A n \in 0 .. Gap(r.rd, r.wr) : n \in Offsets
  BY <1>1, GapIs, Parameters DEF Offsets
<1>3. QED
  BY <1>1, <1>2, AheadIs DEF Consumed

\* Unless commands cross, a resumed command that answers is the instance's own.
LEMMA Answered ==
  ASSUME NEW i \in Insts, NEW kind, UsesVpu(i), ~crossed', Answering(i, kind) # None
  PROVE  Resumes(i) => OwnsJob(i)
BY DEF UsesVpu, Intrudes, Answering, OwnsJob

\* What the VPU reads of an instance's stream when a command runs.
LEMMA ReadsOn ==
  ASSUME TypeOK, NEW i \in Insts, RingInv(i), PauseInv(i), NEW size \in 0 .. Room(i),
         NEW r \in RegType, r.wr = Fed(i, size).writePos,
         Resumes(i) => r.rd = reg.rd, ~Resumes(i) => r.rd = Fed(i, size).readPos,
         Resumes(i) => OwnsJob(i), NEW p \in Consumed(r)
  PROVE  /\ p \in OwnRing(i)
         /\ Gap(inst[i].readPos, p) <= Gap(inst[i].readPos, r.wr)
         /\ Gap(p, r.wr) = client[i].unread + size - Gap(inst[i].readPos, p)
         /\ Gap(inst[i].readPos, r.wr) = client[i].unread + size
<1> DEFINE a == inst[i].readPos
           w == Fed(i, size).writePos
<1>1. /\ Fed(i, size) = [inst[i] EXCEPT !.writePos = w] /\ w \in OwnRing(i)
      /\ Gap(a, w) = client[i].unread + size
  BY FedIs
<1>2. /\ inst[i] \in InstType /\ a \in OwnRing(i) /\ inst[i].writePos \in Addr
      /\ client[i].unread \in Int /\ size \in Nat
  BY OwnRingIs, GapIs DEF TypeOK, RingInv, InstType, ClientType, Room, Offsets
<1>3. a \in Addr /\ w \in Addr
  BY <1>1, <1>2, OwnRingIs
<1>4. r.rd \in OwnRing(i) /\ Gap(a, r.rd) <= Gap(a, w)
  <2>1. CASE Resumes(i)
    <3>1. r.rd \in OwnRing(i) /\ Gap(a, r.rd) <= Gap(a, inst[i].writePos)
      BY <2>1 DEF Resumes, PauseInv
    <3>2. Gap(a, inst[i].writePos) = client[i].unread
      BY DEF RingInv
    <3>3. Gap(a, r.rd) \in Int
      BY <1>3, <3>1, GapIs, OwnRingIs, Parameters DEF Offsets
    <3>4. QED
      BY <1>1, <1>2, <3>1, <3>2, <3>3
  <2>2. CASE ~Resumes(i)
    <3>1. r.rd = a
      BY <1>1, <1>2, <2>2 DEF InstType
    <3>2. Gap(a, a) = 0 /\ Gap(a, w) \in Offsets
      BY <1>3, GapIs, Parameters DEF Addr, Offsets
    <3>3. QED
      BY <1>2, <3>1, <3>2, Parameters DEF Offsets
  <2>3. QED
    BY <2>1, <2>2
<1>5. QED
  <2>1. r.wr = w /\ r.wr \in OwnRing(i) /\ Gap(a, r.rd) <= Gap(a, r.wr)
    BY <1>1, <1>4
  <2>2. /\ p \in OwnRing(i) /\ Gap(a, p) <= Gap(a, r.wr)
        /\ Gap(p, r.wr) = Gap(a, r.wr) - Gap(a, p)
    BY <1>2, <1>4, <2>1, ConsumedIs
  <2>3. Gap(a, r.wr) = client[i].unread + size
    BY <1>1, <2>1
  <2>4. Gap(p, r.wr) = client[i].unread + size - Gap(a, p)
    <3>1. Gap(a, p) \in Int
      BY <1>3, <2>2, GapIs, OwnRingIs, Parameters DEF Offsets
    <3>2. QED
      BY <1>2, <2>2, <2>3, <3>1
  <2>5. QED
    BY <2>2, <2>3, <2>4

\* The instance takes over what was read.
LEMMA TakenOver ==
  ASSUME TypeOK, NEW i \in Insts, RingInv(i), PauseInv(i), NEW size \in 0 .. Room(i),
         NEW r \in RegType, r.wr = Fed(i, size).writePos,
         Resumes(i) => r.rd = reg.rd, ~Resumes(i) => r.rd = Fed(i, size).readPos,
         ~crossed' => (Resumes(i) => OwnsJob(i)), NEW p \in Consumed(r),
         NEW d \in InstType, d.readPos = p, d.writePos = r.wr
  PROVE  /\ Unread(i, size, d) \in Offsets
         /\ ~crossed' => /\ d.readPos \in OwnRing(i) /\ d.writePos \in OwnRing(i)
                         /\ Gap(d.readPos, d.writePos) = Unread(i, size, d)
<1>1. CASE crossed'
  BY <1>1, Parameters DEF Unread, Offsets
<1>2. CASE ~crossed'
  <2>1. /\ p \in OwnRing(i)
        /\ Gap(p, r.wr) = client[i].unread + size - Gap(inst[i].readPos, p)
    BY <1>2, ReadsOn
  <2>2. Unread(i, size, d) = Gap(p, r.wr)
    BY <1>2, <2>1 DEF Unread
  <2>3. r.wr \in OwnRing(i)
    BY FedIs
  <2>4. Gap(p, r.wr) \in Offsets
    BY <2>1, <2>3, GapIs, OwnRingIs
  <2>5. QED
    BY <2>1, <2>2, <2>3, <2>4
<1>3. QED
  BY <1>1, <1>2

\* The instance only remembers what it fed.
LEMMA OnlyFed ==
  ASSUME TypeOK, NEW i \in Insts, RingInv(i), NEW size \in 0 .. Room(i),
         NEW d \in InstType, d.readPos = inst[i].readPos, d.writePos = Fed(i, size).writePos
  PROVE  /\ Unread(i, size, d) \in Offsets
         /\ d.readPos \in OwnRing(i) /\ d.writePos \in OwnRing(i)
         /\ ~crossed' => Gap(d.readPos, d.writePos) = Unread(i, size, d)
<1>1. d.writePos \in OwnRing(i) /\ d.readPos \in OwnRing(i)
  BY FedIs DEF RingInv
<1>2. d.writePos \in Addr /\ d.readPos \in Addr
  BY <1>1, OwnRingIs
<1>3. Gap(d.readPos, d.readPos) = 0 /\ Gap(d.readPos, d.writePos) \in Offsets
  BY <1>2, GapIs, Parameters DEF Addr, Offsets
<1>4. client[i].unread + size = Gap(d.readPos, d.writePos)
  BY FedIs
<1>5. client[i].unread \in Int /\ size \in Nat
  BY DEF TypeOK, ClientType, Offsets
<1>6. client[i].unread + size - 0 = Gap(d.readPos, d.writePos)
  BY <1>4, <1>5
<1>7. Unread(i, size, d) = IF crossed' THEN 0 ELSE Gap(d.readPos, d.writePos)
  BY <1>3, <1>6 DEF Unread
<1>8. QED
  BY <1>1, <1>3, <1>7, Parameters DEF Offsets

-----------------------------------------------------------------------------
(* The step of one instance and what it means for the others.                *)

Moves(i) ==
  /\ inst' = [inst EXCEPT ![i] = inst'[i]] /\ inst'[i] \in InstType
  /\ client' = [client EXCEPT ![i] = client'[i]] /\ client'[i] \in ClientType
  /\ reg' \in RegType /\ job' \in JobType \cup {None} /\ crossed' \in BOOLEAN
  /\ UsesVpu(i) \/ UNCHANGED <<reg, job, crossed>>
  /\ job' = None \/ job' = job \/ job'.of = i
  /\ ~crossed' => DecInv(i)'

LEMMA MovesKeep ==
  ASSUME IInv, ~crossed, NEW i \in Insts, Moves(i)
  PROVE  IInv'
<1>1. TypeOK'
  BY DEF IInv, TypeOK, Moves
<1>2. ASSUME ~crossed', NEW k \in Insts, k # i, client[k].phase # "closed"
      PROVE  DecInv(k)'
  <2>1. inst'[k] = inst[k] /\ client'[k] = client[k]
    BY <1>2 DEF IInv, TypeOK, Moves
  <2>2. RingInv(k) /\ PauseInv(k) /\ LentInv(k)
    BY <1>2, <2>1 DEF IInv, DecInv
  <2>3. RingInv(k)' /\ LentInv(k)'
    BY <2>1, <2>2 DEF RingInv, LentInv
  <2>4. CASE UNCHANGED <<reg, job, crossed>>
    <3>1. PauseInv(k)'
      BY <2>1, <2>2, <2>4 DEF PauseInv, OwnsJob
    <3>2. QED
      BY <1>2, <2>1, <2>3, <3>1 DEF DecInv
  <2>5. CASE UsesVpu(i)
    <3>1. inst[k].needMoreFrame => ~OwnsJob(k)
      BY <1>2, <2>1, <2>5 DEF UsesVpu, Intrudes, OwnsJob
    <3>2. ~OwnsJob(k) => ~OwnsJob(k)'
      BY <1>2 DEF Moves, OwnsJob
    <3>3. PauseInv(k)'
      BY <2>1, <2>2, <3>1, <3>2 DEF PauseInv
    <3>4. QED
      BY <1>2, <2>1, <2>3, <3>3 DEF DecInv
  <2>6. QED
    BY <2>4, <2>5 DEF Moves
<1>3. ASSUME ~crossed', NEW k \in Insts PROVE DecInv(k)'
  <2>1. CASE k # i /\ client[k].phase = "closed"
    BY <1>3, <2>1 DEF IInv, TypeOK, DecInv, Moves
  <2>2. QED
    BY <1>2, <1>3, <2>1 DEF Moves
<1>4. QED
  BY <1>1, <1>3 DEF IInv

LEMMA OpenIs ==
  ASSUME IInv, ~crossed, NEW i \in Insts, client[i].phase # "closed"
  PROVE  /\ TypeOK /\ inst[i] \in InstType /\ client[i] \in ClientType /\ reg \in RegType
         /\ RingInv(i) /\ PauseInv(i) /\ LentInv(i)
BY DEF IInv, TypeOK, DecInv

LEMMA FedFields ==
  ASSUME TypeOK, NEW i \in Insts, RingInv(i), NEW size \in 0 .. Room(i)
  PROVE  LET fed == Fed(i, size)
         IN  /\ fed \in InstType
             /\ fed.readPos = inst[i].readPos
             /\ fed.needMoreFrame = inst[i].needMoreFrame
             /\ fed.frameDisplayFlag = inst[i].frameDisplayFlag
             /\ fed.clearDisplayIndexes = inst[i].clearDisplayIndexes
<1>1. inst[i] \in InstType
  BY DEF TypeOK
<1>2. QED
  BY <1>1, FedIs DEF InstType

LEMMA ReparsedIs ==
  ASSUME TypeOK, NEW i \in Insts, NEW phase \in Phases, NEW size, NEW d,
         Unread(i, size, d) \in Offsets, NEW marks \in SUBSET Marks
  PROVE  LET c == Reparsed(i, phase, size, d, marks)
         IN  /\ c \in ClientType /\ c.phase = phase /\ c.held = {}
             /\ c.unread = Unread(i, size, d) /\ c.marks = marks
<1>1. client[i] \in ClientType /\ Revoked(i) \in SUBSET AllFrames
  BY DEF TypeOK, ClientType, Revoked
<1>2. QED
  BY <1>1 DEF Reparsed, ClientType

\* What is left to show of a command that uses the VPU.
LEMMA CommandMoves ==
  ASSUME IInv, ~crossed, NEW i \in Insts, UsesVpu(i),
         NEW d \in InstType, inst' = [inst EXCEPT ![i] = d],
         NEW c \in ClientType, client' = [client EXCEPT ![i] = c],
         reg' \in RegType, job' \in JobType \cup {None},
         job' = None \/ job' = job \/ job'.of = i,
         ~crossed' => /\ d.readPos \in OwnRing(i) /\ d.writePos \in OwnRing(i)
                      /\ Gap(d.readPos, d.writePos) = c.unread,
         ~crossed' /\ inst'[i] = d /\ client'[i] = c => PauseInv(i)' /\ LentInv(i)',
         c.phase # "closed"
  PROVE  Moves(i)
<1>1. inst'[i] = d /\ client'[i] = c
  BY DEF IInv, TypeOK
<1>2. crossed' \in BOOLEAN
  BY DEF UsesVpu, IInv, TypeOK
<1>3. ~crossed' => RingInv(i)'
  BY <1>1 DEF RingInv
<1>4. QED
  BY <1>1, <1>2, <1>3 DEF Moves, DecInv

-----------------------------------------------------------------------------
(* NX_VpuDecSetSeqInfo.                                                      *)

\* The frames that a new sequence finds lent, if its answer is taken over.
LEMMA SeqDisplay ==
  ASSUME IInv, ~crossed, NEW i \in Insts, client[i].phase # "closed",
         NEW size \in 0 .. Room(i), UsesVpu(i), ~crossed',
         Answering(i, "seq") # None, Answering(i, "seq").kind = "seq"
  PROVE  StartSeq(i, Fed(i, size)).disp = {}
<1>1. Resumes(i) => OwnsJob(i)
  BY Answered
<1>2. StartSeq(i, Fed(i, size)).disp = IF Resumes(i) THEN reg.disp ELSE {}
  BY OpenIs, FedFields, StartIs
<1>3. CASE Resumes(i)
  <2>1. job.kind = "seq"
    BY <1>3 DEF Answering
  <2>2. reg.disp = {}
    BY <1>1, <1>3, <2>1, OpenIs DEF PauseInv, Resumes
  <2>3. QED
    BY <1>2, <1>3, <2>2
<1>4. CASE ~Resumes(i)
  BY <1>2, <1>4
<1>5. QED
  BY <1>3, <1>4

LEMMA SeqInfoOkMoves ==
  ASSUME IInv, ~crossed, NEW i \in Insts, SeqInfoOk(i)
  PROVE  Moves(i)
<1>1. PICK size \in 0 .. Room(i) :
        LET fed == Fed(i, size)
            r == StartSeq(i, fed)
            j == Answering(i, "seq")
        IN /\ MaySetSeqInfo(i, size)
           /\ j # None /\ j.kind = "seq"
           /\ UsesVpu(i)
           /\ \E p \in Consumed(r) :
                LET d == [SeqStarted(fed) EXCEPT !.frameDisplayFlag = r.disp,
                            !.readPos = p, !.writePos = r.wr, !.isInitialized = TRUE]
                IN /\ reg' = [r EXCEPT !.rd = p]
                   /\ inst' = [inst EXCEPT ![i] = d]
                   /\ client' = [client EXCEPT ![i] =
                        Reparsed(i, "parsed", size, d, client[i].marks \ {"failed"})]
           /\ job' = None
  BY DEF SeqInfoOk
<1> DEFINE fed == Fed(i, size)
           r == StartSeq(i, fed)
<1>2. PICK p \in Consumed(r) :
        LET d == [SeqStarted(fed) EXCEPT !.frameDisplayFlag = r.disp,
                    !.readPos = p, !.writePos = r.wr, !.isInitialized = TRUE]
        IN /\ reg' = [r EXCEPT !.rd = p]
           /\ inst' = [inst EXCEPT ![i] = d]
           /\ client' = [client EXCEPT ![i] =
                Reparsed(i, "parsed", size, d, client[i].marks \ {"failed"})]
  BY <1>1
<1> DEFINE d == [SeqStarted(fed) EXCEPT !.frameDisplayFlag = r.disp,
                    !.readPos = p, !.writePos = r.wr, !.isInitialized = TRUE]
           marks == client[i].marks \ {"failed"}
           c == Reparsed(i, "parsed", size, d, marks)
<1>3. /\ client[i].phase # "closed" /\ UsesVpu(i)
      /\ Answering(i, "seq") # None /\ Answering(i, "seq").kind = "seq" /\ job' = None
  BY <1>1 DEF MaySetSeqInfo
<1>4. /\ fed \in InstType /\ fed.clearDisplayIndexes = inst[i].clearDisplayIndexes
      /\ r \in RegType /\ r.wr = fed.writePos
      /\ Resumes(i) => r.rd = reg.rd /\ r.disp = reg.disp
      /\ ~Resumes(i) => r.rd = fed.readPos /\ r.disp = {}
  BY <1>3, OpenIs, FedFields, StartIs
<1>5. p \in Addr
  BY <1>4, ConsumedType
<1>6. /\ d \in InstType /\ d.readPos = p /\ d.writePos = r.wr /\ ~d.needMoreFrame
      /\ d.frameDisplayFlag = r.disp
  BY <1>4, <1>5 DEF SeqStarted, InstType, RegType
<1>7. ~crossed' => (Resumes(i) => OwnsJob(i))
  BY <1>3, Answered
<1>8. inst' = [inst EXCEPT ![i] = d] /\ client' = [client EXCEPT ![i] = c]
      /\ reg' = [r EXCEPT !.rd = p]
  BY <1>2
<1> HIDE DEF d
<1>9. /\ Unread(i, size, d) \in Offsets
      /\ ~crossed' => /\ d.readPos \in OwnRing(i) /\ d.writePos \in OwnRing(i)
                      /\ Gap(d.readPos, d.writePos) = Unread(i, size, d)
  BY <1>3, <1>4, <1>6, <1>7, OpenIs, TakenOver
<1>10. marks \in SUBSET Marks /\ "parsed" \in Phases
  BY <1>3, OpenIs DEF ClientType, Phases
<1>11. /\ c \in ClientType /\ c.phase = "parsed" /\ c.held = {}
       /\ c.unread = Unread(i, size, d) /\ c.marks = marks
  <2> HIDE DEF marks
  <2>1. QED
    BY <1>3, <1>9, <1>10, OpenIs, ReparsedIs
<1> HIDE DEF c
<1>12. reg' \in RegType
  BY <1>4, <1>5, <1>8 DEF RegType
<1>13. ASSUME ~crossed', inst'[i] = d, client'[i] = c PROVE PauseInv(i)' /\ LentInv(i)'
  <2>1. PauseInv(i)'
    BY <1>6, <1>13 DEF PauseInv
  <2>2. r.disp = {}
    BY <1>3, <1>13, SeqDisplay
  <2>3. LentInv(i)'
    BY <1>3, <1>6, <1>11, <1>13, <2>2, OpenIs DEF LentInv
  <2>4. QED
    BY <2>1, <2>3
<1>14. QED
  BY <1>3, <1>6, <1>8, <1>9, <1>11, <1>12, <1>13, CommandMoves

LEMMA SeqInfoRejectedMoves ==
  ASSUME IInv, ~crossed, NEW i \in Insts, SeqInfoRejected(i)
  PROVE  Moves(i)
<1>1. PICK size \in 0 .. Room(i) :
        LET fed == Fed(i, size)
            r == StartSeq(i, fed)
            j == Answering(i, "seq")
        IN /\ MaySetSeqInfo(i, size)
           /\ j # None /\ j.kind = "seq"
           /\ UsesVpu(i)
           /\ \E p \in Consumed(r) :
                LET d == [SeqStarted(fed) EXCEPT !.frameDisplayFlag = r.disp,
                                                 !.readPos = p]
                IN /\ reg' = [r EXCEPT !.rd = p]
                   /\ inst' = [inst EXCEPT ![i] = d]
                   /\ client' = [client EXCEPT ![i] =
                        Reparsed(i, Unparsed(i), size, d, client[i].marks \cup {"failed"})]
           /\ job' = None
  BY DEF SeqInfoRejected
<1> DEFINE fed == Fed(i, size)
           r == StartSeq(i, fed)
<1>2. PICK p \in Consumed(r) :
        LET d == [SeqStarted(fed) EXCEPT !.frameDisplayFlag = r.disp, !.readPos = p]
        IN /\ reg' = [r EXCEPT !.rd = p]
           /\ inst' = [inst EXCEPT ![i] = d]
           /\ client' = [client EXCEPT ![i] =
                Reparsed(i, Unparsed(i), size, d, client[i].marks \cup {"failed"})]
  BY <1>1
<1> DEFINE d == [SeqStarted(fed) EXCEPT !.frameDisplayFlag = r.disp, !.readPos = p]
           marks == client[i].marks \cup {"failed"}
           c == Reparsed(i, Unparsed(i), size, d, marks)
<1>3. /\ client[i].phase # "closed" /\ UsesVpu(i)
      /\ Answering(i, "seq") # None /\ Answering(i, "seq").kind = "seq" /\ job' = None
  BY <1>1 DEF MaySetSeqInfo
<1>4. /\ fed \in InstType /\ fed.clearDisplayIndexes = inst[i].clearDisplayIndexes
      /\ r \in RegType /\ r.wr = fed.writePos
      /\ Resumes(i) => r.rd = reg.rd /\ r.disp = reg.disp
      /\ ~Resumes(i) => r.rd = fed.readPos /\ r.disp = {}
  BY <1>3, OpenIs, FedFields, StartIs
<1>5. p \in Addr
  BY <1>4, ConsumedType
<1>6. /\ d \in InstType /\ d.readPos = p /\ d.writePos = r.wr /\ ~d.needMoreFrame
      /\ d.frameDisplayFlag = r.disp
  BY <1>4, <1>5 DEF SeqStarted, InstType, RegType
<1>7. ~crossed' => (Resumes(i) => OwnsJob(i))
  BY <1>3, Answered
<1>8. inst' = [inst EXCEPT ![i] = d] /\ client' = [client EXCEPT ![i] = c]
      /\ reg' = [r EXCEPT !.rd = p]
  BY <1>2
<1> HIDE DEF d
<1>9. /\ Unread(i, size, d) \in Offsets
      /\ ~crossed' => /\ d.readPos \in OwnRing(i) /\ d.writePos \in OwnRing(i)
                      /\ Gap(d.readPos, d.writePos) = Unread(i, size, d)
  BY <1>3, <1>4, <1>6, <1>7, OpenIs, TakenOver
<1>10. /\ c \in ClientType /\ c.phase # "closed" /\ c.held = {}
       /\ c.unread = Unread(i, size, d) /\ c.marks = marks
  <2>1. marks \in SUBSET Marks /\ Unparsed(i) \in Phases /\ Unparsed(i) # "closed"
    BY <1>3, OpenIs DEF ClientType, Phases, Marks, Unparsed
  <2> HIDE DEF marks
  <2>2. QED
    BY <1>3, <1>9, <2>1, OpenIs, ReparsedIs
<1> HIDE DEF c
<1>11. reg' \in RegType
  BY <1>4, <1>5, <1>8 DEF RegType
<1>12. ASSUME ~crossed', inst'[i] = d, client'[i] = c PROVE PauseInv(i)' /\ LentInv(i)'
  <2>1. PauseInv(i)'
    BY <1>6, <1>12 DEF PauseInv
  <2>2. LentInv(i)'
    BY <1>3, <1>10, <1>12, OpenIs DEF LentInv
  <2>3. QED
    BY <2>1, <2>2
<1> HIDE DEF fed, r
<1>13. job' \in JobType \cup {None} /\ (job' = None \/ job' = job \/ job'.of = i)
  BY <1>3
<1>14. d \in InstType /\ c \in ClientType /\ c.phase # "closed" /\ reg' \in RegType
  BY <1>6, <1>10, <1>11
<1>15. ~crossed' => /\ d.readPos \in OwnRing(i) /\ d.writePos \in OwnRing(i)
                   /\ Gap(d.readPos, d.writePos) = c.unread
  BY <1>9, <1>10
<1>16. QED
  BY <1>3, <1>8, <1>12, <1>13, <1>14, <1>15, CommandMoves

LEMMA SeqInfoPausedMoves ==
  ASSUME IInv, ~crossed, NEW i \in Insts, SeqInfoPaused(i)
  PROVE  Moves(i)
<1>1. PICK size \in 0 .. Room(i) :
        LET fed == Fed(i, size)
            r == StartSeq(i, fed)
            d == [SeqStarted(fed) EXCEPT !.needMoreFrame = TRUE]
            j == Answering(i, "seq")
        IN /\ MaySetSeqInfo(i, size)
           /\ j # None
           /\ UsesVpu(i)
           /\ \E p \in Consumed(r) : reg' = [r EXCEPT !.rd = p]
           /\ inst' = [inst EXCEPT ![i] = d]
           /\ client' = [client EXCEPT ![i] =
                           Reparsed(i, Unparsed(i), size, d, client[i].marks)]
           /\ job' = j
  BY DEF SeqInfoPaused
<1> DEFINE fed == Fed(i, size)
           r == StartSeq(i, fed)
           d == [SeqStarted(fed) EXCEPT !.needMoreFrame = TRUE]
           c == Reparsed(i, Unparsed(i), size, d, client[i].marks)
<1>2. PICK p \in Consumed(r) : reg' = [r EXCEPT !.rd = p]
  BY <1>1
<1>3. /\ client[i].phase # "closed" /\ UsesVpu(i)
      /\ Answering(i, "seq") # None /\ job' = Answering(i, "seq")
      /\ inst' = [inst EXCEPT ![i] = d] /\ client' = [client EXCEPT ![i] = c]
  BY <1>1 DEF MaySetSeqInfo
<1>4. /\ fed \in InstType /\ fed.readPos = inst[i].readPos
      /\ r \in RegType /\ r.wr = fed.writePos
      /\ Resumes(i) => r.rd = reg.rd /\ r.disp = reg.disp
      /\ ~Resumes(i) => r.rd = fed.readPos /\ r.disp = {}
  BY <1>3, OpenIs, FedFields, StartIs
<1>5. p \in Addr
  BY <1>4, ConsumedType
<1>6. /\ d \in InstType /\ d.readPos = inst[i].readPos /\ d.writePos = fed.writePos
  BY <1>4 DEF SeqStarted, InstType
<1> HIDE DEF d
<1>7. /\ Unread(i, size, d) \in Offsets
      /\ d.readPos \in OwnRing(i) /\ d.writePos \in OwnRing(i)
      /\ ~crossed' => Gap(d.readPos, d.writePos) = Unread(i, size, d)
  BY <1>3, <1>6, OpenIs, OnlyFed
<1>8. /\ c \in ClientType /\ c.held = {} /\ c.unread = Unread(i, size, d)
      /\ c.marks = client[i].marks /\ c.phase = Unparsed(i)
      /\ c.phase # "closed"
  <2>1. client[i].marks \in SUBSET Marks /\ Unparsed(i) \in Phases /\ Unparsed(i) # "closed"
    BY <1>3, OpenIs DEF ClientType, Phases, Unparsed
  <2>2. QED
    BY <1>3, <1>7, <2>1, OpenIs, ReparsedIs
<1> HIDE DEF c
<1>9. reg' \in RegType /\ reg'.rd = p /\ reg'.disp = r.disp
  BY <1>2, <1>4, <1>5 DEF RegType
<1>10. /\ job' \in JobType \cup {None}
       /\ ~Resumes(i) => job' = [of |-> i, kind |-> "seq"]
       /\ Resumes(i) => job' = job
  BY <1>3, OpenIs DEF Answering, JobType, Kinds, TypeOK
<1>11. ASSUME ~crossed', inst'[i] = d, client'[i] = c PROVE PauseInv(i)' /\ LentInv(i)'
  <2>1. Resumes(i) => OwnsJob(i)
    BY <1>3, <1>11, Answered
  <2>2. p \in OwnRing(i) /\ Gap(d.readPos, p) <= Gap(d.readPos, d.writePos)
    BY <1>3, <1>4, <1>6, <2>1, OpenIs, ReadsOn
  <2>3. OwnsJob(i)'
    BY <1>3, <1>10, <2>1 DEF OwnsJob
  <2>4. job'.kind = "seq" => reg'.disp = {}
    BY <1>3, <1>9, <1>11, SeqDisplay
  <2>5. c.phase # "ready"
    BY <1>8 DEF Unparsed
  <2>6. PauseInv(i)'
    BY <1>9, <1>11, <2>2, <2>3, <2>4, <2>5 DEF PauseInv
  <2>7. d.needMoreFrame
    BY <1>4 DEF SeqStarted, InstType, d
  <2>8. LentInv(i)'
    BY <1>3, <1>8, <1>11, <2>7, OpenIs DEF LentInv
  <2>9. QED
    BY <2>6, <2>8
<1>12. job' = job \/ job'.of = i
  BY <1>10
<1> HIDE DEF fed, r
<1>13. ~crossed' => /\ d.readPos \in OwnRing(i) /\ d.writePos \in OwnRing(i)
                   /\ Gap(d.readPos, d.writePos) = c.unread
  BY <1>7, <1>8
<1>14. /\ UsesVpu(i) /\ d \in InstType /\ c \in ClientType /\ c.phase # "closed"
       /\ inst' = [inst EXCEPT ![i] = d] /\ client' = [client EXCEPT ![i] = c]
  BY <1>3, <1>6, <1>8
<1>15. QED
  BY <1>9, <1>10, <1>11, <1>12, <1>13, <1>14, CommandMoves, ZenonT(40)

LEMMA SeqInfoFailsMoves ==
  ASSUME IInv, ~crossed, NEW i \in Insts, SeqInfoFails(i)
  PROVE  Moves(i)
<1>1. PICK size \in 0 .. Room(i) :
        LET fed == Fed(i, size)
            d == SeqStarted(fed)
        IN /\ MaySetSeqInfo(i, size)
           /\ UsesVpu(i)
           /\ reg' = StartSeq(i, fed)
           /\ inst' = [inst EXCEPT ![i] = d]
           /\ client' = [client EXCEPT ![i] =
                Reparsed(i, Unparsed(i), size, d, client[i].marks \cup {"failed"})]
           /\ job' = None
  BY DEF SeqInfoFails
<1> DEFINE fed == Fed(i, size)
           d == SeqStarted(fed)
           marks == client[i].marks \cup {"failed"}
           c == Reparsed(i, Unparsed(i), size, d, marks)
<1>2. /\ client[i].phase # "closed" /\ UsesVpu(i) /\ job' = None
      /\ inst' = [inst EXCEPT ![i] = d] /\ client' = [client EXCEPT ![i] = c]
      /\ reg' = StartSeq(i, fed)
  BY <1>1 DEF MaySetSeqInfo
<1>3. fed \in InstType /\ fed.readPos = inst[i].readPos /\ reg' \in RegType
  BY <1>2, OpenIs, FedFields, StartIs
<1>4. /\ d \in InstType /\ d.readPos = inst[i].readPos /\ d.writePos = fed.writePos
      /\ ~d.needMoreFrame
  BY <1>3 DEF SeqStarted, InstType
<1> HIDE DEF d
<1>5. /\ Unread(i, size, d) \in Offsets
      /\ d.readPos \in OwnRing(i) /\ d.writePos \in OwnRing(i)
      /\ ~crossed' => Gap(d.readPos, d.writePos) = Unread(i, size, d)
  BY <1>2, <1>4, OpenIs, OnlyFed
<1>6. /\ c \in ClientType /\ c.phase # "closed" /\ c.held = {}
      /\ c.unread = Unread(i, size, d) /\ c.marks = marks
  <2>1. marks \in SUBSET Marks /\ Unparsed(i) \in Phases /\ Unparsed(i) # "closed"
    BY <1>2, OpenIs DEF ClientType, Phases, Marks, Unparsed
  <2> HIDE DEF marks
  <2>2. QED
    BY <1>2, <1>5, <2>1, OpenIs, ReparsedIs
<1> HIDE DEF c
<1>7. ASSUME ~crossed', inst'[i] = d, client'[i] = c PROVE PauseInv(i)' /\ LentInv(i)'
  <2>1. PauseInv(i)'
    BY <1>4, <1>7 DEF PauseInv
  <2>2. LentInv(i)'
    BY <1>2, <1>6, <1>7, OpenIs DEF LentInv
  <2>3. QED
    BY <2>1, <2>2
<1>8. ~crossed' => /\ d.readPos \in OwnRing(i) /\ d.writePos \in OwnRing(i)
                   /\ Gap(d.readPos, d.writePos) = c.unread
  BY <1>5, <1>6
<1> HIDE DEF fed, marks
<1>9. QED
  BY <1>2, <1>3, <1>4, <1>6, <1>7, <1>8, CommandMoves, ZenonT(40)

-----------------------------------------------------------------------------
(* NX_VpuDecRunFrame.                                                        *)

(* A picture command that answers is the instance's own, and the frames on   *)
(* display are among those that it finds lent.                               *)
LEMMA PicDisplay ==
  ASSUME IInv, ~crossed, NEW i \in Insts, client[i].phase = "ready",
         NEW size \in 0 .. Room(i), UsesVpu(i), ~crossed', Answering(i, "pic") # None
  PROVE  LET r == StartPic(i, Fed(i, size))
             d == PicStarted(Fed(i, size))
         IN  /\ Answering(i, "pic") \in JobType
             /\ Answering(i, "pic").of = i /\ Answering(i, "pic").kind = "pic"
             /\ "late" \notin client[i].marks =>
                  /\ client[i].held \subseteq r.disp
                  /\ d.clearDisplayIndexes \subseteq r.disp
                  /\ client[i].held \cap d.clearDisplayIndexes = {}
                  /\ "failed" \notin client[i].marks =>
                       client[i].held = r.disp \ d.clearDisplayIndexes
<1> DEFINE fed == Fed(i, size)
<1>1. Resumes(i) => OwnsJob(i)
  BY Answered
<1>2. /\ fed \in InstType /\ fed.needMoreFrame = inst[i].needMoreFrame
      /\ fed.frameDisplayFlag = inst[i].frameDisplayFlag
      /\ fed.clearDisplayIndexes = inst[i].clearDisplayIndexes
      /\ TypeOK /\ PauseInv(i) /\ LentInv(i)
  BY OpenIs, FedFields
<1> HIDE DEF fed
<1>3. CASE Resumes(i)
  <2>1. job \in JobType /\ job.of = i /\ Answering(i, "pic") = job
    BY <1>1, <1>2, <1>3 DEF OwnsJob, TypeOK, Answering
  <2>2. job.kind = "pic"
    BY <1>1, <1>2, <1>3, <2>1 DEF PauseInv, Resumes, JobType, Kinds
  <2>3. StartPic(i, fed).disp = reg.disp
    BY <1>2, <1>3, StartIs
  <2>4. PicStarted(fed).clearDisplayIndexes = inst[i].clearDisplayIndexes
    BY <1>2, <1>3 DEF PicStarted, Resumes, InstType
  <2>5. QED
    BY <1>1, <1>2, <1>3, <2>1, <2>2, <2>3, <2>4 DEF PauseInv, LentInv, Resumes, fed
<1>4. CASE ~Resumes(i)
  <2>1. Answering(i, "pic") = [of |-> i, kind |-> "pic"]
    BY <1>4 DEF Answering
  <2>2. StartPic(i, fed).disp = inst[i].frameDisplayFlag \ inst[i].clearDisplayIndexes
    BY <1>2, <1>4, StartIs
  <2>3. PicStarted(fed).clearDisplayIndexes = {}
    BY <1>2, <1>4 DEF PicStarted, Resumes, InstType
  <2>4. QED
    BY <1>2, <1>4, <2>1, <2>2, <2>3 DEF LentInv, Resumes, JobType, Kinds, fed
<1>5. QED
  BY <1>3, <1>4

LEMMA PicStartedIs ==
  ASSUME NEW fed \in InstType
  PROVE  /\ PicStarted(fed) \in InstType /\ ~PicStarted(fed).needMoreFrame
         /\ PicStarted(fed).readPos = fed.readPos /\ PicStarted(fed).writePos = fed.writePos
         /\ PicStarted(fed).frameDisplayFlag = fed.frameDisplayFlag
         /\ PicStarted(fed).clearDisplayIndexes \in {fed.clearDisplayIndexes, {}}
BY DEF PicStarted, InstType

\* The VPU never decodes into a frame on display that it was told of.
LEMMA NotTorn ==
  ASSUME NEW i \in Insts, NEW r, NEW decoded \in Free(i, r),
         client[i].held \subseteq r.disp, client[i].held \subseteq Frames[i]
  PROVE  Torn(i, decoded) = {}
BY Parameters DEF Free, Torn

LEMMA FreeFrames ==
  ASSUME NEW i \in Insts, NEW r, NEW f \in Free(i, r)
  PROVE  {f} \ {None} \subseteq Frames[i] /\ Frames[i] \subseteq AllFrames
         /\ ({f} \ {None}) \cap r.disp = {}
BY Parameters DEF Free, AllFrames

LEMMA FrameOkMoves ==
  ASSUME IInv, ~crossed, NEW i \in Insts, FrameOk(i)
  PROVE  Moves(i)
<1>1. PICK size \in 0 .. Room(i) :
        LET fed == Fed(i, size)
            r == StartPic(i, fed)
            j == Answering(i, "pic")
        IN /\ client[i].phase = "ready"
           /\ j # None /\ j.kind = "pic"
           /\ UsesVpu(i)
           /\ \E p \in Consumed(r), decoded \in Free(i, r), indexFrameDisplay \in Free(i, r) :
                LET shown == {indexFrameDisplay} \ {None}
                    d == GetOutputInfo(PicStarted(fed), p, r.disp \cup shown)
                IN /\ reg' = [r EXCEPT !.rd = p, !.disp = @ \cup shown]
                   /\ inst' = [inst EXCEPT ![i] = d]
                   /\ client' = [client EXCEPT ![i] =
                                   Ran(i, size, d, shown, Torn(i, decoded))]
           /\ job' = None
  BY DEF FrameOk
<1> DEFINE fed == Fed(i, size)
           r == StartPic(i, fed)
<1>2. PICK p \in Consumed(r), decoded \in Free(i, r), indexFrameDisplay \in Free(i, r) :
        LET shown == {indexFrameDisplay} \ {None}
            d == GetOutputInfo(PicStarted(fed), p, r.disp \cup shown)
        IN /\ reg' = [r EXCEPT !.rd = p, !.disp = @ \cup shown]
           /\ inst' = [inst EXCEPT ![i] = d]
           /\ client' = [client EXCEPT ![i] =
                           Ran(i, size, d, shown, Torn(i, decoded))]
  BY <1>1
<1> DEFINE shown == {indexFrameDisplay} \ {None}
           started == PicStarted(fed)
           d == GetOutputInfo(started, p, r.disp \cup shown)
           marks == Torn(i, decoded)
           c == Ran(i, size, d, shown, marks)
<1>3. /\ client[i].phase = "ready" /\ client[i].phase # "closed" /\ UsesVpu(i)
      /\ Answering(i, "pic") # None /\ job' = None
  BY <1>1
<1>4. /\ fed \in InstType /\ r \in RegType /\ r.wr = fed.writePos
      /\ Resumes(i) => r.rd = reg.rd
      /\ ~Resumes(i) => r.rd = fed.readPos
  BY <1>3, OpenIs, FedFields, StartIs
<1>5. p \in Addr
  BY <1>4, ConsumedType
<1>6. shown \subseteq Frames[i] /\ shown \in SUBSET AllFrames /\ shown \cap r.disp = {}
  BY FreeFrames
<1>7. started \in InstType /\ started.writePos = fed.writePos /\ ~started.needMoreFrame
  BY <1>4, PicStartedIs
<1>8. inst' = [inst EXCEPT ![i] = d] /\ client' = [client EXCEPT ![i] = c]
      /\ reg' = [r EXCEPT !.rd = p, !.disp = @ \cup shown]
  BY <1>2
<1> HIDE DEF r, shown, started
<1>9. /\ d \in InstType /\ d.readPos = p /\ d.writePos = r.wr /\ ~d.needMoreFrame
      /\ d.frameDisplayFlag = r.disp \cup shown
      /\ d.clearDisplayIndexes = started.clearDisplayIndexes
  BY <1>4, <1>5, <1>6, <1>7 DEF GetOutputInfo, InstType, RegType
<1>10. ~crossed' => (Resumes(i) => OwnsJob(i))
  BY <1>3, Answered
<1> HIDE DEF d
<1>11. /\ Unread(i, size, d) \in Offsets
       /\ ~crossed' => /\ d.readPos \in OwnRing(i) /\ d.writePos \in OwnRing(i)
                       /\ Gap(d.readPos, d.writePos) = Unread(i, size, d)
  BY <1>3, <1>4, <1>9, <1>10, OpenIs, TakenOver
<1>12. /\ c \in ClientType /\ c.phase = client[i].phase
       /\ c.held = client[i].held \cup shown
       /\ c.unread = Unread(i, size, d) /\ c.marks = client[i].marks \cup marks
  <2>1. marks \in SUBSET Marks
    BY DEF Torn, Marks
  <2>2. TypeOK /\ shown \in SUBSET AllFrames
    BY <1>3, <1>6, OpenIs
  <2> HIDE DEF marks
  <2>3. QED
    BY <1>11, <2>1, <2>2 DEF Ran, TypeOK, ClientType
<1> HIDE DEF c
<1>13. reg' \in RegType
  BY <1>4, <1>5, <1>6, <1>8 DEF RegType
<1>14. ASSUME ~crossed', inst'[i] = d, client'[i] = c PROVE PauseInv(i)' /\ LentInv(i)'
  <2>1. PauseInv(i)'
    BY <1>9, <1>14 DEF PauseInv
  <2>2. LentInv(i)
    BY <1>3, OpenIs
  <2>3. c.held \subseteq Frames[i]
    BY <1>6, <1>12, <2>2 DEF LentInv
  <2>4. ASSUME "late" \notin client[i].marks
        PROVE  /\ client[i].held \subseteq r.disp
               /\ client[i].held \cap started.clearDisplayIndexes = {}
               /\ started.clearDisplayIndexes \subseteq r.disp
               /\ "failed" \notin client[i].marks =>
                    client[i].held = r.disp \ started.clearDisplayIndexes
    BY <1>3, <1>14, <2>4, PicDisplay DEF r, started
  <2>5. ASSUME "late" \notin client[i].marks PROVE marks = {}
    BY <2>2, <2>4, <2>5, NotTorn DEF LentInv, r
  <2>6. LentInv(i)'
    <3> HIDE DEF marks
    <3>1. QED
      BY <1>6, <1>9, <1>12, <1>14, <2>2, <2>3, <2>4, <2>5 DEF LentInv
  <2>7. QED
    BY <2>1, <2>6
<1>15. QED
  BY <1>3, <1>8, <1>9, <1>11, <1>12, <1>13, <1>14, CommandMoves

LEMMA FrameUntoldMoves ==
  ASSUME IInv, ~crossed, NEW i \in Insts, FrameUntold(i)
  PROVE  Moves(i)
<1>1. PICK size \in 0 .. Room(i) :
        LET fed == Fed(i, size)
            r == StartPic(i, fed)
            j == Answering(i, "pic")
        IN /\ client[i].phase = "ready"
           /\ j # None /\ j.kind = "pic"
           /\ UsesVpu(i)
           /\ \E p \in Consumed(r), decoded \in Free(i, r), indexFrameDisplay \in Free(i, r) :
                LET shown == {indexFrameDisplay} \ {None}
                    d == GetOutputInfo(PicStarted(fed), p, r.disp \cup shown)
                IN /\ reg' = [r EXCEPT !.rd = p, !.disp = @ \cup shown]
                   /\ inst' = [inst EXCEPT ![i] = d]
                   /\ client' = [client EXCEPT ![i] =
                                   Ran(i, size, d, {}, {"failed"} \cup Torn(i, decoded))]
           /\ job' = None
  BY DEF FrameUntold
<1> DEFINE fed == Fed(i, size)
           r == StartPic(i, fed)
<1>2. PICK p \in Consumed(r), decoded \in Free(i, r), indexFrameDisplay \in Free(i, r) :
        LET shown == {indexFrameDisplay} \ {None}
            d == GetOutputInfo(PicStarted(fed), p, r.disp \cup shown)
        IN /\ reg' = [r EXCEPT !.rd = p, !.disp = @ \cup shown]
           /\ inst' = [inst EXCEPT ![i] = d]
           /\ client' = [client EXCEPT ![i] =
                           Ran(i, size, d, {}, {"failed"} \cup Torn(i, decoded))]
  BY <1>1
<1> DEFINE shown == {indexFrameDisplay} \ {None}
           started == PicStarted(fed)
           d == GetOutputInfo(started, p, r.disp \cup shown)
           marks == {"failed"} \cup Torn(i, decoded)
           c == Ran(i, size, d, {}, marks)
<1>3. /\ client[i].phase = "ready" /\ client[i].phase # "closed" /\ UsesVpu(i)
      /\ Answering(i, "pic") # None /\ job' = None
  BY <1>1
<1>4. /\ fed \in InstType /\ r \in RegType /\ r.wr = fed.writePos
      /\ Resumes(i) => r.rd = reg.rd
      /\ ~Resumes(i) => r.rd = fed.readPos
  BY <1>3, OpenIs, FedFields, StartIs
<1>5. p \in Addr
  BY <1>4, ConsumedType
<1>6. shown \subseteq Frames[i] /\ shown \in SUBSET AllFrames /\ shown \cap r.disp = {}
  BY FreeFrames
<1>7. started \in InstType /\ started.writePos = fed.writePos /\ ~started.needMoreFrame
  BY <1>4, PicStartedIs
<1>8. inst' = [inst EXCEPT ![i] = d] /\ client' = [client EXCEPT ![i] = c]
      /\ reg' = [r EXCEPT !.rd = p, !.disp = @ \cup shown]
  BY <1>2
<1> HIDE DEF r, shown, started
<1>9. /\ d \in InstType /\ d.readPos = p /\ d.writePos = r.wr /\ ~d.needMoreFrame
      /\ d.frameDisplayFlag = r.disp \cup shown
      /\ d.clearDisplayIndexes = started.clearDisplayIndexes
  BY <1>4, <1>5, <1>6, <1>7 DEF GetOutputInfo, InstType, RegType
<1>10. ~crossed' => (Resumes(i) => OwnsJob(i))
  BY <1>3, Answered
<1> HIDE DEF d
<1>11. /\ Unread(i, size, d) \in Offsets
       /\ ~crossed' => /\ d.readPos \in OwnRing(i) /\ d.writePos \in OwnRing(i)
                       /\ Gap(d.readPos, d.writePos) = Unread(i, size, d)
  BY <1>3, <1>4, <1>9, <1>10, OpenIs, TakenOver
<1>12. /\ c \in ClientType /\ c.phase = client[i].phase /\ c.held = client[i].held
       /\ c.unread = Unread(i, size, d) /\ c.marks = client[i].marks \cup marks
  <2>1. marks \in SUBSET Marks
    BY DEF Torn, Marks
  <2>2. TypeOK /\ shown \in SUBSET AllFrames
    BY <1>3, <1>6, OpenIs
  <2> HIDE DEF marks
  <2>3. QED
    BY <1>11, <2>1, <2>2 DEF Ran, TypeOK, ClientType
<1> HIDE DEF c
<1>13. reg' \in RegType
  BY <1>4, <1>5, <1>6, <1>8 DEF RegType
<1>14. ASSUME ~crossed', inst'[i] = d, client'[i] = c PROVE PauseInv(i)' /\ LentInv(i)'
  <2>1. PauseInv(i)'
    BY <1>9, <1>14 DEF PauseInv
  <2>2. LentInv(i)
    BY <1>3, OpenIs
  <2>3. c.held \subseteq Frames[i]
    BY <1>6, <1>12, <2>2 DEF LentInv
  <2>4. ASSUME "late" \notin client[i].marks
        PROVE  /\ client[i].held \subseteq r.disp
               /\ client[i].held \cap started.clearDisplayIndexes = {}
               /\ started.clearDisplayIndexes \subseteq r.disp
               /\ "failed" \notin client[i].marks =>
                    client[i].held = r.disp \ started.clearDisplayIndexes
    BY <1>3, <1>14, <2>4, PicDisplay DEF r, started
  <2>5. ASSUME "late" \notin client[i].marks PROVE marks = {"failed"}
    BY <2>2, <2>4, <2>5, NotTorn DEF LentInv, r
  <2>6. LentInv(i)'
    <3> HIDE DEF marks
    <3>1. QED
      BY <1>6, <1>9, <1>12, <1>14, <2>2, <2>3, <2>4, <2>5 DEF LentInv
  <2>7. QED
    BY <2>1, <2>6
<1>15. QED
  BY <1>3, <1>8, <1>9, <1>11, <1>12, <1>13, <1>14, CommandMoves

LEMMA FramePausedMoves ==
  ASSUME IInv, ~crossed, NEW i \in Insts, FramePaused(i)
  PROVE  Moves(i)
<1>1. PICK size \in 0 .. Room(i) :
        LET fed == Fed(i, size)
            r == StartPic(i, fed)
            d == [PicStarted(fed) EXCEPT !.needMoreFrame = TRUE]
            j == Answering(i, "pic")
        IN /\ client[i].phase = "ready"
           /\ j # None
           /\ UsesVpu(i)
           /\ \E p \in Consumed(r) : reg' = [r EXCEPT !.rd = p]
           /\ inst' = [inst EXCEPT ![i] = d]
           /\ client' = [client EXCEPT ![i] = Ran(i, size, d, {}, {})]
           /\ job' = j
  BY DEF FramePaused
<1> DEFINE fed == Fed(i, size)
           r == StartPic(i, fed)
           started == PicStarted(fed)
           d == [started EXCEPT !.needMoreFrame = TRUE]
           c == Ran(i, size, d, {}, {})
<1>2. PICK p \in Consumed(r) : reg' = [r EXCEPT !.rd = p]
  BY <1>1
<1>3. /\ client[i].phase = "ready" /\ client[i].phase # "closed" /\ UsesVpu(i)
      /\ Answering(i, "pic") # None /\ job' = Answering(i, "pic")
      /\ inst' = [inst EXCEPT ![i] = d] /\ client' = [client EXCEPT ![i] = c]
  BY <1>1
<1>4. /\ fed \in InstType /\ fed.readPos = inst[i].readPos
      /\ fed.frameDisplayFlag = inst[i].frameDisplayFlag
      /\ fed.clearDisplayIndexes = inst[i].clearDisplayIndexes
      /\ r \in RegType /\ r.wr = fed.writePos
      /\ Resumes(i) => r.rd = reg.rd
      /\ ~Resumes(i) => r.rd = fed.readPos
  BY <1>3, OpenIs, FedFields, StartIs
<1>5. p \in Addr
  BY <1>4, ConsumedType
<1>6. /\ started \in InstType
      /\ started.readPos = inst[i].readPos /\ started.writePos = fed.writePos
      /\ started.frameDisplayFlag = inst[i].frameDisplayFlag
      /\ started.clearDisplayIndexes \in {inst[i].clearDisplayIndexes, {}}
  BY <1>4, PicStartedIs
<1> HIDE DEF r, started
<1>7. /\ d \in InstType /\ d.readPos = inst[i].readPos /\ d.writePos = fed.writePos
      /\ d.needMoreFrame
      /\ d.frameDisplayFlag = inst[i].frameDisplayFlag
      /\ d.clearDisplayIndexes = started.clearDisplayIndexes
  BY <1>6 DEF InstType
<1> HIDE DEF d
<1>8. /\ Unread(i, size, d) \in Offsets
      /\ d.readPos \in OwnRing(i) /\ d.writePos \in OwnRing(i)
      /\ ~crossed' => Gap(d.readPos, d.writePos) = Unread(i, size, d)
  BY <1>3, <1>7, OpenIs, OnlyFed
<1>9. /\ c \in ClientType /\ c.phase = client[i].phase /\ c.held = client[i].held
      /\ c.unread = Unread(i, size, d) /\ c.marks = client[i].marks
  BY <1>3, <1>8, OpenIs DEF Ran, ClientType
<1> HIDE DEF c
<1>10. reg' \in RegType /\ reg'.rd = p /\ reg'.disp = r.disp
  BY <1>2, <1>4, <1>5 DEF RegType
<1>11. /\ job' \in JobType \cup {None}
       /\ job' = job \/ job'.of = i
  BY <1>3, OpenIs DEF Answering, JobType, Kinds, TypeOK
<1>12. ASSUME ~crossed', inst'[i] = d, client'[i] = c PROVE PauseInv(i)' /\ LentInv(i)'
  <2>1. p \in OwnRing(i) /\ Gap(d.readPos, p) <= Gap(d.readPos, d.writePos)
    <3>1. Resumes(i) => OwnsJob(i)
      BY <1>3, <1>12, Answered
    <3>2. QED
      BY <1>3, <1>4, <1>7, <3>1, OpenIs, ReadsOn
  <2>2. OwnsJob(i)' /\ job'.kind = "pic"
    BY <1>3, <1>12, OpenIs, PicDisplay DEF OwnsJob
  <2>3. ASSUME "late" \notin client[i].marks
        PROVE  /\ client[i].held \subseteq r.disp
               /\ started.clearDisplayIndexes \subseteq r.disp
               /\ "failed" \notin client[i].marks =>
                    client[i].held = r.disp \ started.clearDisplayIndexes
    BY <1>3, <1>12, <2>3, PicDisplay DEF r, started
  <2>4. PauseInv(i)'
    BY <1>7, <1>9, <1>10, <1>12, <2>1, <2>2, <2>3 DEF PauseInv
  <2>5. LentInv(i)
    BY <1>3, OpenIs
  <2>6. LentInv(i)'
    BY <1>6, <1>7, <1>9, <1>12, <2>5 DEF LentInv
  <2>7. QED
    BY <2>4, <2>6
<1>13. QED
  BY <1>3, <1>7, <1>8, <1>9, <1>10, <1>11, <1>12, CommandMoves

LEMMA FrameFailsMoves ==
  ASSUME IInv, ~crossed, NEW i \in Insts, FrameFails(i)
  PROVE  Moves(i)
<1>1. PICK size \in 0 .. Room(i) :
        LET fed == Fed(i, size)
            r == StartPic(i, fed)
            d == PicStarted(fed)
        IN /\ client[i].phase = "ready"
           /\ UsesVpu(i)
           /\ reg' = r
           /\ inst' = [inst EXCEPT ![i] = d]
           /\ \E decoded \in IF Answering(i, "pic") = None THEN {None} ELSE Free(i, r) :
                client' = [client EXCEPT ![i] =
                             Ran(i, size, d, {}, {"failed"} \cup Torn(i, decoded))]
           /\ job' = None
  BY DEF FrameFails
<1> DEFINE fed == Fed(i, size)
           r == StartPic(i, fed)
           d == PicStarted(fed)
<1>2. PICK decoded \in IF Answering(i, "pic") = None THEN {None} ELSE Free(i, r) :
        client' = [client EXCEPT ![i] =
                     Ran(i, size, d, {}, {"failed"} \cup Torn(i, decoded))]
  BY <1>1
<1> DEFINE marks == {"failed"} \cup Torn(i, decoded)
           c == Ran(i, size, d, {}, marks)
<1>3. /\ client[i].phase = "ready" /\ client[i].phase # "closed" /\ UsesVpu(i)
      /\ job' = None /\ reg' = r
      /\ inst' = [inst EXCEPT ![i] = d] /\ client' = [client EXCEPT ![i] = c]
  BY <1>1, <1>2
<1>4. /\ fed \in InstType /\ fed.readPos = inst[i].readPos /\ reg' \in RegType
      /\ fed.frameDisplayFlag = inst[i].frameDisplayFlag
      /\ fed.clearDisplayIndexes = inst[i].clearDisplayIndexes
  BY <1>3, OpenIs, FedFields, StartIs
<1>5. /\ d \in InstType /\ ~d.needMoreFrame
      /\ d.readPos = inst[i].readPos /\ d.writePos = fed.writePos
      /\ d.frameDisplayFlag = inst[i].frameDisplayFlag
      /\ d.clearDisplayIndexes \in {inst[i].clearDisplayIndexes, {}}
  BY <1>4, PicStartedIs
<1> HIDE DEF r, d
<1>6. /\ Unread(i, size, d) \in Offsets
      /\ d.readPos \in OwnRing(i) /\ d.writePos \in OwnRing(i)
      /\ ~crossed' => Gap(d.readPos, d.writePos) = Unread(i, size, d)
  BY <1>3, <1>5, OpenIs, OnlyFed
<1>7. /\ c \in ClientType /\ c.phase = client[i].phase /\ c.held = client[i].held
      /\ c.unread = Unread(i, size, d) /\ c.marks = client[i].marks \cup marks
  <2>1. marks \in SUBSET Marks
    BY DEF Torn, Marks
  <2> HIDE DEF marks
  <2>2. QED
    BY <1>3, <1>6, <2>1, OpenIs DEF Ran, ClientType
<1> HIDE DEF c
<1>8. ASSUME ~crossed', inst'[i] = d, client'[i] = c PROVE PauseInv(i)' /\ LentInv(i)'
  <2>1. PauseInv(i)'
    BY <1>5, <1>8 DEF PauseInv
  <2>2. LentInv(i)
    BY <1>3, OpenIs
  <2>3. ASSUME "late" \notin client[i].marks PROVE marks = {"failed"}
    <3>1. CASE Answering(i, "pic") = None
      BY <1>2, <2>2, <3>1, Parameters DEF LentInv, Torn
    <3>2. CASE Answering(i, "pic") # None
      <4>1. client[i].held \subseteq r.disp
        BY <1>3, <1>8, <2>3, <3>2, PicDisplay DEF r
      <4>2. QED
        BY <1>2, <2>2, <3>2, <4>1, NotTorn DEF LentInv
    <3>3. QED
      BY <3>1, <3>2
  <2>4. LentInv(i)'
    <3> HIDE DEF marks
    <3>1. QED
      BY <1>5, <1>7, <1>8, <2>2, <2>3 DEF LentInv
  <2>5. QED
    BY <2>1, <2>4
<1>9. QED
  BY <1>3, <1>4, <1>5, <1>6, <1>7, <1>8, CommandMoves

-----------------------------------------------------------------------------
(* The other calls.                                                          *)

LEMMA BaseIs ==
  ASSUME NEW i \in Insts
  PROVE  Base(i) \in OwnRing(i) /\ Base(i) \in Addr /\ Gap(Base(i), Base(i)) = 0
<1>1. Base(i) \in OwnRing(i)
  BY Parameters DEF Base, OwnRing, Offsets
<1>2. Base(i) \in Addr /\ Base(i).at = 0
  BY <1>1, OwnRingIs DEF Base
<1>3. Gap(Base(i), Base(i)) = 0
  <2> HIDE DEF Base
  <2>1. QED
    BY <1>2, GapIs
<1>4. QED
  BY <1>1, <1>2, <1>3

LEMMA DecOpenMoves ==
  ASSUME IInv, ~crossed, NEW i \in Insts, DecOpen(i)
  PROVE  Moves(i)
<1> DEFINE d == Fresh(i)
           c == NewClient("open")
<1>1. /\ UsesVpu(i) /\ job' = job
      /\ inst' = [inst EXCEPT ![i] = d] /\ client' = [client EXCEPT ![i] = c]
      /\ reg' = [reg EXCEPT !.wr = Base(i), !.rd = Base(i)]
  BY DEF DecOpen
<1>2. /\ d \in InstType /\ d.readPos = Base(i) /\ d.writePos = Base(i)
      /\ ~d.needMoreFrame /\ d.frameDisplayFlag = {} /\ d.clearDisplayIndexes = {}
  BY BaseIs DEF Fresh, InstType
<1>3. c \in ClientType /\ c.phase = "open" /\ c.held = {} /\ c.unread = 0 /\ c.marks = {}
  BY Parameters DEF NewClient, ClientType, Phases, Offsets
<1>4. reg' \in RegType /\ job' \in JobType \cup {None}
  BY <1>1, BaseIs DEF IInv, TypeOK, RegType
<1> HIDE DEF d, c
<1>5. ASSUME inst'[i] = d, client'[i] = c PROVE PauseInv(i)' /\ LentInv(i)'
  BY <1>2, <1>3, <1>5 DEF PauseInv, LentInv
<1>6. QED
  BY <1>1, <1>2, <1>3, <1>4, <1>5, BaseIs, CommandMoves

LEMMA SeqInfoRefusedMoves ==
  ASSUME IInv, ~crossed, NEW i \in Insts, SeqInfoRefused(i)
  PROVE  Moves(i)
<1> DEFINE c == [client[i] EXCEPT !.phase = "parsed"]
<1>1. /\ client[i].phase = "ready" /\ client' = [client EXCEPT ![i] = c]
      /\ UNCHANGED <<reg, job, inst, crossed>>
  BY DEF SeqInfoRefused
<1>2. /\ TypeOK /\ inst[i] \in InstType /\ client[i] \in ClientType
      /\ RingInv(i) /\ PauseInv(i) /\ LentInv(i)
  BY <1>1, OpenIs
<1>3. /\ c \in ClientType /\ c.phase = "parsed" /\ c.held = client[i].held
      /\ c.unread = client[i].unread /\ c.marks = client[i].marks
  BY <1>2 DEF ClientType, Phases
<1> HIDE DEF c
<1>4. client'[i] = c /\ inst'[i] = inst[i] /\ inst' = [inst EXCEPT ![i] = inst'[i]]
  BY <1>1, <1>2 DEF TypeOK
<1>5. RingInv(i)' /\ LentInv(i)'
  BY <1>1, <1>2, <1>3, <1>4 DEF RingInv, LentInv
<1>6. PauseInv(i)'
  BY <1>1, <1>2, <1>3, <1>4 DEF PauseInv, OwnsJob
<1>7. QED
  BY <1>1, <1>2, <1>3, <1>4, <1>5, <1>6 DEF Moves, DecInv, TypeOK

LEMMA DecRegFrameBufMoves ==
  ASSUME IInv, ~crossed, NEW i \in Insts, DecRegFrameBuf(i)
  PROVE  Moves(i)
<1>1. PICK phase \in {"ready", "parsed"} :
        client' = [client EXCEPT ![i].phase = phase, ![i].marks = @ \cup Forgets(i)]
  BY DEF DecRegFrameBuf
<1> DEFINE c == [client[i] EXCEPT !.phase = phase, !.marks = @ \cup Forgets(i)]
<1>2. /\ client[i].phase = "parsed" /\ UsesVpu(i) /\ job' = None
      /\ UNCHANGED <<reg, inst>>
  BY DEF DecRegFrameBuf
<1>3. /\ TypeOK /\ inst[i] \in InstType /\ client[i] \in ClientType
      /\ RingInv(i) /\ PauseInv(i) /\ LentInv(i)
  BY <1>2, OpenIs
<1>4. client' = [client EXCEPT ![i] = c] /\ inst' = [inst EXCEPT ![i] = inst[i]]
  BY <1>1, <1>2, <1>3 DEF TypeOK, ClientType
<1>5. Forgets(i) \in SUBSET Marks /\ (inst[i].needMoreFrame => "forgot" \in Forgets(i))
      /\ Forgets(i) \subseteq {"forgot"}
  BY DEF Forgets, Marks
<1>6. /\ c \in ClientType /\ c.phase # "closed" /\ c.held = client[i].held
      /\ c.unread = client[i].unread /\ c.marks = client[i].marks \cup Forgets(i)
  BY <1>3, <1>5 DEF ClientType, Phases
<1> HIDE DEF c
<1>7. ASSUME inst'[i] = inst[i], client'[i] = c PROVE PauseInv(i)' /\ LentInv(i)'
  <2>1. PauseInv(i)'
    BY <1>2, <1>5, <1>6, <1>7 DEF PauseInv, OwnsJob
  <2>2. LentInv(i)'
    BY <1>3, <1>5, <1>6, <1>7 DEF LentInv
  <2>3. QED
    BY <2>1, <2>2
<1>8. reg' \in RegType /\ job' \in JobType \cup {None}
  BY <1>2, <1>3 DEF TypeOK
<1>9. ~crossed' => /\ inst[i].readPos \in OwnRing(i) /\ inst[i].writePos \in OwnRing(i)
                   /\ Gap(inst[i].readPos, inst[i].writePos) = c.unread
  BY <1>3, <1>6 DEF RingInv
<1>10. QED
  BY <1>2, <1>3, <1>4, <1>6, <1>7, <1>8, <1>9, CommandMoves, ZenonT(40)

LEMMA DecClrDspFlagMoves ==
  ASSUME IInv, ~crossed, NEW i \in Insts, DecClrDspFlag(i)
  PROVE  Moves(i)
<1>1. client[i].phase = "ready" /\ UNCHANGED <<reg, job, crossed>>
  BY DEF DecClrDspFlag
<1>2. /\ TypeOK /\ inst[i] \in InstType /\ client[i] \in ClientType
      /\ RingInv(i) /\ PauseInv(i) /\ LentInv(i)
  BY <1>1, OpenIs
<1>3. PICK f \in client[i].held \cup client[i].stale :
        /\ inst' = [inst EXCEPT ![i].clearDisplayIndexes = @ \cup {f}]
        /\ \/ f \in client[i].held /\ client' = [client EXCEPT ![i].held = @ \ {f}]
           \/ client' = [client EXCEPT ![i].stale = @ \ {f},
                                       ![i].marks = @ \cup {"late"}]
  BY DEF DecClrDspFlag
<1>4. f \in AllFrames
  BY <1>2 DEF ClientType
<1> DEFINE d == [inst[i] EXCEPT !.clearDisplayIndexes = @ \cup {f}]
<1>5. inst' = [inst EXCEPT ![i] = d] /\ inst'[i] = d
  BY <1>2, <1>3 DEF TypeOK
<1>6. /\ d \in InstType /\ d.readPos = inst[i].readPos /\ d.writePos = inst[i].writePos
      /\ d.needMoreFrame = inst[i].needMoreFrame
      /\ d.frameDisplayFlag = inst[i].frameDisplayFlag
      /\ d.clearDisplayIndexes = inst[i].clearDisplayIndexes \cup {f}
  BY <1>2, <1>4 DEF InstType
<1> HIDE DEF d
<1>7. ASSUME NEW c \in ClientType, client' = [client EXCEPT ![i] = c],
             c.phase = client[i].phase, c.unread = client[i].unread,
             \/ /\ f \in client[i].held /\ c.held = client[i].held \ {f}
                /\ c.marks = client[i].marks
             \/ c.held = client[i].held /\ c.marks = client[i].marks \cup {"late"}
      PROVE  Moves(i)
  <2>1. client'[i] = c
    BY <1>2, <1>7 DEF TypeOK
  <2>2. RingInv(i)'
    BY <1>2, <1>5, <1>6, <1>7, <2>1 DEF RingInv
  <2>3. LentInv(i)'
    BY <1>2, <1>5, <1>6, <1>7, <2>1 DEF LentInv
  <2>4. PauseInv(i)'
    <3>1. OwnsJob(i)' <=> OwnsJob(i)
      BY <1>1 DEF OwnsJob
    <3>2. CASE /\ f \in client[i].held /\ c.held = client[i].held \ {f}
               /\ c.marks = client[i].marks
      BY <1>1, <1>2, <1>5, <1>6, <1>7, <2>1, <3>1, <3>2 DEF PauseInv
    <3>3. CASE c.held = client[i].held /\ c.marks = client[i].marks \cup {"late"}
      BY <1>1, <1>2, <1>5, <1>6, <1>7, <2>1, <3>1, <3>3 DEF PauseInv
    <3>4. QED
      BY <1>7, <3>2, <3>3
  <2>5. QED
    BY <1>1, <1>2, <1>5, <1>6, <1>7, <2>1, <2>2, <2>3, <2>4 DEF Moves, DecInv, TypeOK
<1>8. CASE f \in client[i].held /\ client' = [client EXCEPT ![i].held = @ \ {f}]
  <2> DEFINE c == [client[i] EXCEPT !.held = @ \ {f}]
  <2>1. /\ c \in ClientType /\ client' = [client EXCEPT ![i] = c]
        /\ c.phase = client[i].phase /\ c.unread = client[i].unread
        /\ c.held = client[i].held \ {f} /\ c.marks = client[i].marks
    BY <1>2, <1>8 DEF ClientType, TypeOK
  <2> HIDE DEF c
  <2>2. QED
    BY <1>7, <1>8, <2>1
<1>9. CASE client' = [client EXCEPT ![i].stale = @ \ {f}, ![i].marks = @ \cup {"late"}]
  <2> DEFINE c == [client[i] EXCEPT !.stale = @ \ {f}, !.marks = @ \cup {"late"}]
  <2>1. /\ c \in ClientType /\ client' = [client EXCEPT ![i] = c]
        /\ c.phase = client[i].phase /\ c.unread = client[i].unread
        /\ c.held = client[i].held /\ c.marks = client[i].marks \cup {"late"}
    BY <1>2, <1>9 DEF ClientType, TypeOK, Marks
  <2>2. QED
    BY <1>7, <2>1
<1>10. QED
  BY <1>3, <1>8, <1>9

LEMMA DecFlushMoves ==
  ASSUME IInv, ~crossed, NEW i \in Insts, DecFlush(i)
  PROVE  Moves(i)
<1>1. PICK ok \in BOOLEAN :
        /\ inst' = [inst EXCEPT ![i] = Flushed(inst[i], ok, i)]
        /\ client' = [client EXCEPT
             ![i].held = IF ok THEN {} ELSE @,
             ![i].stale = IF ok THEN Revoked(i) ELSE @,
             ![i].unread = 0,
             ![i].marks = (IF ok THEN @ \ {"failed"} ELSE @ \cup {"failed"})
                          \cup Forgets(i)]
  BY DEF DecFlush
<1>2. /\ client[i].phase = "ready" /\ UsesVpu(i) /\ job' = None
      /\ reg' = [reg EXCEPT !.disp = inst[i].frameDisplayFlag \ inst[i].clearDisplayIndexes]
  BY DEF DecFlush
<1>3. /\ TypeOK /\ inst[i] \in InstType /\ client[i] \in ClientType /\ reg \in RegType
      /\ RingInv(i) /\ PauseInv(i) /\ LentInv(i)
  BY <1>2, OpenIs
<1> DEFINE d == Flushed(inst[i], ok, i)
           m == (IF ok THEN client[i].marks \ {"failed"} ELSE client[i].marks \cup {"failed"})
                  \cup Forgets(i)
           held == IF ok THEN {} ELSE client[i].held
           stale == IF ok THEN Revoked(i) ELSE client[i].stale
           c == [client[i] EXCEPT !.held = held, !.stale = stale,
                                  !.unread = 0, !.marks = m]
<1>4. client' = [client EXCEPT ![i] = c]
  BY <1>1, <1>3 DEF TypeOK, ClientType
<1>5. /\ d \in InstType /\ d.needMoreFrame = inst[i].needMoreFrame
      /\ d.clearDisplayIndexes = {} /\ d.readPos = d.writePos
      /\ d.readPos \in OwnRing(i) /\ d.readPos \in Addr
      /\ d.frameDisplayFlag = IF ok THEN {} ELSE inst[i].frameDisplayFlag
  BY <1>3, BaseIs DEF Flushed, InstType, RingInv
<1>6. Forgets(i) \in SUBSET Marks /\ (inst[i].needMoreFrame => "forgot" \in Forgets(i))
      /\ Forgets(i) \subseteq {"forgot"}
  BY DEF Forgets, Marks
<1>7. m \in SUBSET Marks
  BY <1>3, <1>6 DEF ClientType, Marks
<1>8. "late" \in m <=> "late" \in client[i].marks
  BY <1>6
<1>9. "torn" \in m <=> "torn" \in client[i].marks
  BY <1>6
<1>10. (inst[i].needMoreFrame => "forgot" \in m) /\ (~ok => "failed" \in m)
  BY <1>6
<1>16. held \in SUBSET AllFrames /\ stale \in SUBSET AllFrames /\ 0 \in Offsets
  BY <1>3, Parameters DEF ClientType, Revoked, Offsets
<1> HIDE DEF m, held, stale
<1>11. /\ c \in ClientType /\ c.held = held /\ c.phase = "ready"
       /\ c.unread = 0 /\ c.marks = m
  BY <1>2, <1>3, <1>7, <1>16 DEF ClientType
<1> HIDE DEF c, d
<1>12. Gap(d.readPos, d.writePos) = 0
  <2>1. d.readPos.at \in Int
    BY <1>5, Parameters DEF Addr, Offsets
  <2>2. QED
    BY <1>5, <2>1, GapIs
<1>17. held = IF ok THEN {} ELSE client[i].held
  BY DEF held
<1>13. ASSUME inst'[i] = d, client'[i] = c PROVE PauseInv(i)' /\ LentInv(i)'
  <2>1. PauseInv(i)'
    BY <1>2, <1>5, <1>10, <1>11, <1>13 DEF PauseInv, OwnsJob
  <2>2. LentInv(i)'
    BY <1>3, <1>5, <1>8, <1>9, <1>10, <1>11, <1>13, <1>17 DEF LentInv
  <2>3. QED
    BY <2>1, <2>2
<1>14. reg' \in RegType /\ job' \in JobType \cup {None}
  BY <1>2, <1>3 DEF RegType, InstType
<1>15. inst' = [inst EXCEPT ![i] = d]
  BY <1>1 DEF d
<1>18. QED
  BY <1>2, <1>4, <1>5, <1>11, <1>12, <1>13, <1>14, <1>15, CommandMoves

LEMMA DecCloseMoves ==
  ASSUME IInv, ~crossed, NEW i \in Insts, DecClose(i)
  PROVE  Moves(i)
<1> DEFINE d == [inst[i] EXCEPT !.isInitialized = FALSE]
           c == NewClient("closed")
<1>1. /\ inst' = [inst EXCEPT ![i] = d] /\ client' = [client EXCEPT ![i] = c]
      /\ \/ UsesVpu(i) /\ job' = None
         \/ UNCHANGED <<crossed, job>>
      /\ UNCHANGED reg
  BY DEF DecClose
<1>2. TypeOK /\ inst[i] \in InstType
  BY DEF IInv, TypeOK
<1>3. d \in InstType /\ c \in ClientType /\ c.phase = "closed" /\ c.marks = {}
  <2>1. d \in InstType
    BY <1>2 DEF InstType
  <2>2. c \in ClientType /\ c.phase = "closed" /\ c.marks = {}
    BY Parameters DEF NewClient, ClientType, Phases, Offsets
  <2>3. QED
    BY <2>1, <2>2
<1> HIDE DEF d, c
<1>4. inst'[i] = d /\ client'[i] = c
  BY <1>1, <1>2 DEF TypeOK
<1>5. crossed' \in BOOLEAN
  BY <1>1, <1>2 DEF UsesVpu, TypeOK
<1>6. DecInv(i)'
  BY <1>3, <1>4 DEF DecInv
<1>7. QED
  BY <1>1, <1>2, <1>3, <1>4, <1>5, <1>6 DEF Moves, TypeOK

-----------------------------------------------------------------------------
(* The theorems.                                                             *)

LEMMA DecoderInit == Init => IInv
<1> SUFFICES ASSUME Init PROVE IInv
  OBVIOUS
<1>1. \A i \in Insts : Base(i) \in Addr
  BY BaseIs
<1>2. inst \in [Insts -> InstType]
  BY <1>1 DEF Init, Fresh, InstType
<1>3. /\ client \in [Insts -> ClientType]
      /\ \A i \in Insts : client[i].phase = "closed" /\ client[i].marks = {}
  BY Parameters DEF Init, NewClient, ClientType, Phases, Offsets
<1>4. reg \in RegType /\ job \in JobType \cup {None} /\ crossed \in BOOLEAN
  <2>1. PICK i \in Insts : reg = [wr |-> Base(i), rd |-> Base(i), disp |-> {}]
    BY DEF Init
  <2>2. reg \in RegType
    BY <1>1, <2>1 DEF RegType
  <2>3. job = None /\ crossed = FALSE
    BY DEF Init
  <2>4. QED
    BY <2>2, <2>3
<1>5. QED
  BY <1>2, <1>3, <1>4 DEF IInv, TypeOK, DecInv

LEMMA DecoderStep == IInv /\ [Next]_vars => IInv'
<1> SUFFICES ASSUME IInv, [Next]_vars PROVE IInv'
  OBVIOUS
<1>1. ASSUME ~crossed, NEW i \in Insts, Ioctl(i) PROVE Moves(i)
  BY <1>1, DecOpenMoves, SeqInfoRefusedMoves, SeqInfoOkMoves, SeqInfoRejectedMoves,
     SeqInfoPausedMoves, SeqInfoFailsMoves, DecRegFrameBufMoves, FrameOkMoves,
     FrameUntoldMoves, FramePausedMoves, FrameFailsMoves, DecClrDspFlagMoves,
     DecFlushMoves, DecCloseMoves DEF Ioctl, DecSetSeqInfo, DecRunFrame
<1>2. CASE Next
  BY <1>1, <1>2, MovesKeep DEF Next
<1>3. CASE UNCHANGED vars
  BY <1>3 DEF vars, IInv, TypeOK, DecInv, RingInv, PauseInv, LentInv, OwnsJob
<1>4. QED
  BY <1>2, <1>3

(* Every variable keeps its type: in particular the unread bytes of a stream *)
(* never fill the ring, so that its two positions always tell full from      *)
(* empty (FillBuffer).                                                       *)
THEOREM DecoderTypeCorrect == Spec => []TypeOK
<1>1. IInv => TypeOK
  BY DEF IInv
<1>2. QED
  BY <1>1, DecoderInit, DecoderStep, PTL DEF Spec

(* The VPU is never led to bytes it has read or that were never fed, for any *)
(* ring size and any number of instances: the positions that FillBuffer, the *)
(* commands and the flush move enclose exactly what was fed and not read.    *)
THEOREM RingAlwaysSound == Spec => []RingSound
<1>1. IInv => RingSound
  BY DEF IInv, DecInv, RingInv, RingSound, OwnRing
<1>2. QED
  BY <1>1, DecoderInit, DecoderStep, PTL DEF Spec

(* No frame buffer is lost to the decoder and none lent twice: what          *)
(* frameDisplayFlag and clearDisplayIndexes say, which five functions update *)
(* at different times, is what the user has on display.                      *)
THEOREM FramesAlwaysAccounted == Spec => []FramesAccounted
<1>1. IInv => FramesAccounted
  BY DEF IInv, DecInv, LentInv, FramesAccounted
<1>2. QED
  BY <1>1, DecoderInit, DecoderStep, PTL DEF Spec

(* No frame is decoded into while it is on display, whatever fails, unless   *)
(* its user returned a frame that a flush had revoked.                       *)
THEOREM HeldAlwaysIntact == Spec => []HeldIntact
<1>1. IInv => HeldIntact
  BY DEF IInv, DecInv, LentInv, HeldIntact
<1>2. QED
  BY <1>1, DecoderInit, DecoderStep, PTL DEF Spec

(* A command that waits for more stream in the VPU is found there by the     *)
(* ioctl that brings it, unless the instance itself put another over it.     *)
THEOREM PausedCommandAlwaysKept == Spec => []PausedCommandKept
<1>1. IInv => PausedCommandKept
  BY DEF IInv, DecInv, PauseInv, OwnsJob, PausedCommandKept
<1>2. QED
  BY <1>1, DecoderInit, DecoderStep, PTL DEF Spec

=============================================================================
