------------------------- MODULE BufferTablesProofs --------------------------
(***************************************************************************)
(* Theorems on the libraries that keep a table of their client's buffers:  *)
(* the surface caches of a graphic tool (GTSurfaces) and the slot tables   *)
(* of a capture handle (VideoInput), for any number of buffers, of slots   *)
(* and of threads.                                                         *)
(***************************************************************************)
EXTENDS GTSurfaces, VideoInput, FiniteSetTheorems, SequenceTheorems,
        WellFoundedInduction, TLAPS

-----------------------------------------------------------------------------
(* GTSurfaces.                                                               *)

Slot == [key : Blocks \cup Fds \cup {Nil}, of : Blocks \cup {Nil}]

SlotsTyped(n) == \A side \in Sides : cache[side] \in [1 .. n -> Slot]

SurfTypeOK ==
  /\ tool \in SurfTools \cup {Nil}
  /\ memory \in [Fds -> Blocks]
  /\ \E n \in Nat : SlotsTyped(n)
  /\ \A side \in Sides : live[side] \in Int

\* The keys that a side of the open tool looks buffers up by.
KeysOf(side) == IF ByFd(tool, side) THEN Fds ELSE Blocks

(* What a slot of one side, slots, says of its buffer, when marked is what   *)
(* befell the handle: a key that is a descriptor names the memory that it    *)
(* had when the surface was made.                                            *)
SlotsSound(side, slots, marked) == \A i \in DOMAIN slots :
  LET c == slots[i]
  IN  /\ c.key # Nil => c.key \in KeysOf(side)
      /\ c.key = Nil => c.of = Nil
      /\ c.key # Nil /\ c.of = Nil => tool # "deinterlace" /\ side \in marked
      /\ c.of # Nil => IF ByFd(tool, side) THEN c.of = memory[c.key] \/ c.key \in marked
                       ELSE c.of = c.key

\* A buffer has one slot.
SlotsDistinct(side, slots, marked) == \A i, j \in DOMAIN slots :
  slots[i].key # Nil /\ slots[i].key = slots[j].key /\ i # j
    => tool # "deinterlace" /\ side \in marked

MadeOf(slots) == {i \in DOMAIN slots : slots[i].of # Nil}

SideInv(side) ==
  /\ SlotsSound(side, cache[side], marks)
  /\ SlotsDistinct(side, cache[side], marks)
  /\ live[side] = Cardinality(MadeOf(cache[side]))

SurfInv ==
  /\ SurfTypeOK
  /\ \A side \in Sides : SideInv(side)
  /\ tool = Nil => SlotIds = {} /\ wrong = {}
  /\ DrawsWhatIsNamed

(* The least of numbers is one of them.                                      *)
LEMMA LeastIn ==
  ASSUME NEW S \in SUBSET Nat, S # {}
  PROVE  Least(S) \in S
<1>0. S \subseteq Nat
  OBVIOUS
<1>1. PICK n \in S : \A i \in S : ~(<<i, n>> \in OpToRel(<, Nat))
  BY <1>0, WFMin, NatLessThanWellFounded, Zenon
<1>2. \A i \in S : i \in Nat /\ (i < n => <<i, n>> \in OpToRel(<, Nat))
  BY DEF OpToRel
<1>3. \A i \in S : ~(i < n)
  BY <1>1, <1>2, Zenon
<1>4. \A i \in S : n <= i
  <2>1. n \in Nat /\ \A i \in S : i \in Nat
    BY <1>0
  <2>2. QED
    BY <1>3, <2>1
<1>5. QED
  BY <1>4 DEF Least

(* The slots that hold a surface are finitely many; one more has one more.   *)
LEMMA MadeOfOneMore ==
  ASSUME NEW n \in Nat, NEW slots \in [1 .. n -> Slot], NEW i \in 1 .. n,
         NEW c \in Slot, slots[i].of = Nil, c.of # Nil
  PROVE  Cardinality(MadeOf([slots EXCEPT ![i] = c])) = Cardinality(MadeOf(slots)) + 1
<1>1. MadeOf(slots) \subseteq 1 .. n /\ i \notin MadeOf(slots)
  BY DEF MadeOf
<1>2. IsFiniteSet(MadeOf(slots))
  BY <1>1, FS_Interval, FS_Subset
<1>3. MadeOf([slots EXCEPT ![i] = c]) = MadeOf(slots) \cup {i}
  BY DEF MadeOf
<1>4. QED
  BY <1>1, <1>2, <1>3, FS_AddElement

(* Slots that all hold different keys hold as many keys as there are slots.  *)
LEMMA AsManyKeysAsSlots ==
  ASSUME NEW n \in Nat, NEW slots \in [1 .. n -> Slot],
         \A i, j \in 1 .. n : slots[i].key = slots[j].key => i = j
  PROVE  Cardinality({slots[i].key : i \in 1 .. n}) = n
<1> DEFINE keys == {slots[i].key : i \in 1 .. n}
           f == [i \in 1 .. n |-> slots[i].key]
<1>1. f \in Surjection(1 .. n, keys) /\ f \in Injection(1 .. n, keys)
  BY DEF Surjection, Injection, IsInjective
<1>2. IsFiniteSet(1 .. n) /\ Cardinality(1 .. n) = n
  BY FS_Interval
<1> HIDE DEF keys, f
<1>3. Cardinality(keys) = Cardinality(1 .. n)
  BY <1>1, <1>2, FS_Surjection
<1>4. QED
  BY <1>2, <1>3 DEF keys

(* The first slot with a key, when there is one, and the first empty one.    *)
LEMMA HitIsASlot ==
  ASSUME NEW n \in Nat, SlotsTyped(n), NEW side \in Sides, NEW key,
         Hits(side, key) # {}
  PROVE  /\ Least(Hits(side, key)) \in 1 .. n
         /\ cache[side][Least(Hits(side, key))].key = key
<1>1. SlotIds = 1 .. n
  BY DEF SlotsTyped, SlotIds, Sides
<1>2. Hits(side, key) \in SUBSET Nat
  BY <1>1 DEF Hits
<1>3. Least(Hits(side, key)) \in Hits(side, key)
  BY <1>2, LeastIn
<1>4. QED
  BY <1>1, <1>3 DEF Hits

(* A side that a command leaves alone stays as it is, with more marks.       *)
LEMMA FoundKeeps ==
  ASSUME NEW n \in Nat, SlotsTyped(n), NEW side \in Sides, SideInv(side),
         live[side] \in Int, NEW marked, marks \subseteq marked, NEW surface
  PROVE  LET looked == Found(side, surface)
         IN  /\ looked.slots \in [1 .. n -> Slot] /\ looked.new \in Int
             /\ live[side] + looked.new = Cardinality(MadeOf(looked.slots))
             /\ SlotsSound(side, looked.slots, marked)
             /\ SlotsDistinct(side, looked.slots, marked)
<1>1. /\ cache[side] \in [1 .. n -> Slot]
      /\ live[side] + 0 = Cardinality(MadeOf(cache[side]))
  BY DEF SlotsTyped, SideInv
<1>2. SlotsSound(side, cache[side], marked)
  BY DEF SideInv, SlotsSound
<1>3. SlotsDistinct(side, cache[side], marked)
  BY DEF SideInv, SlotsDistinct
<1>4. QED
  BY <1>1, <1>2, <1>3 DEF Found

(* A buffer whose slot holds NULL, or that has no slot, so that its surface  *)
(* was not found: either a surface failed to be made, or no slot has its key.*)
LEMMA NotCached ==
  ASSUME NEW n \in Nat, SlotsTyped(n), NEW side \in Sides, SideInv(side),
         NEW key, key # Nil, CachedSurface(side, key) = Nil
  PROVE  \/ \A i \in 1 .. n : cache[side][i].key # key
         \/ tool # "deinterlace" /\ side \in marks
<1>1. SlotIds = 1 .. n /\ DOMAIN cache[side] = 1 .. n
  BY DEF SlotsTyped, SlotIds, Sides
<1>2. CASE Hits(side, key) = {}
  BY <1>1, <1>2 DEF Hits
<1>3. CASE Hits(side, key) # {}
  <2> DEFINE i == Least(Hits(side, key))
  <2>1. i \in 1 .. n /\ cache[side][i].key = key
    BY <1>3, HitIsASlot
  <2>2. cache[side][i].of = Nil
    BY <1>3 DEF CachedSurface
  <2> HIDE DEF i
  <2>3. QED
    BY <1>1, <2>1, <2>2 DEF SideInv, SlotsSound
<1>4. QED
  BY <1>2, <1>3

(* A surface that is made, or is not, gets the first empty slot: the side    *)
(* stays sound, and no other slot has the key unless a surface failed to be  *)
(* made for this side.                                                       *)
LEMMA MadeKeeps ==
  ASSUME NEW n \in Nat, SlotsTyped(n), NEW side \in Sides, SideInv(side),
         live[side] \in Int, NEW fd \in Fds, memory \in [Fds -> Blocks],
         CachedSurface(side, KeyOf(side, fd)) = Nil, EmptySlots(side) # {},
         NEW surface \in {memory[fd], Nil},
         NEW marked, marks \subseteq marked, surface = Nil => side \in marked
  PROVE  LET looked == Made(side, KeyOf(side, fd), surface)
         IN  /\ looked.slots \in [1 .. n -> Slot] /\ looked.new \in Int
             /\ live[side] + looked.new = Cardinality(MadeOf(looked.slots))
             /\ SlotsSound(side, looked.slots, marked)
             /\ SlotsDistinct(side, looked.slots, marked)
<1> DEFINE key == KeyOf(side, fd)
           l == Least(EmptySlots(side))
           c == Recorded(key, surface)
           slots == [cache[side] EXCEPT ![l] = c]
<1>1. key \in KeysOf(side) /\ key \in Blocks \cup Fds /\ key # Nil /\ memory[fd] # Nil
  BY SurfaceBounds DEF KeyOf, KeysOf
<1>2. cache[side] \in [1 .. n -> Slot] /\ DOMAIN cache[side] = 1 .. n
  BY DEF SlotsTyped
<1>3. l \in 1 .. n /\ cache[side][l].key = Nil /\ cache[side][l].of = Nil
  <2>1. l \in 1 .. n /\ cache[side][l].key = Nil
    BY HitIsASlot DEF EmptySlots
  <2> HIDE DEF l
  <2>2. QED
    BY <1>2, <2>1 DEF SideInv, SlotsSound
<1>4. c \in Slot
  BY <1>1 DEF Recorded, EmptySlot, Slot
<1>5. c.of = surface /\ (c.key = key \/ (c.key = Nil /\ surface = Nil))
  BY DEF Recorded, EmptySlot
<1>6. c.key # Nil /\ c.of = Nil => tool # "deinterlace"
  BY DEF Recorded, EmptySlot
<1>7. \/ \A i \in 1 .. n : cache[side][i].key # key
      \/ tool # "deinterlace" /\ side \in marks
  BY <1>1, NotCached
<1>8. c.of # Nil => IF ByFd(tool, side) THEN c.of = memory[c.key] ELSE c.of = c.key
  <2>1. ASSUME c.of # Nil
        PROVE  c.of = memory[fd] /\ c.key = key
    BY <1>5, <2>1
  <2>2. key = IF ByFd(tool, side) THEN fd ELSE memory[fd]
    BY DEF KeyOf
  <2> HIDE DEF c, key
  <2>3. QED
    BY <2>1, <2>2
<1> HIDE DEF key, l, c
<1>9. slots \in [1 .. n -> Slot] /\ DOMAIN slots = 1 .. n
  BY <1>2, <1>4
<1>10. \A i \in 1 .. n : slots[i] = IF i = l THEN c ELSE cache[side][i]
  BY <1>2, <1>3
<1>11. Cardinality(MadeOf(slots)) = live[side] + (IF surface = Nil THEN 0 ELSE 1)
  <2>1. live[side] = Cardinality(MadeOf(cache[side]))
    BY DEF SideInv
  <2>2. CASE surface # Nil
    BY <1>2, <1>3, <1>4, <1>5, <2>1, <2>2, MadeOfOneMore
  <2>3. CASE surface = Nil
    <3>1. MadeOf(slots) = MadeOf(cache[side])
      BY <1>2, <1>3, <1>5, <1>9, <1>10, <2>3 DEF MadeOf
    <3>2. QED
      BY <2>1, <2>3, <3>1
  <2>4. QED
    BY <2>2, <2>3
<1>12. SlotsSound(side, slots, marked)
  <2> HIDE DEF slots
  <2> SUFFICES ASSUME NEW i \in 1 .. n
               PROVE  LET b == slots[i]
                      IN  /\ b.key # Nil => b.key \in KeysOf(side)
                          /\ b.key = Nil => b.of = Nil
                          /\ b.key # Nil /\ b.of = Nil => tool # "deinterlace" /\ side \in marked
                          /\ b.of # Nil => IF ByFd(tool, side)
                                           THEN b.of = memory[b.key] \/ b.key \in marked
                                           ELSE b.of = b.key
    BY <1>9 DEF SlotsSound
  <2>1. CASE i = l
    <3>1. slots[i] = c
      BY <1>10, <2>1
    <3>2. QED
      BY <1>1, <1>5, <1>6, <1>8, <3>1
  <2>2. CASE i # l
    <3>1. slots[i] = cache[side][i]
      BY <1>10, <2>2
    <3>2. QED
      BY <1>2, <3>1 DEF SideInv, SlotsSound
  <2>3. QED
    BY <2>1, <2>2
<1>13. SlotsDistinct(side, slots, marked)
  <2> HIDE DEF slots
  <2> SUFFICES ASSUME NEW i \in 1 .. n, NEW j \in 1 .. n,
                      slots[i].key # Nil, slots[i].key = slots[j].key, i # j
               PROVE  tool # "deinterlace" /\ side \in marked
    BY <1>9 DEF SlotsDistinct
  <2>1. CASE i # l /\ j # l
    BY <1>2, <1>10, <2>1 DEF SideInv, SlotsDistinct
  <2>2. CASE i = l
    BY <1>5, <1>7, <1>10, <2>2
  <2>3. CASE j = l
    BY <1>5, <1>7, <1>10, <2>3
  <2>4. QED
    BY <2>1, <2>2, <2>3
<1>14. /\ Made(side, key, surface).slots = slots
       /\ Made(side, key, surface).new = IF surface = Nil THEN 0 ELSE 1
  BY DEF Made, l, c
<1> HIDE DEF slots
<1>15. QED
  BY <1>9, <1>11, <1>12, <1>13, <1>14 DEF key

(* What a look-up leaves of one side keeps the side's invariant.             *)
LEMMA LookupKeeps ==
  ASSUME SurfInv, NEW n \in Nat, SlotsTyped(n), NEW side \in Sides, NEW fd \in Fds,
         NEW looked \in Lookups(side, fd),
         NEW marked, marks \subseteq marked, looked.failed => side \in marked
  PROVE  /\ looked.slots \in [1 .. n -> Slot] /\ looked.new \in Int
         /\ live[side] + looked.new = Cardinality(MadeOf(looked.slots))
         /\ SlotsSound(side, looked.slots, marked)
         /\ SlotsDistinct(side, looked.slots, marked)
<1> DEFINE key == KeyOf(side, fd)
           cached == CachedSurface(side, key)
<1>1. SideInv(side) /\ live[side] \in Int /\ memory \in [Fds -> Blocks]
  BY DEF SurfInv, SurfTypeOK
<1>2. CASE \E surface : looked = Found(side, surface)
  BY <1>1, <1>2, FoundKeeps
<1>3. CASE /\ cached = Nil /\ EmptySlots(side) # {}
           /\ \E surface \in {memory[fd], Nil} : looked = Made(side, key, surface)
  <2>1. PICK surface \in {memory[fd], Nil} : looked = Made(side, key, surface)
    BY <1>3
  <2>2. surface = Nil => side \in marked
    BY <2>1 DEF Made
  <2>3. QED
    BY <1>1, <1>3, <2>1, <2>2, MadeKeeps
<1>4. QED
  BY <1>2, <1>3 DEF Lookups

(* The surface a look-up goes on with, when it is not of the buffer's memory,*)
(* is one that a marked descriptor names, or is none because a surface       *)
(* failed to be made or every slot holds another buffer.                     *)
LEMMA WhatIsDrawn ==
  ASSUME SurfInv, NEW n \in Nat, SlotsTyped(n), NEW side \in Sides, NEW fd \in Fds,
         NEW looked \in Lookups(side, fd), looked.surface # memory[fd],
         NEW marked, marks \subseteq marked, looked.failed => side \in marked
  PROVE  IF looked.surface = Nil
           THEN \/ side \in marked
                \/ Cardinality({looked.slots[i].key : i \in 1 .. n}
                                 \ {Nil, KeyOf(side, fd)}) = n
           ELSE ByFd(tool, side) /\ KeyOf(side, fd) \in marked
<1> DEFINE key == KeyOf(side, fd)
           cached == CachedSurface(side, key)
<1>1. /\ SideInv(side) /\ memory \in [Fds -> Blocks]
      /\ cache[side] \in [1 .. n -> Slot] /\ DOMAIN cache[side] = 1 .. n
      /\ SlotIds = 1 .. n
  BY DEF SurfInv, SurfTypeOK, SlotsTyped, SlotIds, Sides
<1>2. key # Nil /\ memory[fd] # Nil /\ key = IF ByFd(tool, side) THEN fd ELSE memory[fd]
  BY <1>1, SurfaceBounds DEF KeyOf
<1> HIDE DEF key
<1>3. CASE cached # Nil
  <2>1. looked.surface = cached
    BY <1>3 DEF Lookups, Found, key
  <2> DEFINE i == Least(Hits(side, key))
  <2>2. Hits(side, key) # {} /\ cached = cache[side][i].of
    BY <1>3 DEF CachedSurface
  <2>3. i \in 1 .. n /\ cache[side][i].key = key
    BY <2>2, HitIsASlot
  <2> HIDE DEF cached, i
  <2>4. IF ByFd(tool, side) THEN cached = memory[key] \/ key \in marks ELSE cached = key
    BY <1>1, <1>3, <2>2, <2>3 DEF SideInv, SlotsSound
  <2>5. ByFd(tool, side) /\ key \in marks
    BY <1>2, <2>1, <2>4
  <2>6. QED
    BY <1>3, <2>1, <2>5 DEF key
<1>4. CASE cached = Nil /\ EmptySlots(side) # {}
  <2>1. PICK surface \in {memory[fd], Nil} : looked = Made(side, key, surface)
    BY <1>4 DEF Lookups, key
  <2>2. looked.surface = Nil /\ looked.failed
    BY <2>1 DEF Made
  <2>3. QED
    BY <2>2
<1>5. CASE cached = Nil /\ EmptySlots(side) = {}
  <2>1. looked.surface = Nil /\ looked.slots = cache[side]
    BY <1>5 DEF Lookups, key, Found, NoSlot
  <2>2. CASE tool # "deinterlace" /\ side \in marks
    BY <2>1, <2>2
  <2>3. CASE ~(tool # "deinterlace" /\ side \in marks)
    <3>1. \A i \in 1 .. n : cache[side][i].key # key
      BY <1>1, <1>2, <1>5, <2>3, NotCached
    <3>2. \A i \in 1 .. n : cache[side][i].key # Nil
      BY <1>1, <1>5 DEF EmptySlots, Hits
    <3>3. \A i, j \in 1 .. n : cache[side][i].key = cache[side][j].key => i = j
      BY <1>1, <2>3, <3>2 DEF SideInv, SlotsDistinct
    <3>4. Cardinality({cache[side][i].key : i \in 1 .. n}) = n
      BY <1>1, <3>3, AsManyKeysAsSlots
    <3>5. {cache[side][i].key : i \in 1 .. n} \ {Nil, key}
            = {cache[side][i].key : i \in 1 .. n}
      BY <3>1, <3>2
    <3>6. QED
      BY <2>1, <3>4, <3>5 DEF key
  <2>4. QED
    BY <2>2, <2>3
<1>6. QED
  BY <1>3, <1>4, <1>5

(* Empty caches, of the handle that is opened next or of one just closed.    *)
LEMMA EmptySide ==
  ASSUME NEW n \in Nat, NEW side \in Sides
  PROVE  /\ EmptyCaches(n)[side] \in [1 .. n -> Slot]
         /\ \A i \in 1 .. n : EmptyCaches(n)[side][i] = EmptySlot
         /\ Cardinality(MadeOf(EmptyCaches(n)[side])) = 0
<1>1. EmptyCaches(n)[side] = [i \in 1 .. n |-> EmptySlot]
  BY DEF EmptyCaches
<1>2. EmptySlot \in Slot /\ EmptySlot.of = Nil
  BY DEF EmptySlot, Slot
<1>3. MadeOf(EmptyCaches(n)[side]) = {}
  BY <1>1, <1>2 DEF MadeOf
<1>4. QED
  BY <1>1, <1>2, <1>3, FS_EmptySet

(* Before the first open both caches are empty and nothing is marked.        *)
LEMMA SurfInitially == SurfStart => SurfInv
<1> SUFFICES ASSUME SurfStart PROVE SurfInv
  OBVIOUS
<1>1. memory \in [Fds -> Blocks]
  BY SurfaceBounds DEF SurfStart, FirstMemory
<1>2. SlotsTyped(0) /\ SlotIds = {} /\ \A side \in Sides : DOMAIN cache[side] = {}
  BY EmptySide DEF SurfStart, SlotsTyped, SlotIds, Sides
<1>3. \A side \in Sides : live[side] = Cardinality(MadeOf(cache[side]))
  BY EmptySide DEF SurfStart
<1>4. \A side \in Sides : SideInv(side)
  BY <1>2, <1>3 DEF SideInv, SlotsSound, SlotsDistinct
<1>5. SurfTypeOK
  BY <1>1, <1>2 DEF SurfStart, SurfTypeOK
<1>6. DrawsWhatIsNamed
  BY DEF SurfStart, DrawsWhatIsNamed
<1>7. QED
  BY <1>2, <1>4, <1>5, <1>6 DEF SurfInv, SurfStart

(* Every call on a graphic tool, failing surfaces included, keeps the        *)
(* invariant of its caches.                                                  *)
LEMMA SurfStep == SurfInv /\ [SurfNext]_surfVars => SurfInv'
<1> SUFFICES ASSUME SurfInv, [SurfNext]_surfVars PROVE SurfInv'
  OBVIOUS
<1>0. PICK n \in Nat : SlotsTyped(n)
  BY DEF SurfInv, SurfTypeOK
<1>1. /\ tool \in SurfTools \cup {Nil} /\ memory \in [Fds -> Blocks]
      /\ \A side \in Sides : /\ live[side] \in Int /\ SideInv(side)
                             /\ cache[side] \in [1 .. n -> Slot]
                             /\ DOMAIN cache[side] = 1 .. n
      /\ SlotIds = 1 .. n
  BY <1>0 DEF SurfInv, SurfTypeOK, SlotsTyped, SlotIds, Sides
<1>2. ASSUME NEW f \in Fds, NEW b \in Blocks, ReplaceBuffer(f, b)
      PROVE  SurfInv'
  <2> USE <1>2 DEF ReplaceBuffer
  <2>1. memory' \in [Fds -> Blocks]
    BY <1>1
  <2>2. SurfTypeOK'
    BY <1>0, <1>1, <2>1 DEF SurfTypeOK, SlotsTyped
  <2>3. \A side \in Sides : SlotsSound(side, cache[side], marks)'
    <3> SUFFICES ASSUME NEW side \in Sides, NEW i \in 1 .. n
                 PROVE  LET c == cache[side][i]
                        IN  /\ c.key # Nil => c.key \in KeysOf(side)
                            /\ c.key = Nil => c.of = Nil
                            /\ c.key # Nil /\ c.of = Nil
                                 => tool # "deinterlace" /\ side \in marks'
                            /\ c.of # Nil => IF ByFd(tool, side)
                                             THEN c.of = memory'[c.key] \/ c.key \in marks'
                                             ELSE c.of = c.key
      BY <1>1 DEF SlotsSound, KeysOf, ByFd
    <3> DEFINE c == cache[side][i]
    <3>1. /\ c.key # Nil => c.key \in KeysOf(side)
          /\ c.key = Nil => c.of = Nil
          /\ c.key # Nil /\ c.of = Nil => tool # "deinterlace" /\ side \in marks
          /\ c.of # Nil => IF ByFd(tool, side) THEN c.of = memory[c.key] \/ c.key \in marks
                           ELSE c.of = c.key
      BY <1>1 DEF SideInv, SlotsSound
    <3>2. ASSUME ByFd(tool, side), c.of # Nil
          PROVE  c.of = memory'[c.key] \/ c.key \in marks'
      <4>1. c.key \in Fds
        BY <3>1, <3>2 DEF KeysOf
      <4> HIDE DEF c
      <4>2. QED
        BY <1>1, <3>1, <3>2, <4>1
    <3>3. marks \subseteq marks'
      OBVIOUS
    <3> HIDE DEF c
    <3>4. QED
      BY <3>1, <3>2, <3>3 DEF c
  <2>4. \A side \in Sides : SlotsDistinct(side, cache[side], marks)'
    BY <1>1 DEF SideInv, SlotsDistinct
  <2>5. \A side \in Sides : SideInv(side)'
    BY <1>1, <2>3, <2>4 DEF SideInv, MadeOf
  <2>6. QED
    BY <2>2, <2>5 DEF SurfInv, DrawsWhatIsNamed
<1>3. ASSUME NEW t \in SurfTools, NEW m \in Sizes, SurfOpen(t, m)
      PROVE  SurfInv'
  <2> USE <1>3 DEF SurfOpen
  <2>1. m \in Nat /\ t # Nil
    BY SurfaceBounds
  <2>2. SlotsTyped(m)'
    BY <2>1, EmptySide DEF SlotsTyped
  <2>3. n = 0 /\ wrong = {}
    BY <1>1 DEF SurfInv
  <2>4. \A side \in Sides : live[side] = 0
    <3>1. \A side \in Sides : MadeOf(cache[side]) = {}
      BY <1>1, <2>3 DEF MadeOf
    <3>2. QED
      BY <1>1, <3>1, FS_EmptySet DEF SideInv
  <2>5. \A side \in Sides : SideInv(side)'
    <3> SUFFICES ASSUME NEW side \in Sides
                 PROVE  SideInv(side)'
      OBVIOUS
    <3>1. \A i \in DOMAIN cache'[side] : cache'[side][i] = EmptySlot
      BY <2>1, <2>2, EmptySide DEF SlotsTyped
    <3>2. EmptySlot.key = Nil /\ EmptySlot.of = Nil
      BY DEF EmptySlot
    <3>3. SlotsSound(side, cache[side], marks)' /\ SlotsDistinct(side, cache[side], marks)'
      BY <3>1, <3>2 DEF SlotsSound, SlotsDistinct
    <3>4. live'[side] = Cardinality(MadeOf(cache'[side]))
      BY <2>1, <2>4, EmptySide
    <3>5. QED
      BY <3>3, <3>4 DEF SideInv, MadeOf
  <2>6. SurfTypeOK'
    BY <1>1, <2>1, <2>2 DEF SurfTypeOK
  <2>7. QED
    BY <2>1, <2>3, <2>5, <2>6 DEF SurfInv, DrawsWhatIsNamed
<1>4. ASSUME NEW fin \in Fds, NEW fout \in Fds, SurfDo(fin, fout)
      PROVE  SurfInv'
  <2>1. PICK source \in Lookups("in", fin) : \E target \in Targets(source, fout) :
              /\ cache' = [in |-> source.slots, out |-> target.slots]
              /\ live' = [in |-> live["in"] + source.new, out |-> live["out"] + target.new]
              /\ wrong' = IF ~Draws(source, target) THEN {}
                          ELSE {d \in {Drawn("in", fin, source), Drawn("out", fout, target)} :
                                  d.got # memory[d.fd]}
              /\ marks' = marks \cup {side \in Sides : IF side = "in" THEN source.failed
                                                       ELSE target.failed}
    BY <1>4 DEF SurfDo
  <2>2. PICK target \in Targets(source, fout) :
              /\ cache' = [in |-> source.slots, out |-> target.slots]
              /\ live' = [in |-> live["in"] + source.new, out |-> live["out"] + target.new]
              /\ wrong' = IF ~Draws(source, target) THEN {}
                          ELSE {d \in {Drawn("in", fin, source), Drawn("out", fout, target)} :
                                  d.got # memory[d.fd]}
              /\ marks' = marks \cup {side \in Sides : IF side = "in" THEN source.failed
                                                       ELSE target.failed}
    BY <2>1
  <2>3. tool # Nil /\ tool' = tool /\ memory' = memory
    BY <1>4 DEF SurfDo
  <2>4. /\ marks \subseteq marks'
        /\ source.failed => "in" \in marks'
        /\ target.failed => "out" \in marks'
    BY <2>2 DEF Sides
  <2>5. /\ cache'["in"] = source.slots /\ cache'["out"] = target.slots
        /\ live'["in"] = live["in"] + source.new
        /\ live'["out"] = live["out"] + target.new
    BY <2>2
  <2>6. /\ source.slots \in [1 .. n -> Slot] /\ source.new \in Int
        /\ live["in"] + source.new = Cardinality(MadeOf(source.slots))
        /\ SlotsSound("in", source.slots, marks')
        /\ SlotsDistinct("in", source.slots, marks')
    BY <1>0, <2>4, LookupKeeps DEF Sides
  <2>7. /\ target.slots \in [1 .. n -> Slot] /\ target.new \in Int
        /\ live["out"] + target.new = Cardinality(MadeOf(target.slots))
        /\ SlotsSound("out", target.slots, marks')
        /\ SlotsDistinct("out", target.slots, marks')
    <3>1. CASE target = Found("out", Nil)
      BY <1>0, <1>1, <2>4, <3>1, FoundKeeps DEF Sides
    <3>2. CASE target \in Lookups("out", fout)
      BY <1>0, <2>4, <3>2, LookupKeeps DEF Sides
    <3>3. QED
      BY <3>1, <3>2 DEF Targets
  <2>8. SlotsTyped(n)' /\ SlotIds' = 1 .. n
    BY <2>5, <2>6, <2>7 DEF SlotsTyped, SlotIds, Sides
  <2>9. SurfTypeOK'
    BY <1>1, <2>3, <2>5, <2>6, <2>7, <2>8 DEF SurfTypeOK, Sides
  <2>10. SideInv("in")'
    BY <2>3, <2>5, <2>6 DEF SideInv, SlotsSound, SlotsDistinct, MadeOf, KeysOf, ByFd
  <2>11. SideInv("out")'
    BY <2>3, <2>5, <2>7 DEF SideInv, SlotsSound, SlotsDistinct, MadeOf, KeysOf, ByFd
  <2>12. ASSUME NEW d \in wrong'
         PROVE  IF d.got = Nil
                  THEN /\ tool # "deinterlace"
                       /\ \/ d.side \in marks'
                          \/ Cardinality({cache'[d.side][i].key : i \in 1 .. n}
                                           \ {Nil, d.key}) = n
                  ELSE ByFd(tool, d.side) /\ d.key \in marks'
    <3>1. Draws(source, target)
      BY <2>2, <2>12
    <3>2. CASE d = Drawn("in", fin, source)
      <4>1. /\ d.side = "in" /\ d.key = KeyOf("in", fin)
            /\ d.got = source.surface /\ d.fd = fin
        BY <3>2 DEF Drawn
      <4>2. source.surface # memory[fin]
        BY <2>2, <2>12, <4>1
      <4>3. IF source.surface = Nil
              THEN \/ "in" \in marks'
                   \/ Cardinality({source.slots[i].key : i \in 1 .. n}
                                    \ {Nil, KeyOf("in", fin)}) = n
              ELSE ByFd(tool, "in") /\ KeyOf("in", fin) \in marks'
        BY <1>0, <2>4, <4>2, WhatIsDrawn DEF Sides
      <4>4. QED
        BY <2>5, <3>1, <4>1, <4>3 DEF Draws
    <3>3. CASE d = Drawn("out", fout, target)
      <4>1. /\ d.side = "out" /\ d.key = KeyOf("out", fout)
            /\ d.got = target.surface /\ d.fd = fout
        BY <3>3 DEF Drawn
      <4>2. target.surface # memory[fout]
        BY <2>2, <2>12, <4>1
      <4>3. CASE target = Found("out", Nil) /\ tool = "deinterlace"
        BY <3>1, <4>3 DEF Draws, Found
      <4>4. CASE target \in Lookups("out", fout)
        <5>1. IF target.surface = Nil
                THEN \/ "out" \in marks'
                     \/ Cardinality({target.slots[i].key : i \in 1 .. n}
                                      \ {Nil, KeyOf("out", fout)}) = n
                ELSE ByFd(tool, "out") /\ KeyOf("out", fout) \in marks'
          BY <1>0, <2>4, <4>2, <4>4, WhatIsDrawn DEF Sides
        <5>2. QED
          BY <2>5, <3>1, <4>1, <5>1 DEF Draws
      <4>5. QED
        BY <4>3, <4>4 DEF Targets
    <3>4. QED
      BY <2>2, <2>12, <3>2, <3>3
  <2>13. Cardinality(1 .. n) = n
    BY FS_Interval
  <2>14. DrawsWhatIsNamed'
    <3>1. SlotIds' = 1 .. n
      BY <2>8
    <3>2. Cardinality(SlotIds') = n
      BY <2>13, <3>1
    <3>3. \A d : {cache'[d.side][i].key : i \in SlotIds'} = {cache'[d.side][i].key : i \in 1 .. n}
      BY <3>1
    <3>4. \A side : ByFd(tool', side) = ByFd(tool, side)
      BY <2>3
    <3>5. QED
      BY <2>3, <2>12, <3>2, <3>3, <3>4 DEF DrawsWhatIsNamed
  <2>15. QED
    BY <2>3, <2>9, <2>10, <2>11, <2>14 DEF SurfInv, Sides
<1>5. ASSUME SurfClose
      PROVE  SurfInv'
  <2> USE <1>5 DEF SurfClose
  <2>1. \A side \in Sides :
          {i \in Destroyed(side) : cache[side][i].of # Nil} = MadeOf(cache[side])
    BY <1>1 DEF Destroyed, EmptySlots, Hits, MadeOf, SideInv, SlotsSound
  <2>2. \A side \in Sides : live'[side] = 0
    <3> SUFFICES ASSUME NEW side \in Sides
                 PROVE  live'[side] = 0
      OBVIOUS
    <3> DEFINE gone == Cardinality({i \in Destroyed(side) : cache[side][i].of # Nil})
    <3>1. live'[side] = live[side] - gone
      OBVIOUS
    <3>2. live[side] \in Int /\ gone = live[side]
      BY <1>1, <2>1 DEF SideInv
    <3> HIDE DEF gone
    <3>3. QED
      BY <3>1, <3>2
  <2>3. SlotsTyped(0)' /\ SlotIds' = {}
    BY EmptySide DEF SlotsTyped, SlotIds, Sides
  <2>4. \A side \in Sides : SideInv(side)'
    <3> SUFFICES ASSUME NEW side \in Sides
                 PROVE  SideInv(side)'
      OBVIOUS
    <3>1. DOMAIN cache'[side] = {}
      BY <2>3 DEF SlotsTyped
    <3>2. live'[side] = Cardinality(MadeOf(cache'[side]))
      BY <2>2, EmptySide
    <3>3. QED
      BY <3>1, <3>2 DEF SideInv, SlotsSound, SlotsDistinct, MadeOf
  <2>5. SurfTypeOK'
    <3>1. tool' = Nil /\ memory' = memory /\ \A side \in Sides : live'[side] \in Int
      BY <2>2
    <3>2. QED
      BY <1>1, <2>3, <3>1 DEF SurfTypeOK
  <2>6. QED
    BY <2>3, <2>4, <2>5 DEF SurfInv, DrawsWhatIsNamed
<1>6. CASE UNCHANGED surfVars
  <2> USE <1>6 DEF surfVars
  <2>1. SurfTypeOK'
    BY <1>1, <1>0 DEF SurfTypeOK, SlotsTyped
  <2>2. \A side \in Sides : SideInv(side)'
    BY <1>1 DEF SideInv, SlotsSound, SlotsDistinct, MadeOf, KeysOf
  <2>3. (tool = Nil => SlotIds = {} /\ wrong = {})' /\ DrawsWhatIsNamed'
    BY DEF SurfInv, DrawsWhatIsNamed, SlotIds
  <2>4. QED
    BY <2>1, <2>2, <2>3 DEF SurfInv
<1>7. QED
  BY <1>2, <1>3, <1>4, <1>5, <1>6 DEF SurfNext

(* Whatever a handle of any tool was used for, with any number of slots and  *)
(* of buffers, and whichever surfaces could not be made: its caches stay     *)
(* well formed and no draw is of what was not named, but for the named       *)
(* reasons.                                                                  *)
LEMMA SurfInvHolds == SurfSpec => []SurfInv
BY SurfInitially, SurfStep, PTL DEF SurfSpec

(* Every surface made for a client's buffer is in a slot until the close     *)
(* destroys it, so that none leaks.                                          *)
THEOREM SurfacesAlwaysAccounted == SurfSpec => []SurfacesAccounted
<1>1. SurfInv => SurfacesAccounted
  <2> SUFFICES ASSUME SurfInv, NEW side \in Sides
               PROVE  /\ live[side] = Cardinality({i \in SlotIds : cache[side][i].of # Nil})
                      /\ \A i, j \in SlotIds \ EmptySlots(side) :
                           cache[side][i].key = cache[side][j].key /\ i # j
                             => tool # "deinterlace" /\ side \in marks
    BY DEF SurfacesAccounted
  <2>1. SlotIds = DOMAIN cache[side]
    BY DEF SurfInv, SurfTypeOK, SlotsTyped, SlotIds, Sides
  <2>2. SideInv(side)
    BY DEF SurfInv
  <2>3. QED
    BY <2>1, <2>2 DEF SideInv, SlotsDistinct, MadeOf, EmptySlots, Hits
<1>2. QED
  BY <1>1, SurfInvHolds, PTL

(* A graphic tool draws from and into the buffers its command named, but for *)
(* a surface that failed, more buffers than slots, or a reused descriptor.   *)
THEOREM AlwaysDrawsWhatIsNamed == SurfSpec => []DrawsWhatIsNamed
<1>1. SurfInv => DrawsWhatIsNamed
  BY DEF SurfInv
<1>2. QED
  BY <1>1, SurfInvHolds, PTL

-----------------------------------------------------------------------------
(* VideoInput.  First one device: its slot table, the buffers on their way   *)
(* to it (hand, by queuer), in it (queue) and from it (fill, by dequeuer).   *)

Buffer == Slots \X Mems

Taken(table) == {s \in Slots : table[s] # None}

(* Each buffer has a slot of its own, with its memory in it, and no other    *)
(* slot is taken.                                                            *)
Agrees(table, hand, queue, fill) ==
  LET H == DOMAIN hand
      Q == 1 .. Len(queue)
      F == DOMAIN fill
  IN
  /\ table \in [Slots -> Mems \cup {None}]
  /\ IsFiniteSet(H) /\ hand \in [H -> Buffer]
  /\ queue \in Seq(Buffer)
  /\ IsFiniteSet(F) /\ fill \in [F -> Buffer]
  /\ \A t \in H : table[hand[t][1]] = hand[t][2]
  /\ \A i \in Q : table[queue[i][1]] = queue[i][2]
  /\ \A t \in F : table[fill[t][1]] = fill[t][2]
  /\ \A t, u \in H : t # u => hand[t][1] # hand[u][1]
  /\ \A i, j \in Q : i # j => queue[i][1] # queue[j][1]
  /\ \A t, u \in F : t # u => fill[t][1] # fill[u][1]
  /\ \A t \in H, i \in Q : hand[t][1] # queue[i][1]
  /\ \A t \in H, u \in F : hand[t][1] # fill[u][1]
  /\ \A i \in Q, u \in F : queue[i][1] # fill[u][1]
  /\ \A s \in Taken(table) : \/ \E t \in H : hand[t][1] = s
                             \/ \E i \in Q : queue[i][1] = s
                             \/ \E t \in F : fill[t][1] = s
  /\ Cardinality(Taken(table)) = Cardinality(H) + Len(queue) + Cardinality(F)

Without(f, t) == [u \in DOMAIN f \ {t} |-> f[u]]

(* A table has VIP_MAX_BUF_SIZE slots.                                       *)
LEMMA SlotsFiniteVip == IsFiniteSet(Slots) /\ Cardinality(Slots) = VIP_MAX_BUF_SIZE
BY FS_Interval, SizeAssumption DEF Slots

(* So finitely many of them are taken.                                       *)
LEMMA TakenFinite ==
  ASSUME NEW table
  PROVE  IsFiniteSet(Taken(table)) /\ Cardinality(Taken(table)) \in Nat
<1>1. Taken(table) \subseteq Slots
  BY DEF Taken
<1>2. QED
  BY <1>1, SlotsFiniteVip, FS_Subset, FS_CardinalityType

(* A slot that is not taken is claimed for a buffer to be handed over.       *)
LEMMA ClaimAgrees ==
  ASSUME NEW table, NEW hand, NEW queue, NEW fill, Agrees(table, hand, queue, fill),
         NEW s \in Slots, NEW m \in Mems, NEW t, table[s] = None, t \notin DOMAIN hand
  PROVE  Agrees([table EXCEPT ![s] = m], With(hand, t, <<s, m>>), queue, fill)
<1> DEFINE after == [table EXCEPT ![s] = m]
           more == With(hand, t, <<s, m>>)
<1>1. /\ DOMAIN more = DOMAIN hand \cup {t}
      /\ more[t] = <<s, m>> /\ \A u \in DOMAIN hand : more[u] = hand[u]
  BY DEF With
<1>2. /\ after \in [Slots -> Mems \cup {None}] /\ after[s] = m
      /\ \A r \in Slots : r # s => after[r] = table[r]
  BY DEF Agrees
<1>3. /\ \A u \in DOMAIN hand : hand[u][1] \in Slots /\ hand[u][1] # s
      /\ \A i \in 1 .. Len(queue) : queue[i][1] \in Slots /\ queue[i][1] # s
      /\ \A u \in DOMAIN fill : fill[u][1] \in Slots /\ fill[u][1] # s
  BY NoneIsNoMemory DEF Agrees, Buffer
<1>4. /\ IsFiniteSet(DOMAIN more)
      /\ Cardinality(DOMAIN more) = Cardinality(DOMAIN hand) + 1
  BY <1>1, FS_AddElement DEF Agrees
<1>5. Taken(after) = Taken(table) \cup {s} /\ s \notin Taken(table)
  BY <1>2, NoneIsNoMemory DEF Taken
<1>6. Cardinality(Taken(after)) = Cardinality(Taken(table)) + 1
  BY <1>5, TakenFinite, FS_AddElement
<1>7. Cardinality(DOMAIN hand) \in Nat /\ Cardinality(DOMAIN fill) \in Nat /\ Len(queue) \in Nat
  BY FS_CardinalityType DEF Agrees
<1>8. more \in [DOMAIN more -> Buffer]
  BY <1>1 DEF Agrees, Buffer, With
<1> HIDE DEF after, more
<1>9. Cardinality(Taken(after)) = Cardinality(DOMAIN more) + Len(queue) + Cardinality(DOMAIN fill)
  BY <1>4, <1>6, <1>7 DEF Agrees
<1>10. \A r \in Taken(after) : \/ \E u \in DOMAIN more : more[u][1] = r
                               \/ \E i \in 1 .. Len(queue) : queue[i][1] = r
                               \/ \E u \in DOMAIN fill : fill[u][1] = r
  BY <1>1, <1>5 DEF Agrees
<1>11. /\ \A u \in DOMAIN more : after[more[u][1]] = more[u][2]
       /\ \A i \in 1 .. Len(queue) : after[queue[i][1]] = queue[i][2]
       /\ \A u \in DOMAIN fill : after[fill[u][1]] = fill[u][2]
  BY <1>1, <1>2, <1>3 DEF Agrees
<1>12. /\ \A u, v \in DOMAIN more : u # v => more[u][1] # more[v][1]
       /\ \A u \in DOMAIN more, i \in 1 .. Len(queue) : more[u][1] # queue[i][1]
       /\ \A u \in DOMAIN more, v \in DOMAIN fill : more[u][1] # fill[v][1]
  BY <1>1, <1>3 DEF Agrees
<1>13. QED
  BY <1>2, <1>4, <1>8, <1>9, <1>10, <1>11, <1>12 DEF Agrees, after, more

(* A buffer that is handed over goes to the end of the device's queue, which *)
(* does not have its slot.                                                   *)
LEMMA QbufAgrees ==
  ASSUME NEW table, NEW hand, NEW queue, NEW fill, Agrees(table, hand, queue, fill),
         NEW t \in DOMAIN hand
  PROVE  /\ Agrees(table, Without(hand, t), Append(queue, hand[t]), fill)
         /\ Cardinality(DOMAIN Without(hand, t)) = Cardinality(DOMAIN hand) - 1
         /\ Len(Append(queue, hand[t])) = Len(queue) + 1
         /\ \A i \in 1 .. Len(queue) : queue[i][1] # hand[t][1]
<1> DEFINE less == Without(hand, t)
           after == Append(queue, hand[t])
<1>1. DOMAIN less = DOMAIN hand \ {t} /\ \A u \in DOMAIN less : less[u] = hand[u]
  BY DEF Without
<1>2. hand[t] \in Buffer /\ queue \in Seq(Buffer)
  BY DEF Agrees
<1>3. /\ after \in Seq(Buffer) /\ Len(after) = Len(queue) + 1 /\ Len(queue) \in Nat
      /\ \A i \in 1 .. Len(queue) : after[i] = queue[i]
      /\ after[Len(queue) + 1] = hand[t]
  BY <1>2, AppendProperties
<1>4. /\ IsFiniteSet(DOMAIN less)
      /\ Cardinality(DOMAIN less) = Cardinality(DOMAIN hand) - 1
  BY <1>1, FS_RemoveElement DEF Agrees
<1>5. Cardinality(DOMAIN hand) \in Nat /\ Cardinality(DOMAIN fill) \in Nat
  BY FS_CardinalityType DEF Agrees
<1>6. less \in [DOMAIN less -> Buffer]
  BY <1>1 DEF Agrees, Without
<1> HIDE DEF less, after
<1>7. Cardinality(Taken(table)) = Cardinality(DOMAIN less) + Len(after) + Cardinality(DOMAIN fill)
  BY <1>3, <1>4, <1>5 DEF Agrees
<1>8. \A i \in 1 .. Len(after) : i \in 1 .. Len(queue) \/ i = Len(queue) + 1
  BY <1>3
<1>9. \A r \in Taken(table) : \/ \E u \in DOMAIN less : less[u][1] = r
                              \/ \E i \in 1 .. Len(after) : after[i][1] = r
                              \/ \E u \in DOMAIN fill : fill[u][1] = r
  <2>1. Len(queue) + 1 \in 1 .. Len(after) /\ 1 .. Len(queue) \subseteq 1 .. Len(after)
    BY <1>3
  <2>2. QED
    BY <1>1, <1>3, <2>1 DEF Agrees
<1>10. /\ \A u \in DOMAIN less : table[less[u][1]] = less[u][2]
       /\ \A i \in 1 .. Len(after) : table[after[i][1]] = after[i][2]
       /\ \A u, v \in DOMAIN less : u # v => less[u][1] # less[v][1]
       /\ \A u \in DOMAIN less, v \in DOMAIN fill : less[u][1] # fill[v][1]
       /\ \A i \in 1 .. Len(after), v \in DOMAIN fill : after[i][1] # fill[v][1]
  <2>1. /\ \A u \in DOMAIN less : table[less[u][1]] = less[u][2]
        /\ \A u, v \in DOMAIN less : u # v => less[u][1] # less[v][1]
        /\ \A u \in DOMAIN less, v \in DOMAIN fill : less[u][1] # fill[v][1]
    BY <1>1 DEF Agrees
  <2>2. /\ \A i \in 1 .. Len(after) : table[after[i][1]] = after[i][2]
        /\ \A i \in 1 .. Len(after), v \in DOMAIN fill : after[i][1] # fill[v][1]
    BY <1>3, <1>8 DEF Agrees
  <2>3. QED
    BY <2>1, <2>2
<1>11. /\ \A i, j \in 1 .. Len(after) : i # j => after[i][1] # after[j][1]
       /\ \A u \in DOMAIN less, i \in 1 .. Len(after) : less[u][1] # after[i][1]
  <2>1. ASSUME NEW i \in 1 .. Len(after), NEW j \in 1 .. Len(after), i # j
        PROVE  after[i][1] # after[j][1]
    BY <1>3, <1>8, <2>1 DEF Agrees
  <2>2. ASSUME NEW u \in DOMAIN less, NEW i \in 1 .. Len(after)
        PROVE  less[u][1] # after[i][1]
    <3>1. u \in DOMAIN hand /\ u # t /\ less[u] = hand[u]
      BY <1>1
    <3>2. QED
      BY <1>3, <1>8, <3>1 DEF Agrees
  <2>3. QED
    BY <2>1, <2>2
<1>12. Agrees(table, less, after, fill)
  BY <1>3, <1>4, <1>6, <1>7, <1>9, <1>10, <1>11 DEF Agrees
<1>13. \A i \in 1 .. Len(queue) : queue[i][1] # hand[t][1]
  BY DEF Agrees
<1>14. QED
  BY <1>3, <1>4, <1>12, <1>13, Zenon DEF less, after

(* The first buffer of the queue goes to a dequeuer.                         *)
LEMMA DqbufAgrees ==
  ASSUME NEW table, NEW hand, NEW queue, NEW fill, Agrees(table, hand, queue, fill),
         queue # <<>>, NEW t, t \notin DOMAIN fill
  PROVE  /\ Agrees(table, hand, Tail(queue), With(fill, t, Head(queue)))
         /\ Cardinality(DOMAIN With(fill, t, Head(queue))) = Cardinality(DOMAIN fill) + 1
         /\ Len(Tail(queue)) = Len(queue) - 1
<1> DEFINE more == With(fill, t, Head(queue))
           after == Tail(queue)
<1>1. queue \in Seq(Buffer)
  BY DEF Agrees
<1>2. /\ Head(queue) = queue[1] /\ Head(queue) \in Buffer
      /\ after \in Seq(Buffer) /\ Len(after) = Len(queue) - 1
      /\ \A i \in 1 .. Len(after) : after[i] = queue[i + 1]
      /\ Len(queue) \in Nat /\ Len(queue) > 0
  BY <1>1, HeadTailProperties
<1>3. /\ DOMAIN more = DOMAIN fill \cup {t}
      /\ more[t] = queue[1] /\ \A u \in DOMAIN fill : more[u] = fill[u]
  BY <1>2 DEF With
<1>4. /\ IsFiniteSet(DOMAIN more)
      /\ Cardinality(DOMAIN more) = Cardinality(DOMAIN fill) + 1
  BY <1>3, FS_AddElement DEF Agrees
<1>5. Cardinality(DOMAIN hand) \in Nat /\ Cardinality(DOMAIN fill) \in Nat
  BY FS_CardinalityType DEF Agrees
<1>6. more \in [DOMAIN more -> Buffer]
  BY <1>2, <1>3 DEF Agrees, With
<1> HIDE DEF more, after
<1>7. Cardinality(Taken(table)) = Cardinality(DOMAIN hand) + Len(after) + Cardinality(DOMAIN more)
  BY <1>2, <1>4, <1>5 DEF Agrees
<1>8. /\ \A i \in 1 .. Len(after) : i + 1 \in 1 .. Len(queue) /\ i + 1 # 1
      /\ 1 \in 1 .. Len(queue)
      /\ \A i \in 1 .. Len(queue) : i = 1 \/ (i - 1 \in 1 .. Len(after) /\ i = (i - 1) + 1)
      /\ \A i, j \in 1 .. Len(after) : i # j => i + 1 # j + 1
  BY <1>2
<1>9. \A r \in Taken(table) : \/ \E u \in DOMAIN hand : hand[u][1] = r
                              \/ \E i \in 1 .. Len(after) : after[i][1] = r
                              \/ \E u \in DOMAIN more : more[u][1] = r
  <2> SUFFICES ASSUME NEW r \in Taken(table),
                      \A u \in DOMAIN hand : hand[u][1] # r,
                      \A u \in DOMAIN more : more[u][1] # r
               PROVE  \E i \in 1 .. Len(after) : after[i][1] = r
    OBVIOUS
  <2>1. PICK i \in 1 .. Len(queue) : queue[i][1] = r
    BY <1>3 DEF Agrees
  <2>2. i # 1
    BY <1>3, <2>1
  <2>3. i - 1 \in 1 .. Len(after) /\ i = (i - 1) + 1
    BY <1>8, <2>2
  <2>4. after[i - 1] = queue[i]
    BY <1>2, <2>3
  <2>5. QED
    BY <2>1, <2>3, <2>4
<1>10. /\ \A i \in 1 .. Len(after) : table[after[i][1]] = after[i][2]
       /\ \A u \in DOMAIN more : table[more[u][1]] = more[u][2]
  <2>1. \A i \in 1 .. Len(after) : table[after[i][1]] = after[i][2]
    BY <1>2, <1>8 DEF Agrees
  <2>2. \A u \in DOMAIN more : table[more[u][1]] = more[u][2]
    BY <1>3, <1>8 DEF Agrees
  <2>3. QED
    BY <2>1, <2>2
<1>11. /\ \A i, j \in 1 .. Len(after) : i # j => after[i][1] # after[j][1]
       /\ \A u, v \in DOMAIN more : u # v => more[u][1] # more[v][1]
       /\ \A u \in DOMAIN hand, i \in 1 .. Len(after) : hand[u][1] # after[i][1]
       /\ \A u \in DOMAIN hand, v \in DOMAIN more : hand[u][1] # more[v][1]
       /\ \A i \in 1 .. Len(after), v \in DOMAIN more : after[i][1] # more[v][1]
  <2>1. \A i, j \in 1 .. Len(after) : i # j => after[i][1] # after[j][1]
    BY <1>2, <1>8 DEF Agrees
  <2>2. \A u, v \in DOMAIN more : u # v => more[u][1] # more[v][1]
    BY <1>3, <1>8 DEF Agrees
  <2>3. \A u \in DOMAIN hand, i \in 1 .. Len(after) : hand[u][1] # after[i][1]
    BY <1>2, <1>8 DEF Agrees
  <2>4. \A u \in DOMAIN hand, v \in DOMAIN more : hand[u][1] # more[v][1]
    BY <1>3, <1>8 DEF Agrees
  <2>5. ASSUME NEW i \in 1 .. Len(after), NEW v \in DOMAIN more
        PROVE  after[i][1] # more[v][1]
    <3>1. after[i] = queue[i + 1] /\ i + 1 \in 1 .. Len(queue) /\ i + 1 # 1
      BY <1>2, <1>8
    <3>2. (v \in DOMAIN fill /\ more[v] = fill[v]) \/ more[v] = queue[1]
      BY <1>3
    <3>3. /\ \A j, k \in 1 .. Len(queue) : j # k => queue[j][1] # queue[k][1]
          /\ \A j \in 1 .. Len(queue), u \in DOMAIN fill : queue[j][1] # fill[u][1]
      BY DEF Agrees
    <3>4. QED
      BY <1>8, <3>1, <3>2, <3>3
  <2>6. QED
    BY <2>1, <2>2, <2>3, <2>4, <2>5
<1>12. Agrees(table, hand, after, more)
  BY <1>2, <1>4, <1>6, <1>7, <1>9, <1>10, <1>11 DEF Agrees
<1>13. QED
  BY <1>2, <1>4, <1>12 DEF more, after

(* A dequeuer takes its buffer out of its slot.                              *)
LEMMA TakeAgrees ==
  ASSUME NEW table, NEW hand, NEW queue, NEW fill, Agrees(table, hand, queue, fill),
         NEW t \in DOMAIN fill
  PROVE  /\ Agrees([table EXCEPT ![fill[t][1]] = None], hand, queue, Without(fill, t))
         /\ Cardinality(DOMAIN Without(fill, t)) = Cardinality(DOMAIN fill) - 1
<1> DEFINE s == fill[t][1]
           after == [table EXCEPT ![s] = None]
           less == Without(fill, t)
<1>1. DOMAIN less = DOMAIN fill \ {t} /\ \A u \in DOMAIN less : less[u] = fill[u]
  BY DEF Without
<1>2. s \in Slots /\ table[s] # None
  BY NoneIsNoMemory DEF Agrees, Buffer
<1>3. /\ after \in [Slots -> Mems \cup {None}] /\ after[s] = None
      /\ \A r \in Slots : r # s => after[r] = table[r]
  BY <1>2 DEF Agrees
<1>4. /\ \A u \in DOMAIN hand : hand[u][1] \in Slots /\ hand[u][1] # s
      /\ \A i \in 1 .. Len(queue) : queue[i][1] \in Slots /\ queue[i][1] # s
      /\ \A u \in DOMAIN less : fill[u][1] \in Slots /\ fill[u][1] # s
  BY <1>1 DEF Agrees, Buffer
<1>5. /\ IsFiniteSet(DOMAIN less)
      /\ Cardinality(DOMAIN less) = Cardinality(DOMAIN fill) - 1
  BY <1>1, FS_RemoveElement DEF Agrees
<1>6. Taken(after) = Taken(table) \ {s} /\ s \in Taken(table)
  BY <1>2, <1>3 DEF Taken
<1>7. Cardinality(Taken(after)) = Cardinality(Taken(table)) - 1
  <2> HIDE DEF after, s
  <2>1. IsFiniteSet(Taken(table))
    BY TakenFinite
  <2>2. QED
    BY <1>6, <2>1, FS_RemoveElement
<1>8. Cardinality(DOMAIN hand) \in Nat /\ Cardinality(DOMAIN fill) \in Nat /\ Len(queue) \in Nat
  BY FS_CardinalityType DEF Agrees
<1>9. less \in [DOMAIN less -> Buffer]
  BY <1>1 DEF Agrees, Without
<1> HIDE DEF after, less, s
<1>10. Cardinality(Taken(after)) = Cardinality(DOMAIN hand) + Len(queue) + Cardinality(DOMAIN less)
  BY <1>5, <1>7, <1>8 DEF Agrees
<1>11. \A r \in Taken(after) : \/ \E u \in DOMAIN hand : hand[u][1] = r
                               \/ \E i \in 1 .. Len(queue) : queue[i][1] = r
                               \/ \E u \in DOMAIN less : less[u][1] = r
  BY <1>1, <1>6 DEF Agrees, s
<1>12. /\ \A u \in DOMAIN hand : after[hand[u][1]] = hand[u][2]
       /\ \A i \in 1 .. Len(queue) : after[queue[i][1]] = queue[i][2]
       /\ \A u \in DOMAIN less : after[less[u][1]] = less[u][2]
  BY <1>1, <1>3, <1>4 DEF Agrees
<1>13. /\ \A u, v \in DOMAIN less : u # v => less[u][1] # less[v][1]
       /\ \A u \in DOMAIN hand, v \in DOMAIN less : hand[u][1] # less[v][1]
       /\ \A i \in 1 .. Len(queue), v \in DOMAIN less : queue[i][1] # less[v][1]
  BY <1>1 DEF Agrees
<1>14. Agrees(after, hand, queue, less)
  BY <1>3, <1>5, <1>9, <1>10, <1>11, <1>12, <1>13 DEF Agrees
<1>15. QED
  BY <1>5, <1>14 DEF after, less, s

(* Queuers and dequeuers stand alike to the table.                           *)
LEMMA SwapAgrees ==
  ASSUME NEW table, NEW hand, NEW queue, NEW fill, Agrees(table, hand, queue, fill)
  PROVE  Agrees(table, fill, queue, hand)
<1>1. /\ Cardinality(DOMAIN hand) \in Nat /\ Cardinality(DOMAIN fill) \in Nat
      /\ Len(queue) \in Nat
  BY FS_CardinalityType DEF Agrees
<1>2. Cardinality(Taken(table)) = Cardinality(DOMAIN fill) + Len(queue) + Cardinality(DOMAIN hand)
  BY <1>1 DEF Agrees
<1>3. QED
  BY <1>2 DEF Agrees

(* A table without the slots of the buffers that its device refused.         *)
Live(table, refusals) == [s \in Slots |-> IF s \in refusals THEN None ELSE table[s]]

(* Without them, so many fewer slots are taken.                              *)
LEMMA LiveTaken ==
  ASSUME NEW table, NEW refusals, refusals \subseteq Taken(table)
  PROVE  /\ Taken(Live(table, refusals)) = Taken(table) \ refusals
         /\ Cardinality(refusals) \in Nat
         /\ Cardinality(Taken(table))
              = Cardinality(Taken(Live(table, refusals))) + Cardinality(refusals)
<1>1. Taken(Live(table, refusals)) = Taken(table) \ refusals
  BY DEF Taken, Live
<1>2. IsFiniteSet(Taken(table)) /\ IsFiniteSet(refusals) /\ Cardinality(refusals) \in Nat
  BY TakenFinite, FS_Subset, FS_CardinalityType
<1>3. Taken(table) \cap refusals = refusals
  OBVIOUS
<1>4. /\ Cardinality(Taken(table) \ refusals) = Cardinality(Taken(table)) - Cardinality(refusals)
      /\ Cardinality(Taken(table)) \in Nat
  BY <1>2, <1>3, FS_Difference, FS_CardinalityType
<1>5. QED
  BY <1>1, <1>2, <1>4

(* A slot that is not among them is claimed and emptied as in the table.     *)
LEMMA LiveExcept ==
  ASSUME NEW table, DOMAIN table = Slots, NEW refusals, NEW s \in Slots, s \notin refusals,
         NEW m
  PROVE  Live([table EXCEPT ![s] = m], refusals) = [Live(table, refusals) EXCEPT ![s] = m]
BY DEF Live

(* A buffer that its device refuses is no longer on its way; its slot is one *)
(* more of those.                                                            *)
LEMMA RefuseAgrees ==
  ASSUME NEW table, NEW refusals, refusals \subseteq Taken(table), NEW hand, NEW queue, NEW fill,
         Agrees(Live(table, refusals), hand, queue, fill), NEW t \in DOMAIN hand
  PROVE  /\ Agrees(Live(table, refusals \cup {hand[t][1]}), Without(hand, t), queue, fill)
         /\ refusals \cup {hand[t][1]} \subseteq Taken(table)
         /\ Cardinality(refusals \cup {hand[t][1]}) = Cardinality(refusals) + 1
         /\ Cardinality(DOMAIN Without(hand, t)) = Cardinality(DOMAIN hand) - 1
<1> DEFINE s == hand[t][1]
           kept == Live(table, refusals)
<1>1. s \in Slots /\ kept[s] # None
  BY NoneIsNoMemory DEF Agrees, Buffer
<1>2. s \notin refusals /\ s \in Taken(table)
  BY <1>1 DEF Live, Taken
<1>3. Live(table, refusals \cup {s}) = [kept EXCEPT ![s] = None]
  BY <1>1 DEF Live
<1>4. Agrees(kept, fill, queue, hand)
  BY SwapAgrees
<1>5. /\ Agrees([kept EXCEPT ![s] = None], fill, queue, Without(hand, t))
      /\ Cardinality(DOMAIN Without(hand, t)) = Cardinality(DOMAIN hand) - 1
  <2> HIDE DEF kept
  <2>1. QED
    BY <1>4, TakeAgrees
<1>6. IsFiniteSet(refusals)
  BY TakenFinite, FS_Subset
<1>7. Cardinality(refusals \cup {s}) = Cardinality(refusals) + 1
  BY <1>2, <1>6, FS_AddElement
<1>8. Agrees(Live(table, refusals \cup {s}), Without(hand, t), queue, fill)
  BY <1>3, <1>5, SwapAgrees
<1> HIDE DEF s, kept
<1>9. QED
  BY <1>1, <1>2, <1>5, <1>7, <1>8 DEF s

(* Nothing on its way and no slot taken.                                     *)
LEMMA EmptyAgrees ==
  ASSUME NEW table, table = [s \in Slots |-> None], NEW queue, queue = <<>>,
         NEW hand, NEW fill, hand = [t \in {} |-> hand[t]], fill = [t \in {} |-> fill[t]]
  PROVE  Agrees(table, hand, queue, fill)
<1>1. DOMAIN hand = {} /\ DOMAIN fill = {}
  <2>1. DOMAIN [t \in {} |-> hand[t]] = {} /\ DOMAIN [t \in {} |-> fill[t]] = {}
    OBVIOUS
  <2>2. QED
    BY <2>1
<1>2. Taken(table) = {} /\ table \in [Slots -> Mems \cup {None}]
  BY DEF Taken
<1>3. Cardinality({}) = 0 /\ IsFiniteSet({})
  BY FS_EmptySet
<1>4. queue \in Seq(Buffer) /\ Len(queue) = 0 /\ 1 .. Len(queue) = {}
  <2>1. queue \in Seq(Buffer) /\ Len(queue) = 0
    BY EmptySeq
  <2>2. QED
    BY <2>1
<1>5. hand \in [{} -> Buffer] /\ fill \in [{} -> Buffer]
  <2>1. [t \in {} |-> hand[t]] \in [{} -> Buffer] /\ [t \in {} |-> fill[t]] \in [{} -> Buffer]
    OBVIOUS
  <2>2. QED
    BY <2>1
<1>6. Cardinality(Taken(table)) = Cardinality(DOMAIN hand) + Len(queue) + Cardinality(DOMAIN fill)
  <2>1. /\ Cardinality(Taken(table)) = 0 /\ Cardinality(DOMAIN hand) = 0
        /\ Cardinality(DOMAIN fill) = 0
    BY <1>1, <1>2, <1>3, Zenon
  <2>2. 0 = 0 + 0 + 0
    OBVIOUS
  <2>3. QED
    BY <1>4, <2>1, <2>2, Zenon
<1>7. IsFiniteSet(DOMAIN hand) /\ IsFiniteSet(DOMAIN fill)
  BY <1>1, <1>3
<1>8. /\ hand \in [DOMAIN hand -> Buffer] /\ fill \in [DOMAIN fill -> Buffer]
      /\ \A s \in Taken(table) : FALSE
  BY <1>1, <1>2, <1>5
<1> HIDE DEF Taken
<1>9. QED
  BY <1>1, <1>2, <1>4, <1>6, <1>7, <1>8, Zenon DEF Agrees

-----------------------------------------------------------------------------
(* VideoInput: the handle.                                                   *)

HandOf(d) == [t \in Handing(d) |-> <<queuer[t].slot[d], queuer[t].mem>>]
FillOf(d) == [t \in Filled(d) |-> <<dequeuer[t].idx[d], dequeuer[t].filled[d]>>]
Counting == {t \in Dequeuers : dequeuer[t].pc = "count"}

QueuerShape(q) ==
  \/ q = QueuerIdle
  \/ /\ q \in [pc : {"qbuf", "flag", "set", "on"}, mem : Mems,
               slot : [Devices -> Slots], todo : SUBSET Devices]
     /\ q.pc \in {"qbuf", "on"} => q.todo # {}
     /\ q.pc \in {"flag", "set"} => q.todo = {}

DequeuerShape(q) ==
  \/ q = DequeuerIdle
  \/ /\ q = [pc |-> q.pc, idx |-> q.idx, filled |-> q.filled, got |-> q.got]
     /\ DOMAIN q.idx \subseteq Devices /\ q.idx \in [DOMAIN q.idx -> Slots]
     /\ q.filled \in [DOMAIN q.idx -> Mems \cup {None}]
     /\ \/ q.pc = "dqbuf" /\ DOMAIN q.idx # Devices
        \/ q.pc = "take" /\ DOMAIN q.idx = Devices
        \/ q.pc = "count" /\ DOMAIN q.idx = Devices

VipTypeOK ==
  /\ open \in BOOLEAN /\ locked \in BOOLEAN /\ streamOnFlag \in BOOLEAN
  /\ mode \in Modes /\ curQueuedSize \in Int
  /\ pMgmtMem \in [AllDevices -> [Slots -> Mems \cup {None}]]
  /\ queued \in [AllDevices -> Seq(Buffer)] /\ refused \in [AllDevices -> SUBSET Slots]
  /\ DOMAIN queuer = Queuers /\ \A t \in Queuers : QueuerShape(queuer[t])
  /\ DOMAIN dequeuer = Dequeuers /\ \A t \in Dequeuers : DequeuerShape(dequeuer[t])

\* No thread is inside and no device has anything to do.
Restful ==
  /\ Inside(queuer) = {} /\ Inside(dequeuer) = {}
  /\ streaming = {} /\ streamOnFlag = FALSE
  /\ \A d \in AllDevices : queued[d] = <<>>

ClosedInv == ~open => Restful /\ ~locked /\ mishaps = {} /\ stray = "no"
LockedInv ==
  locked /\ "config" \notin mishaps => open /\ Restful /\ stray = "no" /\ mishaps = {}

\* Alone inside, t is on the way to start the devices or starts them.
Starting(t) ==
  /\ Inside(queuer) = {t}
  /\ \/ /\ queuer[t].pc \in {"qbuf", "flag", "set"}
        /\ streamOnFlag = FALSE /\ streaming = {}
     \/ queuer[t].pc = "on" /\ streaming = Devices \ queuer[t].todo

(* Until calls run into each other, a dequeuer is let in only when every     *)
(* device streams, for which one queuer at a time has seen to it.            *)
StartInv == mishaps \cap {"start", "config", "on", "dqbuf"} = {} /\ open =>
  /\ stray = "no"
  /\ \/ streaming = Devices
     \/ /\ Inside(queuer) = {} /\ Inside(dequeuer) = {}
        /\ streamOnFlag = FALSE /\ streaming = {}
        /\ curQueuedSize = 0 \/ locked
     \/ /\ Inside(dequeuer) = {} /\ curQueuedSize = 1
        /\ \E t \in Queuers : Starting(t)

Calm == open /\ ~locked /\ stray = "no" /\ "config" \notin mishaps

(* The slots of the refused buffers aside, a device's table agrees with the  *)
(* buffers on their way.                                                     *)
DeviceInv(d) ==
  /\ refused[d] \subseteq Taken(pMgmtMem[d])
  /\ Agrees(Live(pMgmtMem[d], refused[d]), HandOf(d), queued[d], FillOf(d))
  /\ curQueuedSize = Cardinality(DOMAIN HandOf(d)) + Len(queued[d])
                      + Cardinality(DOMAIN FillOf(d)) + Cardinality(Counting)
                      + Cardinality(refused[d])

VipInv ==
  /\ VipTypeOK /\ ClosedInv /\ LockedInv /\ StartInv
  /\ Calm => \A d \in Devices : DeviceInv(d)

(* There is a device in every mode of the handle, and the first and the      *)
(* last device of a set are in it.                                           *)
LEMMA DeviceSets ==
  /\ Devices \subseteq AllDevices /\ Devices # {}
  /\ \A D \in SUBSET AllDevices : D # {} => FirstOf(D) \in D /\ LastOf(D) \in D
BY DEF Devices, AllDevices, FirstOf, LastOf

(* No handle is open and nothing is on its way at the start.                 *)
LEMMA VipInitial == Init => VipInv
<1> SUFFICES ASSUME Init
             PROVE  VipInv
  OBVIOUS
<1>1. \A d \in AllDevices : queued[d] = <<>> /\ queued[d] \in Seq(Buffer)
  BY EmptySeq DEF Init
<1>2. VipTypeOK
  <2>1. pMgmtMem \in [AllDevices -> [Slots -> Mems \cup {None}]]
    BY DEF Init, EmptyTables
  <2>2. queued \in [AllDevices -> Seq(Buffer)] /\ refused \in [AllDevices -> SUBSET Slots]
    BY <1>1 DEF Init, NoneRefused
  <2>3. \A t \in Queuers : QueuerShape(queuer[t])
    BY DEF Init, QueuerShape
  <2>4. \A t \in Dequeuers : DequeuerShape(dequeuer[t])
    BY DEF Init, DequeuerShape
  <2>5. open \in BOOLEAN /\ locked \in BOOLEAN /\ streamOnFlag \in BOOLEAN
    BY DEF Init
  <2>6. /\ mode \in Modes /\ curQueuedSize \in Int
        /\ DOMAIN queuer = Queuers /\ DOMAIN dequeuer = Dequeuers
    BY DEF Init
  <2>7. QED
    BY <2>1, <2>2, <2>3, <2>4, <2>5, <2>6 DEF VipTypeOK
<1>3. Restful
  BY <1>1 DEF Init, Restful, Inside, QueuerIdle, DequeuerIdle
<1>4. QED
  BY <1>2, <1>3 DEF Init, VipInv, ClosedInv, LockedInv, StartInv, Calm

(* The least of numbers, as the first fit of a claim takes it, is one of     *)
(* them.                                                                     *)
LEMMA MinIn ==
  ASSUME NEW S \in SUBSET Nat, S # {}
  PROVE  Min(S) \in S
BY LeastIn DEF Least, Min

(* What a dequeuer has after a device answered it: one more slot, with its   *)
(* memory.                                                                   *)
LEMMA GotGives ==
  ASSUME VipTypeOK, NEW t \in Dequeuers, NEW d \in Devices, NEW s, NEW m,
         dequeuer[t].pc = "dqbuf", d \notin DOMAIN dequeuer[t].idx, Got(t, d, s, m)
  PROVE  /\ DOMAIN dequeuer' = Dequeuers
         /\ \A u \in Dequeuers : u # t => dequeuer'[u] = dequeuer[u]
         /\ dequeuer'[t] = [pc |-> IF DOMAIN dequeuer[t].idx \cup {d} = Devices
                                  THEN "take" ELSE "dqbuf",
                            idx |-> With(dequeuer[t].idx, d, s),
                            filled |-> With(dequeuer[t].filled, d, m),
                            got |-> dequeuer[t].got]
<1>1. /\ dequeuer[t] = [pc |-> dequeuer[t].pc, idx |-> dequeuer[t].idx,
                        filled |-> dequeuer[t].filled, got |-> dequeuer[t].got]
      /\ DOMAIN dequeuer[t].filled = DOMAIN dequeuer[t].idx
  BY DEF VipTypeOK, DequeuerShape, DequeuerIdle
<1>2. QED
  BY <1>1 DEF Got, VipTypeOK

(* What a step does to the buffers that the queuers hand over, and to those  *)
(* that the dequeuers have got, is read off the threads it moves.            *)
LEMMA HandStays ==
  ASSUME NEW d, Handing(d)' = Handing(d),
         \A t \in Handing(d) : queuer'[t].slot = queuer[t].slot /\ queuer'[t].mem = queuer[t].mem
  PROVE  HandOf(d)' = HandOf(d)
BY DEF HandOf

(* One more buffer to hand over,                                             *)
LEMMA HandMore ==
  ASSUME NEW d, NEW t, t \notin Handing(d), Handing(d)' = Handing(d) \cup {t},
         \A u \in Handing(d) : queuer'[u] = queuer[u]
  PROVE  HandOf(d)' = With(HandOf(d), t, <<queuer'[t].slot[d], queuer'[t].mem>>)
BY DEF HandOf, With

(* and one less.                                                             *)
LEMMA HandLess ==
  ASSUME NEW d, NEW t \in Handing(d), Handing(d)' = Handing(d) \ {t},
         \A u \in Handing(d) \ {t} : queuer'[u] = queuer[u]
  PROVE  HandOf(d)' = Without(HandOf(d), t)
BY DEF HandOf, Without

(* The same on the side of the dequeuers: all stay,                          *)
LEMMA FillStays ==
  ASSUME NEW d, Filled(d)' = Filled(d),
         \A t \in Filled(d) : /\ dequeuer'[t].idx[d] = dequeuer[t].idx[d]
                              /\ dequeuer'[t].filled[d] = dequeuer[t].filled[d]
  PROVE  FillOf(d)' = FillOf(d)
BY DEF FillOf

(* one more,                                                                 *)
LEMMA FillMore ==
  ASSUME NEW d, NEW t, t \notin Filled(d), Filled(d)' = Filled(d) \cup {t},
         \A u \in Filled(d) : dequeuer'[u] = dequeuer[u]
  PROVE  FillOf(d)' = With(FillOf(d), t, <<dequeuer'[t].idx[d], dequeuer'[t].filled[d]>>)
BY DEF FillOf, With

(* and one less.                                                             *)
LEMMA FillLess ==
  ASSUME NEW d, NEW t \in Filled(d), Filled(d)' = Filled(d) \ {t},
         \A u \in Filled(d) \ {t} : dequeuer'[u] = dequeuer[u]
  PROVE  FillOf(d)' = Without(FillOf(d), t)
BY DEF FillOf, Without

(* A step that leaves the table, the queue and the counter alone, and moves  *)
(* no buffer, keeps the device's accounts.                                   *)
Untouched(d) ==
  HandOf(d)' = HandOf(d) /\ queued'[d] = queued[d] /\ FillOf(d)' = FillOf(d)

\* Queuer t claims slot s for memory m; the device takes the buffer of t.
Claimed(d, t, s, m) ==
  /\ HandOf(d)' = With(HandOf(d), t, <<s, m>>)
  /\ queued'[d] = queued[d] /\ FillOf(d)' = FillOf(d)
HandedOver(d, t) ==
  /\ t \in DOMAIN HandOf(d) /\ HandOf(d)' = Without(HandOf(d), t)
  /\ queued'[d] = Append(queued[d], HandOf(d)[t]) /\ FillOf(d)' = FillOf(d)

\* Dequeuer t gets the first buffer of the device; it takes it out of its slot.
GivenBack(d, t) ==
  /\ queued[d] # <<>> /\ queued'[d] = Tail(queued[d]) /\ HandOf(d)' = HandOf(d)
  /\ FillOf(d)' = With(FillOf(d), t, Head(queued[d]))
TakenOut(d, t) ==
  /\ t \in DOMAIN FillOf(d) /\ FillOf(d)' = Without(FillOf(d), t)
  /\ queued'[d] = queued[d] /\ HandOf(d)' = HandOf(d)

(* The dequeuers are finitely many.                                          *)
LEMMA CountingFinite == IsFiniteSet(Counting) /\ Cardinality(Counting) \in Nat
<1>1. Counting \subseteq Dequeuers
  BY DEF Counting
<1>2. QED
  BY <1>1, ThreadsAssumption, FS_Subset, FS_CardinalityType

(* Such a step keeps the device's accounts when no dequeuer starts or ends   *)
(* its counting down either.                                                 *)
LEMMA DeviceStays ==
  ASSUME NEW d, DeviceInv(d), pMgmtMem'[d] = pMgmtMem[d], Untouched(d),
         refused'[d] = refused[d], curQueuedSize' = curQueuedSize, Counting' = Counting
  PROVE  DeviceInv(d)'
BY DEF DeviceInv, Untouched

(* A handle that nobody uses, with empty tables.                             *)
LEMMA EmptyDevice ==
  ASSUME VipTypeOK, Restful, NEW d \in AllDevices, pMgmtMem' = EmptyTables,
         curQueuedSize' = 0, refused' = NoneRefused, UNCHANGED <<threads, queued>>
  PROVE  DeviceInv(d)'
<1>1. /\ \A t \in Queuers : queuer[t].pc = "idle"
      /\ \A t \in Dequeuers : dequeuer[t].pc = "idle"
  BY DEF VipTypeOK, Restful, Inside
<1>2. Handing(d)' = {} /\ Filled(d)' = {} /\ Counting' = {}
  BY <1>1 DEF threads, Handing, Filled, Counting
<1>3. /\ HandOf(d)' = [t \in {} |-> HandOf(d)'[t]] /\ DOMAIN HandOf(d)' = {}
      /\ FillOf(d)' = [t \in {} |-> FillOf(d)'[t]] /\ DOMAIN FillOf(d)' = {}
  BY <1>2 DEF HandOf, FillOf
<1>4. /\ pMgmtMem'[d] = [s \in Slots |-> None] /\ refused'[d] = {}
      /\ Live(pMgmtMem'[d], refused'[d]) = [s \in Slots |-> None] /\ queued'[d] = <<>>
  BY DEF EmptyTables, NoneRefused, Restful, Live
<1>5. Agrees(Live(pMgmtMem'[d], refused'[d]), HandOf(d)', queued'[d], FillOf(d)')
  BY <1>3, <1>4, EmptyAgrees
<1>6. Cardinality({}) = 0 /\ Len(<<>>) = 0 /\ 0 + 0 + 0 + 0 + 0 = 0
  BY FS_EmptySet
<1>7. curQueuedSize' = Cardinality(DOMAIN HandOf(d)') + Len(queued'[d])
                        + Cardinality(DOMAIN FillOf(d)') + Cardinality(Counting')
                        + Cardinality(refused'[d])
  BY <1>2, <1>3, <1>4, <1>6, Zenon
<1>8. refused'[d] \subseteq Taken(pMgmtMem'[d])
  BY <1>4
<1>9. QED
  BY <1>5, <1>7, <1>8 DEF DeviceInv

(* NX_VipInit.                                                               *)
LEMMA VipInitKeeps ==
  ASSUME VipInv, NX_VipInit
  PROVE  VipInv'
<1>1. Restful /\ ~locked /\ mishaps = {} /\ stray = "no"
  BY DEF VipInv, ClosedInv, NX_VipInit
<1>2. /\ \A t \in Queuers : queuer[t] = QueuerIdle
      /\ \A t \in Dequeuers : dequeuer[t] = DequeuerIdle
  BY <1>1 DEF VipInv, VipTypeOK, Restful, Inside, QueuerShape, DequeuerShape
<1>3. VipTypeOK'
  <2>1. pMgmtMem' \in [AllDevices -> [Slots -> Mems \cup {None}]]
    BY DEF NX_VipInit, EmptyTables
  <2>2. /\ DOMAIN queuer' = Queuers /\ \A t \in Queuers : QueuerShape(queuer[t])'
        /\ DOMAIN dequeuer' = Dequeuers /\ \A t \in Dequeuers : DequeuerShape(dequeuer[t])'
    BY <1>2 DEF NX_VipInit, threads, VipInv, VipTypeOK, QueuerShape, DequeuerShape,
                QueuerIdle, DequeuerIdle
  <2>3. open' \in BOOLEAN /\ locked' \in BOOLEAN /\ streamOnFlag' \in BOOLEAN
    BY DEF NX_VipInit, VipInv, VipTypeOK
  <2>4. mode' \in Modes /\ curQueuedSize' \in Int
    BY DEF NX_VipInit
  <2>5. queued' \in [AllDevices -> Seq(Buffer)] /\ refused' \in [AllDevices -> SUBSET Slots]
    BY DEF NX_VipInit, VipInv, VipTypeOK, NoneRefused
  <2>6. QED
    BY <2>1, <2>2, <2>3, <2>4, <2>5 DEF VipTypeOK
<1>4. Restful'
  BY <1>1 DEF Restful, NX_VipInit, threads, Inside
<1>5. \A d \in AllDevices : DeviceInv(d)'
  BY <1>1, EmptyDevice DEF NX_VipInit, VipInv, threads
<1>6. Devices' \subseteq AllDevices
  BY DEF Devices, AllDevices
<1>7. StartInv'
  BY <1>1, <1>4 DEF StartInv, Restful, NX_VipInit
<1>8. QED
  BY <1>1, <1>3, <1>5, <1>6, <1>7 DEF VipInv, ClosedInv, LockedInv, NX_VipInit

(* NX_VipClose.                                                              *)
LEMMA VipCloseKeeps ==
  ASSUME VipInv, NX_VipClose
  PROVE  VipInv'
<1>1. Inside(queuer) = {} /\ Inside(dequeuer) = {} /\ ~locked
  BY DEF NX_VipClose, Quiet
<1>2. Restful'
  BY <1>1 DEF Restful, NX_VipClose, threads, Inside
<1>3. Devices' = Devices
  BY DEF NX_VipClose, Devices
<1>4. VipTypeOK'
  <2>1. queued' \in [AllDevices -> Seq(Buffer)] /\ refused' \in [AllDevices -> SUBSET Slots]
    BY EmptySeq DEF NX_VipClose, VipInv, VipTypeOK
  <2>2. /\ DOMAIN queuer' = Queuers /\ \A t \in Queuers : QueuerShape(queuer[t])'
        /\ DOMAIN dequeuer' = Dequeuers /\ \A t \in Dequeuers : DequeuerShape(dequeuer[t])'
    BY <1>3 DEF NX_VipClose, threads, VipInv, VipTypeOK, QueuerShape, DequeuerShape,
                QueuerIdle, DequeuerIdle
  <2>3. open' \in BOOLEAN /\ locked' \in BOOLEAN /\ streamOnFlag' \in BOOLEAN
    BY DEF NX_VipClose, VipInv, VipTypeOK
  <2>4. /\ mode' \in Modes /\ curQueuedSize' \in Int
        /\ pMgmtMem' \in [AllDevices -> [Slots -> Mems \cup {None}]]
    BY DEF NX_VipClose, VipInv, VipTypeOK
  <2>5. QED
    BY <2>1, <2>2, <2>3, <2>4 DEF VipTypeOK
<1>5. QED
  BY <1>1, <1>2, <1>4 DEF VipInv, ClosedInv, LockedInv, StartInv, Calm, NX_VipClose

(* Whoever is inside found the handle open, and meets a locked one only when *)
(* a configuration change has run into it.                                   *)
LEMMA InsideIsOpen ==
  ASSUME VipInv, \/ \E t \in Queuers : queuer[t].pc # "idle"
                 \/ \E t \in Dequeuers : dequeuer[t].pc # "idle"
  PROVE  open /\ (locked => "config" \in mishaps)
<1>1. ~Restful
  BY DEF VipInv, VipTypeOK, Restful, Inside
<1>2. QED
  BY <1>1 DEF VipInv, ClosedInv, LockedInv

(* What a queuer inside finds, until calls run into each other: every        *)
(* device streams, or it is the one that is on the way to start them.        *)
LEMMA StartedByQueuer ==
  ASSUME VipInv, NEW t \in Queuers, queuer[t].pc # "idle",
         mishaps \cap {"start", "config", "on", "dqbuf"} = {}
  PROVE  /\ stray = "no"
         /\ \/ streaming = Devices
            \/ Inside(dequeuer) = {} /\ curQueuedSize = 1 /\ Starting(t)
<1>1. t \in Inside(queuer)
  BY DEF VipInv, VipTypeOK, Inside
<1>2. open
  BY InsideIsOpen
<1>3. QED
  BY <1>1, <1>2 DEF VipInv, StartInv, Starting

(* One queuer moves.                                                         *)
LEMMA QueuerMoves ==
  ASSUME VipTypeOK, NEW t \in Queuers, NEW q, QueuerShape(q), mode' = mode,
         queuer' = [queuer EXCEPT ![t] = q], UNCHANGED dequeuer
  PROVE  /\ Devices' = Devices
         /\ DOMAIN queuer' = Queuers /\ \A u \in Queuers : QueuerShape(queuer[u])'
         /\ DOMAIN dequeuer' = Dequeuers /\ \A u \in Dequeuers : DequeuerShape(dequeuer[u])'
         /\ Inside(queuer') = IF q.pc = "idle" THEN Inside(queuer) \ {t}
                              ELSE Inside(queuer) \cup {t}
         /\ Inside(dequeuer') = Inside(dequeuer)
         /\ queuer'[t] = q /\ \A u \in Queuers : u # t => queuer'[u] = queuer[u]
         /\ Counting' = Counting /\ \A d : FillOf(d)' = FillOf(d)
<1>1. Devices' = Devices
  BY DEF Devices
<1>2. /\ DOMAIN queuer' = Queuers /\ queuer'[t] = q
      /\ \A u \in Queuers : u # t => queuer'[u] = queuer[u]
  BY DEF VipTypeOK
<1>3. \A u \in Queuers : QueuerShape(queuer[u])'
  <2>1. \A r : QueuerShape(r) <=>
                \/ r = QueuerIdle
                \/ /\ r \in [pc : {"qbuf", "flag", "set", "on"}, mem : Mems,
                             slot : [Devices' -> Slots], todo : SUBSET Devices']
                   /\ r.pc \in {"qbuf", "on"} => r.todo # {}
                   /\ r.pc \in {"flag", "set"} => r.todo = {}
    BY <1>1 DEF QueuerShape
  <2>2. \A u \in Queuers : QueuerShape(queuer'[u])
    BY <1>2 DEF VipTypeOK
  <2>3. QED
    BY <2>1, <2>2 DEF QueuerShape
<1>4. DOMAIN dequeuer' = Dequeuers /\ \A u \in Dequeuers : DequeuerShape(dequeuer[u])'
  BY <1>1 DEF VipTypeOK, DequeuerShape
<1>5. /\ Inside(queuer') = IF q.pc = "idle" THEN Inside(queuer) \ {t}
                           ELSE Inside(queuer) \cup {t}
      /\ Inside(dequeuer') = Inside(dequeuer)
  BY <1>2 DEF Inside, VipTypeOK
<1>6. Counting' = Counting /\ \A d : FillOf(d)' = FillOf(d)
  BY DEF Counting, FillOf, Filled
<1>7. QED
  BY <1>1, <1>2, <1>3, <1>4, <1>5, <1>6

(* Reading mStreamOnFlag, NX_VipQueueBuffer.                                 *)
LEMMA TestFlagKeeps ==
  ASSUME VipInv, NEW t \in Queuers, TestFlag(t)
  PROVE  VipInv' /\ \A d : Untouched(d)
<1> DEFINE q == IF streamOnFlag THEN QueuerIdle ELSE [queuer[t] EXCEPT !.pc = "set"]
<1>1. open /\ (locked => "config" \in mishaps)
  BY InsideIsOpen DEF TestFlag
<1>2. /\ QueuerShape(queuer[t]) /\ queuer[t].pc = "flag" /\ VipTypeOK
      /\ mode' = mode /\ queuer' = [queuer EXCEPT ![t] = q] /\ UNCHANGED dequeuer
  BY DEF TestFlag, VipInv, VipTypeOK, handle
<1>3. QueuerShape(q) /\ q.pc = IF streamOnFlag THEN "idle" ELSE "set"
  BY <1>2 DEF QueuerShape, QueuerIdle
<1> HIDE DEF q
<1>4. /\ Devices' = Devices /\ Counting' = Counting /\ \A d : FillOf(d)' = FillOf(d)
      /\ Inside(queuer') = IF q.pc = "idle" THEN Inside(queuer) \ {t} ELSE Inside(queuer) \cup {t}
      /\ Inside(dequeuer') = Inside(dequeuer)
      /\ queuer'[t] = q /\ \A u \in Queuers : u # t => queuer'[u] = queuer[u]
  BY <1>2, <1>3, QueuerMoves
<1>5. VipTypeOK'
  BY <1>2, <1>3, QueuerMoves DEF TestFlag, VipTypeOK, handle, devices
<1>6. StartInv'
  <2>1. /\ UNCHANGED <<open, mishaps, stray, curQueuedSize, streaming, streamOnFlag>>
        /\ queuer[t].pc # "idle"
    BY <1>2 DEF TestFlag, handle, devices
  <2>2. ASSUME Starting(t)
        PROVE  Starting(t)'
    BY <1>2, <1>3, <1>4, <2>1, <2>2 DEF Starting
  <2>3. QED
    BY <1>4, <2>1, <2>2, StartedByQueuer DEF StartInv
<1>7. \A d : Untouched(d)
  <2>1. \A d : Handing(d)' = Handing(d) /\ t \notin Handing(d) /\ Handing(d) \subseteq Queuers
    BY <1>2, <1>3, <1>4 DEF Handing
  <2>2. QED
    BY <1>4, <2>1, HandStays DEF Untouched, TestFlag, devices
<1>8. Calm' => \A d \in Devices' : DeviceInv(d)'
  BY <1>4, <1>7, DeviceStays DEF TestFlag, handle, devices, Calm, VipInv
<1>9. QED
  BY <1>1, <1>5, <1>6, <1>7, <1>8 DEF VipInv, ClosedInv, LockedInv, TestFlag, handle

(* Setting mStreamOnFlag, NX_VipQueueBuffer.                                 *)
LEMMA SetFlagKeeps ==
  ASSUME VipInv, NEW t \in Queuers, SetFlag(t)
  PROVE  VipInv' /\ \A d : Untouched(d)
<1> DEFINE q == [queuer[t] EXCEPT !.pc = "on", !.todo = Devices]
<1>1. open /\ (locked => "config" \in mishaps)
  BY InsideIsOpen DEF SetFlag
<1>2. /\ QueuerShape(queuer[t]) /\ queuer[t].pc = "set" /\ VipTypeOK
      /\ mode' = mode /\ UNCHANGED dequeuer
  BY DEF SetFlag, VipInv, VipTypeOK
<1>3. QueuerShape(q) /\ q.pc = "on" /\ q.todo = Devices
  <2>1. Devices # {}
    BY DeviceSets
  <2>2. queuer[t] \in [pc : {"qbuf", "flag", "set", "on"}, mem : Mems,
                      slot : [Devices -> Slots], todo : SUBSET Devices]
    BY <1>2 DEF QueuerShape, QueuerIdle
  <2>3. q \in [pc : {"qbuf", "flag", "set", "on"}, mem : Mems,
              slot : [Devices -> Slots], todo : SUBSET Devices]
    BY <2>2
  <2>4. q.pc = "on" /\ q.todo = Devices
    BY <2>2
  <2>5. QED
    BY <2>1, <2>3, <2>4 DEF QueuerShape
<1>4. queuer' = [queuer EXCEPT ![t] = q]
  BY <1>2 DEF SetFlag, VipTypeOK
<1> HIDE DEF q
<1>5. /\ Devices' = Devices /\ Counting' = Counting /\ \A d : FillOf(d)' = FillOf(d)
      /\ Inside(queuer') = Inside(queuer) \cup {t} /\ Inside(dequeuer') = Inside(dequeuer)
      /\ queuer'[t] = q /\ \A u \in Queuers : u # t => queuer'[u] = queuer[u]
  BY <1>2, <1>3, <1>4, QueuerMoves
<1>6. VipTypeOK'
  BY <1>2, <1>3, <1>4, QueuerMoves DEF SetFlag, VipTypeOK, devices
<1>7. StartInv'
  <2>1. UNCHANGED <<open, mishaps, stray, curQueuedSize, streaming>> /\ queuer[t].pc # "idle"
    BY <1>2 DEF SetFlag, devices
  <2>2. ASSUME Starting(t)
        PROVE  Starting(t)'
    BY <1>2, <1>3, <1>5, <2>1, <2>2 DEF Starting
  <2>3. QED
    BY <1>5, <2>1, <2>2, StartedByQueuer DEF StartInv
<1>8. \A d : Untouched(d)
  <2>1. \A d : Handing(d)' = Handing(d) /\ t \notin Handing(d) /\ Handing(d) \subseteq Queuers
    BY <1>2, <1>3, <1>5 DEF Handing
  <2>2. QED
    BY <1>5, <2>1, HandStays DEF Untouched, SetFlag, devices
<1>9. Calm' => \A d \in Devices' : DeviceInv(d)'
  BY <1>5, <1>8, DeviceStays DEF SetFlag, devices, Calm, VipInv
<1>10. QED
  BY <1>1, <1>6, <1>7, <1>8, <1>9 DEF VipInv, ClosedInv, LockedInv, SetFlag

(* Starting one device after the other, NX_VipQueueBuffer.                   *)
LEMMA StreamOnKeeps ==
  ASSUME VipInv, NEW t \in Queuers, StreamOn(t)
  PROVE  VipInv' /\ \A d : Untouched(d)
<1> DEFINE d0 == LastOf(queuer[t].todo)
           q == IF queuer[t].todo = {d0} THEN QueuerIdle
                ELSE [queuer[t] EXCEPT !.todo = queuer[t].todo \ {d0}]
<1>1. open /\ (locked => "config" \in mishaps)
  BY InsideIsOpen DEF StreamOn
<1>2. /\ QueuerShape(queuer[t]) /\ queuer[t].pc = "on" /\ VipTypeOK
      /\ mode' = mode /\ queuer' = [queuer EXCEPT ![t] = q] /\ UNCHANGED dequeuer
      /\ \/ streaming' = streaming \cup {d0} /\ mishaps' = mishaps
         \/ "on" \in mishaps' /\ streaming' = streaming
      /\ mishaps \subseteq mishaps'
  BY DEF StreamOn, VipInv, VipTypeOK, handle
<1>3. d0 \in queuer[t].todo /\ queuer[t].todo \subseteq Devices
  <2>1. queuer[t].todo # {} /\ queuer[t].todo \subseteq Devices
    BY <1>2 DEF QueuerShape, QueuerIdle
  <2>2. QED
    BY <2>1, DeviceSets
<1> HIDE DEF d0
<1>4. /\ QueuerShape(q)
      /\ IF queuer[t].todo = {d0} THEN q.pc = "idle"
         ELSE q.pc = "on" /\ q.todo = queuer[t].todo \ {d0}
  BY <1>2, <1>3 DEF QueuerShape, QueuerIdle
<1> HIDE DEF q
<1>5. /\ Devices' = Devices /\ Counting' = Counting /\ \A d : FillOf(d)' = FillOf(d)
      /\ Inside(queuer') = IF q.pc = "idle" THEN Inside(queuer) \ {t} ELSE Inside(queuer) \cup {t}
      /\ Inside(dequeuer') = Inside(dequeuer)
      /\ queuer'[t] = q /\ \A u \in Queuers : u # t => queuer'[u] = queuer[u]
  BY <1>2, <1>4, QueuerMoves
<1>6. VipTypeOK'
  BY <1>2, <1>4, QueuerMoves DEF StreamOn, VipTypeOK, handle
<1>7. StartInv'
  <2> SUFFICES ASSUME "on" \notin mishaps'
               PROVE  StartInv'
    BY DEF StartInv
  <2>1. /\ UNCHANGED <<open, mishaps, stray, curQueuedSize>> /\ queuer[t].pc # "idle"
        /\ streaming' = streaming \cup {d0}
    BY <1>2 DEF StreamOn, handle
  <2>2. ASSUME streaming = Devices
        PROVE  streaming' = Devices'
    BY <1>3, <1>5, <2>1, <2>2
  <2>3. ASSUME Starting(t)
        PROVE  streaming' = Devices' \/ Starting(t)'
    <3>1. Inside(queuer) = {t} /\ streaming = Devices \ queuer[t].todo
      BY <1>2, <2>3 DEF Starting
    <3>2. CASE queuer[t].todo = {d0}
      BY <1>3, <1>5, <2>1, <3>1, <3>2
    <3>3. CASE queuer[t].todo # {d0}
      <4>1. q.pc = "on" /\ streaming' = Devices \ q.todo
        BY <1>3, <1>4, <2>1, <3>1, <3>3
      <4>2. QED
        BY <1>5, <3>1, <4>1 DEF Starting
    <3>4. QED
      BY <3>2, <3>3
  <2>4. QED
    BY <1>5, <2>1, <2>2, <2>3, StartedByQueuer DEF StartInv
<1>8. \A d : Untouched(d)
  <2>1. \A d : Handing(d)' = Handing(d) /\ t \notin Handing(d) /\ Handing(d) \subseteq Queuers
    BY <1>2, <1>4, <1>5 DEF Handing
  <2>2. QED
    BY <1>5, <2>1, HandStays DEF Untouched, StreamOn
<1>9. Calm' => \A d \in Devices' : DeviceInv(d)'
  <2>1. Calm' => Calm
    BY <1>2 DEF StreamOn, handle, Calm
  <2>2. QED
    BY <1>5, <1>8, <2>1, DeviceStays DEF StreamOn, handle, VipInv
<1>10. QED
  BY <1>1, <1>2, <1>6, <1>7, <1>8, <1>9 DEF VipInv, ClosedInv, LockedInv, StreamOn, handle

(* The buffer that a queuer hands over goes to the first device of its todo, *)
(* which takes it or fails.                                                  *)
LEMMA QbufKeeps ==
  ASSUME VipInv, NEW t \in Queuers, Qbuf(t)
  PROVE  VipInv' /\ \A d \in Devices : DeviceInv(d) =>
                       HandedOver(d, t) \/ Untouched(d) \/ "refused" \in mishaps'
<1> DEFINE d0 == FirstOf(queuer[t].todo)
           b == <<queuer[t].slot[d0], queuer[t].mem>>
           q == [queuer[t] EXCEPT !.todo = queuer[t].todo \ {d0},
                                  !.pc = IF queuer[t].todo = {d0} THEN "flag" ELSE "qbuf"]
<1>1. open /\ (locked => "config" \in mishaps)
  BY InsideIsOpen DEF Qbuf
<1>2. /\ QueuerShape(queuer[t]) /\ queuer[t].pc = "qbuf" /\ VipTypeOK
      /\ mode' = mode /\ UNCHANGED dequeuer
      /\ \/ /\ queued' = [queued EXCEPT ![d0] = Append(queued[d0], b)]
            /\ UNCHANGED <<refused, mishaps>>
         \/ /\ refused' = [refused EXCEPT ![d0] = refused[d0] \cup {b[1]}]
            /\ mishaps' = mishaps \cup {"refused"} /\ UNCHANGED queued
      /\ UNCHANGED <<open, locked, stray, pMgmtMem, curQueuedSize, streaming, streamOnFlag>>
  BY DEF Qbuf, VipInv, VipTypeOK, handle
<1>3. queuer[t] \in [pc : {"qbuf", "flag", "set", "on"}, mem : Mems,
                     slot : [Devices -> Slots], todo : SUBSET Devices]
  BY <1>2 DEF QueuerShape, QueuerIdle
<1>4. d0 \in queuer[t].todo /\ queuer[t].todo \subseteq Devices /\ Devices \subseteq AllDevices
  <2>1. queuer[t].todo # {} /\ queuer[t].todo \subseteq Devices
    BY <1>2 DEF QueuerShape, QueuerIdle
  <2>2. QED
    BY <2>1, DeviceSets
<1>5. queuer' = [queuer EXCEPT ![t] = q]
  BY <1>2 DEF Qbuf, VipTypeOK
<1>6. b \in Buffer
  BY <1>3, <1>4 DEF Buffer
<1> HIDE DEF d0
<1>7. /\ QueuerShape(q) /\ q.todo = queuer[t].todo \ {d0}
      /\ q.pc = IF queuer[t].todo = {d0} THEN "flag" ELSE "qbuf"
      /\ q.slot = queuer[t].slot /\ q.mem = queuer[t].mem
  BY <1>3, <1>4 DEF QueuerShape
<1> HIDE DEF q, b
<1>8. /\ Devices' = Devices /\ Counting' = Counting /\ \A d : FillOf(d)' = FillOf(d)
      /\ Inside(queuer') = Inside(queuer) \cup {t} /\ Inside(dequeuer') = Inside(dequeuer)
      /\ queuer'[t] = q /\ \A u \in Queuers : u # t => queuer'[u] = queuer[u]
  BY <1>2, <1>5, <1>7, QueuerMoves
<1>9. VipTypeOK'
  <2>1. queued[d0] \in Seq(Buffer) /\ queued \in [AllDevices -> Seq(Buffer)]
    BY <1>2, <1>4 DEF VipTypeOK
  <2>2. Append(queued[d0], b) \in Seq(Buffer)
    BY <1>6, <2>1, AppendProperties
  <2>3. queued' \in [AllDevices -> Seq(Buffer)]
    BY <1>2, <2>1, <2>2
  <2>4. refused' \in [AllDevices -> SUBSET Slots]
    <3>1. refused \in [AllDevices -> SUBSET Slots] /\ b[1] \in Slots
      BY <1>2, <1>6 DEF VipTypeOK, Buffer
    <3>2. QED
      BY <1>2, <1>4, <3>1
  <2>5. /\ DOMAIN queuer' = Queuers /\ \A u \in Queuers : QueuerShape(queuer[u])'
        /\ DOMAIN dequeuer' = Dequeuers /\ \A u \in Dequeuers : DequeuerShape(dequeuer[u])'
    BY <1>2, <1>5, <1>7, QueuerMoves
  <2>6. QED
    BY <1>2, <2>3, <2>4, <2>5 DEF VipTypeOK
<1>10. StartInv'
  <2>1. /\ UNCHANGED <<open, stray, curQueuedSize, streaming, streamOnFlag>>
        /\ queuer[t].pc # "idle" /\ mishaps \subseteq mishaps'
    BY <1>2
  <2>2. ASSUME Starting(t)
        PROVE  Starting(t)'
    BY <1>2, <1>7, <1>8, <2>1, <2>2 DEF Starting
  <2>3. QED
    BY <1>8, <2>1, <2>2, StartedByQueuer DEF StartInv
<1>11. ASSUME NEW d \in Devices, DeviceInv(d)
       PROVE  DeviceInv(d)' /\ (HandedOver(d, t) \/ Untouched(d) \/ "refused" \in mishaps')
  <2>1. UNCHANGED <<pMgmtMem, curQueuedSize>> /\ d \in AllDevices
    BY <1>2, <1>4
  <2>2. \A u : u \in Handing(d) <=> u \in Queuers /\ queuer[u].pc = "qbuf" /\ d \in queuer[u].todo
    BY DEF Handing
  <2>3. \A u : u \in Handing(d)' <=>
                  u \in Queuers /\ queuer'[u].pc = "qbuf" /\ d \in queuer'[u].todo
    BY DEF Handing
  <2>4. CASE d = d0
    <3>1. t \in Handing(d) /\ HandOf(d)[t] = b /\ DOMAIN HandOf(d) = Handing(d)
      BY <1>2, <1>4, <2>2, <2>4 DEF HandOf, b
    <3>2. HandOf(d)' = Without(HandOf(d), t)
      <4>1. Handing(d)' = Handing(d) \ {t}
        BY <1>7, <1>8, <2>2, <2>3, <2>4
      <4>2. \A u \in Handing(d) \ {t} : queuer'[u] = queuer[u]
        BY <1>8, <2>2
      <4>3. QED
        BY <3>1, <4>1, <4>2, HandLess
    <3>3. /\ refused[d] \subseteq Taken(pMgmtMem[d])
          /\ Agrees(Live(pMgmtMem[d], refused[d]), HandOf(d), queued[d], FillOf(d))
          /\ queued[d] \in Seq(Buffer)
          /\ curQueuedSize = Cardinality(DOMAIN HandOf(d)) + Len(queued[d])
                              + Cardinality(DOMAIN FillOf(d)) + Cardinality(Counting)
                              + Cardinality(refused[d])
      BY <1>11 DEF DeviceInv, Agrees
    <3>4. /\ Cardinality(DOMAIN HandOf(d)) \in Nat /\ Len(queued[d]) \in Nat
          /\ Cardinality(DOMAIN FillOf(d)) \in Nat /\ Cardinality(Counting) \in Nat
          /\ Cardinality(refused[d]) \in Nat
      <4>1. /\ Cardinality(DOMAIN HandOf(d)) \in Nat /\ Len(queued[d]) \in Nat
            /\ Cardinality(DOMAIN FillOf(d)) \in Nat /\ Cardinality(refused[d]) \in Nat
        BY <3>3, FS_CardinalityType, LiveTaken DEF Agrees
      <4>2. QED
        BY <4>1, CountingFinite
    <3>5. CASE queued' = [queued EXCEPT ![d0] = Append(queued[d0], b)] /\ refused' = refused
      <4>1. /\ Agrees(Live(pMgmtMem[d], refused[d]), HandOf(d)', Append(queued[d], b), FillOf(d))
            /\ Cardinality(DOMAIN HandOf(d)') = Cardinality(DOMAIN HandOf(d)) - 1
            /\ Len(Append(queued[d], b)) = Len(queued[d]) + 1
        BY <3>1, <3>2, <3>3, QbufAgrees
      <4>2. queued'[d] = Append(queued[d], b) /\ refused'[d] = refused[d]
        BY <1>2, <2>1, <2>4, <3>5 DEF VipTypeOK
      <4>3. Cardinality(DOMAIN HandOf(d)') + Len(queued'[d])
              = Cardinality(DOMAIN HandOf(d)) + Len(queued[d])
        BY <3>4, <4>1, <4>2
      <4>4. curQueuedSize' = Cardinality(DOMAIN HandOf(d)') + Len(queued'[d])
                              + Cardinality(DOMAIN FillOf(d)') + Cardinality(Counting')
                              + Cardinality(refused'[d])
        BY <1>8, <2>1, <3>3, <4>2, <4>3
      <4>5. QED
        BY <1>8, <2>1, <3>1, <3>2, <3>3, <4>1, <4>2, <4>4 DEF DeviceInv, HandedOver
    <3>6. CASE /\ refused' = [refused EXCEPT ![d0] = refused[d0] \cup {b[1]}]
               /\ queued' = queued /\ "refused" \in mishaps'
      <4>1. /\ Agrees(Live(pMgmtMem[d], refused[d] \cup {b[1]}), HandOf(d)', queued[d], FillOf(d))
            /\ refused[d] \cup {b[1]} \subseteq Taken(pMgmtMem[d])
            /\ Cardinality(refused[d] \cup {b[1]}) = Cardinality(refused[d]) + 1
            /\ Cardinality(DOMAIN HandOf(d)') = Cardinality(DOMAIN HandOf(d)) - 1
        <5>1. /\ Agrees(Live(pMgmtMem[d], refused[d] \cup {HandOf(d)[t][1]}),
                        Without(HandOf(d), t), queued[d], FillOf(d))
              /\ refused[d] \cup {HandOf(d)[t][1]} \subseteq Taken(pMgmtMem[d])
              /\ Cardinality(refused[d] \cup {HandOf(d)[t][1]}) = Cardinality(refused[d]) + 1
              /\ Cardinality(DOMAIN Without(HandOf(d), t)) = Cardinality(DOMAIN HandOf(d)) - 1
          <6>1. t \in DOMAIN HandOf(d) /\ refused[d] \subseteq Taken(pMgmtMem[d])
            BY <3>1, <3>3
          <6>2. Agrees(Live(pMgmtMem[d], refused[d]), HandOf(d), queued[d], FillOf(d))
            BY <3>3
          <6>3. QED
            BY <6>1, <6>2, RefuseAgrees
        <5>2. QED
          BY <3>1, <3>2, <5>1, Zenon
      <4>2. refused'[d] = refused[d] \cup {b[1]} /\ queued'[d] = queued[d]
        BY <1>2, <2>1, <2>4, <3>6 DEF VipTypeOK
      <4>3. curQueuedSize = (Cardinality(DOMAIN HandOf(d)) - 1) + Len(queued[d])
                              + Cardinality(DOMAIN FillOf(d)) + Cardinality(Counting)
                              + (Cardinality(refused[d]) + 1)
        <5> DEFINE h == Cardinality(DOMAIN HandOf(d))
                   l == Len(queued[d])
                   f == Cardinality(DOMAIN FillOf(d))
                   c == Cardinality(Counting)
                   n == Cardinality(refused[d])
        <5>1. curQueuedSize = h + l + f + c + n
          BY <3>3
        <5>2. h \in Nat /\ l \in Nat /\ f \in Nat /\ c \in Nat /\ n \in Nat
          BY <3>4
        <5> HIDE DEF h, l, f, c, n
        <5>3. curQueuedSize = (h - 1) + l + f + c + (n + 1)
          BY <5>1, <5>2
        <5>4. QED
          BY <5>3 DEF h, l, f, c, n
      <4>4. curQueuedSize' = Cardinality(DOMAIN HandOf(d)') + Len(queued'[d])
                              + Cardinality(DOMAIN FillOf(d)') + Cardinality(Counting')
                              + Cardinality(refused'[d])
        BY <1>8, <2>1, <4>1, <4>2, <4>3, Zenon
      <4>5. QED
        BY <1>8, <2>1, <3>6, <4>1, <4>2, <4>4 DEF DeviceInv
    <3>7. QED
      BY <1>2, <3>5, <3>6
  <2>5. CASE d # d0
    <3>1. Handing(d)' = Handing(d) /\ Handing(d) \subseteq Queuers
      <4>1. t \in Handing(d) <=> t \in Handing(d)'
        BY <1>2, <1>4, <1>7, <1>8, <2>2, <2>3, <2>5
      <4>2. \A u \in Queuers : u # t => (u \in Handing(d) <=> u \in Handing(d)')
        BY <1>8, <2>2, <2>3
      <4>3. QED
        BY <2>2, <2>3, <4>1, <4>2
    <3>2. HandOf(d)' = HandOf(d)
      BY <1>7, <1>8, <3>1, HandStays
    <3>3. queued'[d] = queued[d] /\ refused'[d] = refused[d]
      BY <1>2, <2>1, <2>5 DEF VipTypeOK
    <3>4. Untouched(d)
      BY <1>8, <3>2, <3>3 DEF Untouched
    <3>5. QED
      BY <1>8, <1>11, <2>1, <3>3, <3>4, DeviceStays
  <2>6. QED
    BY <2>4, <2>5
<1>12. (Calm' => Calm) /\ mishaps \subseteq mishaps'
  BY <1>2 DEF Calm
<1>13. QED
  BY <1>1, <1>2, <1>8, <1>9, <1>10, <1>11, <1>12 DEF VipInv, ClosedInv, LockedInv

(* While fewer slots are taken than there are, one is empty.                 *)
LEMMA RoomLeft ==
  ASSUME NEW d, pMgmtMem[d] \in [Slots -> Mems \cup {None}],
         Cardinality(Taken(pMgmtMem[d])) < VIP_MAX_BUF_SIZE
  PROVE  Empty(d) # {}
<1>1. Taken(pMgmtMem[d]) # Slots
  BY SlotsFiniteVip, SizeAssumption
<1>2. QED
  BY <1>1 DEF Taken, Empty

(* The counter covers the taken slots of a calm handle, so a claim finds an  *)
(* empty slot in every table.                                                *)
LEMMA ClaimFits ==
  ASSUME NEW d \in AllDevices, VipTypeOK, DeviceInv(d), curQueuedSize < VIP_MAX_BUF_SIZE
  PROVE  Empty(d) # {}
<1> DEFINE kept == Live(pMgmtMem[d], refused[d])
<1>1. /\ Cardinality(Taken(kept)) = Cardinality(DOMAIN HandOf(d)) + Len(queued[d])
                                     + Cardinality(DOMAIN FillOf(d))
      /\ curQueuedSize = Cardinality(DOMAIN HandOf(d)) + Len(queued[d])
                          + Cardinality(DOMAIN FillOf(d)) + Cardinality(Counting)
                          + Cardinality(refused[d])
      /\ pMgmtMem[d] \in [Slots -> Mems \cup {None}] /\ refused[d] \subseteq Taken(pMgmtMem[d])
  BY DEF DeviceInv, Agrees, VipTypeOK
<1>2. /\ Cardinality(Taken(kept)) \in Nat /\ Cardinality(refused[d]) \in Nat
      /\ Cardinality(Taken(pMgmtMem[d])) = Cardinality(Taken(kept)) + Cardinality(refused[d])
  BY <1>1, TakenFinite, LiveTaken
<1> HIDE DEF kept
<1>3. Cardinality(Counting) \in Nat
  BY CountingFinite
<1>4. curQueuedSize = Cardinality(Taken(kept)) + Cardinality(Counting) + Cardinality(refused[d])
  BY <1>1, Zenon
<1>5. Cardinality(Taken(pMgmtMem[d])) < VIP_MAX_BUF_SIZE
  BY <1>2, <1>3, <1>4, SizeAssumption
<1>6. QED
  BY <1>1, <1>5, RoomLeft

Fits == {d \in Devices : Empty(d) # {} /\ (d = "deci" => "clip" \notin Devices
                                             \/ Empty("clip") # {})}
SlotOf == [d \in Fits |-> Min(Empty(d))]

(* Counting a buffer and claiming a slot for it in the table of every        *)
(* device, NX_VipQueueBuffer: the calm handle has one, so every device gets  *)
(* its share.                                                                *)
LEMMA ClaimKeeps ==
  ASSUME VipInv, NEW t \in Queuers, NEW m \in Mems, Claim(t, m)
  PROVE  VipInv' /\ (Calm => \A d \in Devices : Claimed(d, t, SlotOf[d], m))
<1> DEFINE q == [pc |-> "qbuf", mem |-> m, slot |-> SlotOf, todo |-> Devices]
<1>1. /\ open /\ ~locked /\ queuer[t].pc = "idle" /\ curQueuedSize < VIP_MAX_BUF_SIZE
      /\ pMgmtMem' = [d \in AllDevices |->
                        IF d \in Fits THEN [pMgmtMem[d] EXCEPT ![SlotOf[d]] = m]
                        ELSE pMgmtMem[d]]
      /\ UNCHANGED <<open, mode, streamOnFlag, locked, queued, streaming, refused, dequeuer,
                     stray>>
  BY DEF Claim, Fits, SlotOf, devices
<1>2. IF Fits = Devices
      THEN /\ curQueuedSize' = curQueuedSize + 1
           /\ queuer' = [queuer EXCEPT ![t] = q]
           /\ mishaps' = mishaps
                \union {x \in {"queue"} : Inside(queuer) # {}}
                \union {x \in {"start"} : Inside(queuer) # {} /\ streaming # Devices}
      ELSE UNCHANGED <<curQueuedSize, queuer, mishaps>>
  BY DEF Claim, Fits, SlotOf
<1>3. Devices \subseteq AllDevices /\ Devices # {} /\ VipTypeOK
  BY DeviceSets DEF VipInv
<1>4. \A d \in Fits : /\ d \in Devices /\ SlotOf[d] \in Slots
                      /\ pMgmtMem[d][SlotOf[d]] = None
  <2> SUFFICES ASSUME NEW d \in Fits
               PROVE  Min(Empty(d)) \in Empty(d) /\ d \in Devices
    BY DEF SlotOf, Empty
  <2>1. Empty(d) \in SUBSET Nat /\ Empty(d) # {} /\ d \in Devices
    BY DEF Empty, Fits, Slots
  <2>2. QED
    BY <2>1, MinIn
<1>5. pMgmtMem' \in [AllDevices -> [Slots -> Mems \cup {None}]]
  BY <1>1, <1>3, <1>4 DEF VipTypeOK
<1>6. Calm => Fits = Devices
  <2> SUFFICES ASSUME Calm
               PROVE  \A d \in Devices : Empty(d) # {}
    BY DEF Fits
  <2>1. QED
    BY <1>1, <1>3, ClaimFits DEF VipInv
<1>7. CASE Fits # Devices
  <2>1. UNCHANGED <<curQueuedSize, queuer, mishaps>>
    BY <1>2, <1>7
  <2>2. Devices' = Devices
    BY <1>1 DEF Devices
  <2>3. VipTypeOK'
    <3>1. /\ DOMAIN queuer' = Queuers /\ \A u \in Queuers : QueuerShape(queuer[u])'
          /\ DOMAIN dequeuer' = Dequeuers /\ \A u \in Dequeuers : DequeuerShape(dequeuer[u])'
      BY <1>1, <2>1, <2>2 DEF VipInv, VipTypeOK, QueuerShape, DequeuerShape
    <3>2. open' \in BOOLEAN /\ locked' \in BOOLEAN /\ streamOnFlag' \in BOOLEAN
      BY <1>1, <1>3 DEF VipTypeOK
    <3>3. /\ mode' \in Modes /\ curQueuedSize' \in Int
          /\ queued' \in [AllDevices -> Seq(Buffer)] /\ refused' \in [AllDevices -> SUBSET Slots]
      BY <1>1, <1>3, <2>1 DEF VipTypeOK
    <3>4. QED
      BY <1>5, <3>1, <3>2, <3>3 DEF VipTypeOK
  <2>4. StartInv'
    <3>1. Inside(queuer') = Inside(queuer) /\ Inside(dequeuer') = Inside(dequeuer)
      BY <1>1, <2>1 DEF Inside
    <3>2. \A u \in Queuers : Starting(u)' <=> Starting(u)
      BY <1>1, <2>1, <2>2, <3>1 DEF Starting
    <3>3. QED
      BY <1>1, <2>1, <2>2, <3>1, <3>2 DEF VipInv, StartInv
  <2>5. ~Calm'
    BY <1>1, <1>6, <1>7, <2>1 DEF Calm
  <2>6. QED
    BY <1>1, <1>6, <1>7, <2>3, <2>4, <2>5 DEF VipInv, ClosedInv, LockedInv
<1>8. CASE Fits = Devices
  <2>1. SlotOf \in [Devices -> Slots]
    BY <1>4, <1>8 DEF SlotOf
  <2>2. QueuerShape(q)
    BY <1>3, <2>1 DEF QueuerShape
  <2>3. q.pc = "qbuf" /\ q.mem = m /\ q.slot = SlotOf /\ q.todo = Devices
    OBVIOUS
  <2> HIDE DEF q
  <2>4. queuer' = [queuer EXCEPT ![t] = q] /\ curQueuedSize' = curQueuedSize + 1
    BY <1>2, <1>8
  <2>5. /\ Devices' = Devices /\ Counting' = Counting /\ \A d : FillOf(d)' = FillOf(d)
        /\ Inside(queuer') = Inside(queuer) \cup {t} /\ Inside(dequeuer') = Inside(dequeuer)
        /\ queuer'[t] = q /\ \A u \in Queuers : u # t => queuer'[u] = queuer[u]
    BY <1>1, <1>3, <2>2, <2>3, <2>4, QueuerMoves
  <2>6. VipTypeOK'
    <3>1. open' \in BOOLEAN /\ locked' \in BOOLEAN /\ streamOnFlag' \in BOOLEAN
      BY <1>1, <1>3 DEF VipTypeOK
    <3>2. /\ mode' \in Modes /\ curQueuedSize' \in Int
          /\ queued' \in [AllDevices -> Seq(Buffer)] /\ refused' \in [AllDevices -> SUBSET Slots]
      BY <1>1, <1>3, <2>4 DEF VipTypeOK
    <3>3. /\ DOMAIN queuer' = Queuers /\ \A u \in Queuers : QueuerShape(queuer[u])'
          /\ DOMAIN dequeuer' = Dequeuers /\ \A u \in Dequeuers : DequeuerShape(dequeuer[u])'
      BY <1>1, <1>3, <2>2, <2>4, QueuerMoves
    <3>4. QED
      BY <1>5, <3>1, <3>2, <3>3 DEF VipTypeOK
  <2>7. StartInv'
    <3> SUFFICES ASSUME mishaps' \cap {"start", "config", "on", "dqbuf"} = {}
                 PROVE  StartInv'
      BY DEF StartInv
    <3>1. /\ mishaps \cap {"start", "config", "on", "dqbuf"} = {}
          /\ Inside(queuer) = {} \/ streaming = Devices
      BY <1>2, <1>8
    <3>2. CASE streaming = Devices
      BY <1>1, <2>5, <3>1, <3>2 DEF VipInv, StartInv
    <3>3. CASE streaming # Devices
      <4>1. /\ stray = "no" /\ Inside(queuer) = {} /\ Inside(dequeuer) = {}
            /\ streamOnFlag = FALSE /\ streaming = {} /\ curQueuedSize = 0
        BY <1>1, <3>1, <3>3 DEF VipInv, StartInv, Starting
      <4>2. Starting(t)'
        BY <1>1, <2>3, <2>5, <4>1 DEF Starting
      <4>3. QED
        BY <1>1, <2>4, <2>5, <4>1, <4>2 DEF StartInv
    <3>4. QED
      BY <3>2, <3>3
  <2>8. ASSUME NEW d \in Devices, DeviceInv(d)
        PROVE  DeviceInv(d)' /\ Claimed(d, t, SlotOf[d], m)
    <3>1. /\ pMgmtMem'[d] = [pMgmtMem[d] EXCEPT ![SlotOf[d]] = m]
          /\ SlotOf[d] \in Slots /\ pMgmtMem[d][SlotOf[d]] = None
      BY <1>1, <1>3, <1>4, <1>8
    <3>2. t \notin Handing(d) /\ Handing(d)' = Handing(d) \cup {t} /\ Handing(d) \subseteq Queuers
      <4>1. \A u : u \in Handing(d) <=>
                      u \in Queuers /\ queuer[u].pc = "qbuf" /\ d \in queuer[u].todo
        BY DEF Handing
      <4>2. \A u : u \in Handing(d)' <=>
                      u \in Queuers /\ queuer'[u].pc = "qbuf" /\ d \in queuer'[u].todo
        BY DEF Handing
      <4>3. \A u \in Queuers : u # t => (u \in Handing(d) <=> u \in Handing(d)')
        BY <2>5, <4>1, <4>2
      <4>4. t \in Handing(d)' /\ t \notin Handing(d)
        BY <1>1, <2>3, <2>5, <4>1, <4>2
      <4>5. QED
        BY <4>1, <4>2, <4>3, <4>4
    <3>3. HandOf(d)' = With(HandOf(d), t, <<SlotOf[d], m>>)
      BY <2>3, <2>5, <3>2, HandMore
    <3>4. DOMAIN HandOf(d) = Handing(d) /\ DOMAIN HandOf(d)' = Handing(d)'
      BY DEF HandOf
    <3>5. /\ Agrees(Live(pMgmtMem[d], refused[d]), HandOf(d), queued[d], FillOf(d))
          /\ refused[d] \subseteq Taken(pMgmtMem[d]) /\ Cardinality(refused[d]) \in Nat
      BY <2>8, LiveTaken DEF DeviceInv
    <3>6. /\ Agrees(Live(pMgmtMem'[d], refused[d]), HandOf(d)', queued[d], FillOf(d))
          /\ refused[d] \subseteq Taken(pMgmtMem'[d])
      <4>1. /\ SlotOf[d] \notin refused[d] /\ DOMAIN pMgmtMem[d] = Slots
            /\ Live(pMgmtMem[d], refused[d])[SlotOf[d]] = None
        BY <1>3, <3>1, <3>5 DEF Taken, Live, VipTypeOK
      <4>2. Live(pMgmtMem'[d], refused[d])
              = [Live(pMgmtMem[d], refused[d]) EXCEPT ![SlotOf[d]] = m]
        BY <3>1, <4>1, LiveExcept
      <4>3. refused[d] \subseteq Taken(pMgmtMem'[d])
        BY <3>1, <3>5, <4>1 DEF Taken
      <4>4. QED
        BY <3>1, <3>2, <3>3, <3>4, <3>5, <4>1, <4>2, <4>3, ClaimAgrees
    <3>7. /\ Cardinality(Handing(d)') = Cardinality(Handing(d)) + 1
          /\ Cardinality(Handing(d)) \in Nat
      <4>1. IsFiniteSet(Handing(d))
        BY <3>2, ThreadsAssumption, FS_Subset
      <4>2. QED
        BY <3>2, <4>1, FS_AddElement, FS_CardinalityType
    <3>8. /\ Cardinality(DOMAIN FillOf(d)) \in Nat /\ Len(queued[d]) \in Nat
          /\ Cardinality(Counting) \in Nat
      <4>1. Cardinality(DOMAIN FillOf(d)) \in Nat /\ Len(queued[d]) \in Nat
        BY <3>5, FS_CardinalityType DEF Agrees
      <4>2. QED
        BY <4>1, CountingFinite
    <3>9. curQueuedSize' = Cardinality(DOMAIN HandOf(d)') + Len(queued[d])
                            + Cardinality(DOMAIN FillOf(d)) + Cardinality(Counting)
                            + Cardinality(refused[d])
      <4>1. curQueuedSize = Cardinality(Handing(d)) + Len(queued[d])
                             + Cardinality(DOMAIN FillOf(d)) + Cardinality(Counting)
                             + Cardinality(refused[d])
        BY <2>8, <3>4 DEF DeviceInv
      <4>2. curQueuedSize + 1 = Cardinality(Handing(d)') + Len(queued[d])
                             + Cardinality(DOMAIN FillOf(d)) + Cardinality(Counting)
                             + Cardinality(refused[d])
        <5> DEFINE h == Cardinality(Handing(d))
                   l == Len(queued[d])
                   f == Cardinality(DOMAIN FillOf(d))
                   c == Cardinality(Counting)
                   n == Cardinality(refused[d])
        <5>1. curQueuedSize = h + l + f + c + n
          BY <4>1
        <5>2. h \in Nat /\ l \in Nat /\ f \in Nat /\ c \in Nat /\ n \in Nat
          BY <3>5, <3>7, <3>8
        <5>3. Cardinality(Handing(d)') = h + 1
          BY <3>7
        <5> HIDE DEF h, l, f, c, n
        <5>4. curQueuedSize + 1 = (h + 1) + l + f + c + n
          BY <5>1, <5>2
        <5>5. QED
          BY <5>3, <5>4 DEF l, f, c, n
      <4>3. QED
        BY <2>4, <3>4, <4>2
    <3>10. QED
      BY <1>1, <2>5, <3>3, <3>6, <3>9 DEF DeviceInv, Claimed
  <2>9. Calm' => Calm
    BY <1>1, <1>2, <1>8 DEF Calm
  <2>10. QED
    BY <1>1, <2>5, <2>6, <2>7, <2>8, <2>9 DEF VipInv, ClosedInv, LockedInv
<1>9. QED
  BY <1>7, <1>8

(* One dequeuer moves.                                                       *)
LEMMA DequeuerMoves ==
  ASSUME VipTypeOK, NEW t \in Dequeuers, NEW q, DequeuerShape(q), mode' = mode,
         dequeuer' = [dequeuer EXCEPT ![t] = q], UNCHANGED queuer
  PROVE  /\ Devices' = Devices
         /\ DOMAIN queuer' = Queuers /\ \A u \in Queuers : QueuerShape(queuer[u])'
         /\ DOMAIN dequeuer' = Dequeuers /\ \A u \in Dequeuers : DequeuerShape(dequeuer[u])'
         /\ Inside(dequeuer') = IF q.pc = "idle" THEN Inside(dequeuer) \ {t}
                                ELSE Inside(dequeuer) \cup {t}
         /\ Inside(queuer') = Inside(queuer)
         /\ dequeuer'[t] = q /\ \A u \in Dequeuers : u # t => dequeuer'[u] = dequeuer[u]
         /\ \A d : HandOf(d)' = HandOf(d)
<1>1. Devices' = Devices
  BY DEF Devices
<1>2. /\ DOMAIN dequeuer' = Dequeuers /\ dequeuer'[t] = q
      /\ \A u \in Dequeuers : u # t => dequeuer'[u] = dequeuer[u]
  BY DEF VipTypeOK
<1>3. \A u \in Dequeuers : DequeuerShape(dequeuer[u])'
  <2>1. \A r : DequeuerShape(r) <=>
                \/ r = DequeuerIdle
                \/ /\ r = [pc |-> r.pc, idx |-> r.idx, filled |-> r.filled, got |-> r.got]
                   /\ DOMAIN r.idx \subseteq Devices' /\ r.idx \in [DOMAIN r.idx -> Slots]
                   /\ r.filled \in [DOMAIN r.idx -> Mems \cup {None}]
                   /\ \/ r.pc = "dqbuf" /\ DOMAIN r.idx # Devices'
                      \/ r.pc = "take" /\ DOMAIN r.idx = Devices'
                      \/ r.pc = "count" /\ DOMAIN r.idx = Devices'
    BY <1>1 DEF DequeuerShape
  <2>2. \A u \in Dequeuers : DequeuerShape(dequeuer'[u])
    BY <1>2 DEF VipTypeOK
  <2>3. QED
    BY <2>1, <2>2 DEF DequeuerShape
<1>4. DOMAIN queuer' = Queuers /\ \A u \in Queuers : QueuerShape(queuer[u])'
  BY <1>1 DEF VipTypeOK, QueuerShape
<1>5. /\ Inside(dequeuer') = IF q.pc = "idle" THEN Inside(dequeuer) \ {t}
                             ELSE Inside(dequeuer) \cup {t}
      /\ Inside(queuer') = Inside(queuer)
  BY <1>2 DEF Inside, VipTypeOK
<1>6. \A d : HandOf(d)' = HandOf(d)
  BY DEF HandOf, Handing
<1>7. QED
  BY <1>1, <1>2, <1>3, <1>4, <1>5, <1>6

(* What a dequeuer inside finds, until calls run into each other: every      *)
(* device streams.                                                           *)
LEMMA StartedForDequeuer ==
  ASSUME VipInv, NEW t \in Dequeuers, dequeuer[t].pc # "idle",
         mishaps \cap {"start", "config", "on", "dqbuf"} = {}
  PROVE  stray = "no" /\ streaming = Devices
<1>1. t \in Inside(dequeuer)
  BY DEF VipInv, VipTypeOK, Inside
<1>2. open
  BY InsideIsOpen
<1>3. QED
  BY <1>1, <1>2 DEF VipInv, StartInv

(* The check of curQueuedSize, NX_VipDequeueBuffer: two buffers are          *)
(* counted, so the devices were started.                                     *)
LEMMA CheckKeeps ==
  ASSUME VipInv, NEW t \in Dequeuers, Check(t)
  PROVE  VipInv' /\ \A d : Untouched(d)
<1> DEFINE q == [dequeuer[t] EXCEPT !.pc = "dqbuf"]
<1>1. /\ open /\ ~locked /\ dequeuer[t].pc = "idle" /\ curQueuedSize >= 2
      /\ VipTypeOK /\ mode' = mode /\ UNCHANGED queuer
      /\ dequeuer' = [dequeuer EXCEPT ![t] = q]
  BY DEF Check, VipInv, VipTypeOK, handle
<1>2. dequeuer[t] = DequeuerIdle
  BY <1>1 DEF VipTypeOK, DequeuerShape
<1>3. DOMAIN dequeuer[t].idx = {}
  BY <1>2 DEF DequeuerIdle
<1>4. q = [pc |-> "dqbuf", idx |-> <<>>, filled |-> <<>>, got |-> <<>>]
  BY <1>2 DEF DequeuerIdle
<1> HIDE DEF q
<1>5. DequeuerShape(q) /\ q.pc = "dqbuf" /\ DOMAIN q.idx = {}
  <2>1. Devices # {}
    BY DeviceSets
  <2>2. <<>> \in [{} -> Slots] /\ <<>> \in [{} -> Mems \cup {None}] /\ DOMAIN <<>> = {}
    OBVIOUS
  <2>3. QED
    BY <1>4, <2>1, <2>2 DEF DequeuerShape
<1>6. /\ Devices' = Devices /\ \A d : HandOf(d)' = HandOf(d)
      /\ Inside(dequeuer') = Inside(dequeuer) \cup {t} /\ Inside(queuer') = Inside(queuer)
      /\ dequeuer'[t] = q /\ \A u \in Dequeuers : u # t => dequeuer'[u] = dequeuer[u]
  BY <1>1, <1>5, DequeuerMoves
<1>7. VipTypeOK'
  BY <1>1, <1>5, DequeuerMoves DEF Check, VipTypeOK, handle, devices
<1>8. StartInv'
  <2>1. /\ UNCHANGED <<open, stray, streaming>>
        /\ mishaps' \cap {"start", "config", "on", "dqbuf"} = {} => mishaps \cap {"start", "config", "on", "dqbuf"} = {}
    BY DEF Check, handle, devices
  <2>2. ASSUME mishaps \cap {"start", "config", "on", "dqbuf"} = {}
        PROVE  stray = "no" /\ streaming = Devices
    <3>1. curQueuedSize # 0 /\ curQueuedSize # 1
      BY <1>1 DEF VipTypeOK
    <3>2. QED
      BY <1>1, <2>2, <3>1 DEF VipInv, StartInv
  <2>3. QED
    BY <1>6, <2>1, <2>2 DEF StartInv
<1>9. Counting' = Counting /\ \A d : Untouched(d)
  <2>1. Counting' = Counting
    BY <1>1, <1>5, <1>6 DEF Counting
  <2>2. \A d : Filled(d)' = Filled(d) /\ t \notin Filled(d) /\ Filled(d) \subseteq Dequeuers
    BY <1>1, <1>3, <1>5, <1>6 DEF Filled
  <2>3. QED
    BY <1>6, <2>1, <2>2, FillStays DEF Untouched, Check, devices
<1>10. Calm' => \A d \in Devices' : DeviceInv(d)'
  <2>1. Calm' => Calm
    BY DEF Calm, Check, handle
  <2>2. QED
    BY <1>6, <1>9, <2>1, DeviceStays DEF Check, handle, devices, VipInv
<1>11. QED
  BY <1>1, <1>7, <1>8, <1>9, <1>10 DEF VipInv, ClosedInv, LockedInv, Check, handle

(* Counting the buffer off, NX_VipDequeueBuffer: its slots were emptied      *)
(* before.                                                                   *)
LEMMA CountDownKeeps ==
  ASSUME VipInv, NEW t \in Dequeuers, CountDown(t)
  PROVE  VipInv' /\ \A d : Untouched(d)
<1>1. /\ dequeuer[t].pc = "count" /\ ~locked /\ curQueuedSize' = curQueuedSize - 1
      /\ dequeuer' = [dequeuer EXCEPT ![t] = DequeuerIdle]
      /\ UNCHANGED <<open, mode, pMgmtMem, streamOnFlag, locked, queued, streaming, refused,
                     queuer, mishaps, stray>>
      /\ VipTypeOK
  BY DEF CountDown, VipInv, devices
<1>2. open
  BY <1>1, InsideIsOpen
<1>3. DequeuerShape(DequeuerIdle) /\ DequeuerIdle.pc = "idle"
  BY DEF DequeuerShape, DequeuerIdle
<1>4. /\ Devices' = Devices /\ \A d : HandOf(d)' = HandOf(d)
      /\ dequeuer'[t] = DequeuerIdle
      /\ \A u \in Dequeuers : u # t => dequeuer'[u] = dequeuer[u]
  BY <1>1, <1>3, DequeuerMoves
<1>5. VipTypeOK'
  <2>1. curQueuedSize' \in Int
    BY <1>1 DEF VipTypeOK
  <2>2. /\ DOMAIN queuer' = Queuers /\ \A u \in Queuers : QueuerShape(queuer[u])'
        /\ DOMAIN dequeuer' = Dequeuers /\ \A u \in Dequeuers : DequeuerShape(dequeuer[u])'
    BY <1>1, <1>3, DequeuerMoves
  <2>3. QED
    BY <1>1, <2>1, <2>2 DEF VipTypeOK
<1>6. StartInv'
  BY <1>1, <1>4, StartedForDequeuer DEF StartInv
<1>7. /\ Counting' = Counting \ {t} /\ t \in Counting /\ Counting \subseteq Dequeuers
      /\ \A d : Filled(d)' = Filled(d) /\ t \notin Filled(d) /\ Filled(d) \subseteq Dequeuers
  BY <1>1, <1>3, <1>4 DEF Counting, Filled
<1>8. \A d : Untouched(d)
  BY <1>1, <1>4, <1>7, FillStays DEF Untouched
<1>9. Cardinality(Counting') = Cardinality(Counting) - 1 /\ Cardinality(Counting) \in Nat
  BY <1>7, CountingFinite, FS_RemoveElement
<1>10. ASSUME NEW d \in Devices, DeviceInv(d)
       PROVE  DeviceInv(d)'
  <2>1. /\ Agrees(Live(pMgmtMem[d], refused[d]), HandOf(d), queued[d], FillOf(d))
        /\ refused[d] \subseteq Taken(pMgmtMem[d]) /\ Cardinality(refused[d]) \in Nat
        /\ curQueuedSize = Cardinality(DOMAIN HandOf(d)) + Len(queued[d])
                            + Cardinality(DOMAIN FillOf(d)) + Cardinality(Counting)
                            + Cardinality(refused[d])
    BY <1>10, LiveTaken DEF DeviceInv
  <2>2. /\ Cardinality(DOMAIN HandOf(d)) \in Nat /\ Len(queued[d]) \in Nat
        /\ Cardinality(DOMAIN FillOf(d)) \in Nat
    BY <2>1, FS_CardinalityType DEF Agrees
  <2>3. curQueuedSize - 1 = Cardinality(DOMAIN HandOf(d)) + Len(queued[d])
                             + Cardinality(DOMAIN FillOf(d)) + (Cardinality(Counting) - 1)
                             + Cardinality(refused[d])
    <3> DEFINE h == Cardinality(DOMAIN HandOf(d))
               l == Len(queued[d])
               f == Cardinality(DOMAIN FillOf(d))
               c == Cardinality(Counting)
               n == Cardinality(refused[d])
    <3>1. curQueuedSize = h + l + f + c + n
      BY <2>1
    <3>2. h \in Nat /\ l \in Nat /\ f \in Nat /\ c \in Nat /\ n \in Nat
      BY <1>9, <2>1, <2>2
    <3> HIDE DEF h, l, f, c, n
    <3>3. curQueuedSize - 1 = h + l + f + (c - 1) + n
      BY <3>1, <3>2
    <3>4. QED
      BY <3>3 DEF h, l, f, c, n
  <2>4. curQueuedSize' = Cardinality(DOMAIN HandOf(d)') + Len(queued'[d])
                            + Cardinality(DOMAIN FillOf(d)') + Cardinality(Counting')
                            + Cardinality(refused'[d])
    BY <1>1, <1>8, <1>9, <2>3 DEF Untouched
  <2>5. QED
    BY <1>1, <1>8, <2>1, <2>4 DEF DeviceInv, Untouched
<1>11. QED
  BY <1>1, <1>2, <1>4, <1>5, <1>6, <1>8, <1>10 DEF VipInv, ClosedInv, LockedInv, Calm

(* The device asked next has not answered yet.                               *)
LEMMA AskedNext ==
  ASSUME VipTypeOK, NEW t \in Dequeuers, dequeuer[t].pc = "dqbuf"
  PROVE  Asked(t) \in Devices /\ Asked(t) \notin DOMAIN dequeuer[t].idx
<1>1. DOMAIN dequeuer[t].idx \subseteq Devices /\ DOMAIN dequeuer[t].idx # Devices
  BY DEF VipTypeOK, DequeuerShape, DequeuerIdle
<1>2. Devices \ DOMAIN dequeuer[t].idx # {} /\ Devices \ DOMAIN dequeuer[t].idx \in SUBSET AllDevices
  BY <1>1, DeviceSets
<1>3. FirstOf(Devices \ DOMAIN dequeuer[t].idx) \in Devices \ DOMAIN dequeuer[t].idx
  BY <1>2, DeviceSets
<1>4. QED
  BY <1>3 DEF Asked

(* A dequeuer that a device has answered waits for the next one, or takes.   *)
LEMMA GotShape ==
  ASSUME VipTypeOK, NEW t \in Dequeuers, dequeuer[t].pc = "dqbuf", NEW d \in Devices,
         d \notin DOMAIN dequeuer[t].idx, NEW s \in Slots, NEW m \in Mems \cup {None},
         Got(t, d, s, m)
  PROVE  \E q : /\ DequeuerShape(q) /\ dequeuer' = [dequeuer EXCEPT ![t] = q]
                /\ q.idx = With(dequeuer[t].idx, d, s)
                /\ q.filled = With(dequeuer[t].filled, d, m)
                /\ q.pc \in {"dqbuf", "take"}
<1> DEFINE D == DOMAIN dequeuer[t].idx
           q == [pc |-> IF D \cup {d} = Devices THEN "take" ELSE "dqbuf",
                 idx |-> With(dequeuer[t].idx, d, s),
                 filled |-> With(dequeuer[t].filled, d, m), got |-> dequeuer[t].got]
<1>1. /\ D \subseteq Devices /\ dequeuer[t].idx \in [D -> Slots]
      /\ dequeuer[t].filled \in [D -> Mems \cup {None}]
  BY DEF VipTypeOK, DequeuerShape, DequeuerIdle
<1>2. dequeuer' = [dequeuer EXCEPT ![t] = q]
  <2>1. DOMAIN dequeuer = Dequeuers
    BY DEF VipTypeOK
  <2>2. dequeuer' = [u \in Dequeuers |-> dequeuer'[u]]
    BY DEF Got, VipTypeOK
  <2>3. \A u \in Dequeuers : u # t => dequeuer'[u] = dequeuer[u]
    BY GotGives
  <2>4. dequeuer'[t] = q
    BY GotGives
  <2> HIDE DEF q
  <2>5. QED
    BY <2>1, <2>2, <2>3, <2>4
<1>3. /\ q.idx \in [D \cup {d} -> Slots] /\ DOMAIN q.idx = D \cup {d}
      /\ q.filled \in [D \cup {d} -> Mems \cup {None}]
  BY <1>1 DEF With
<1>4. DequeuerShape(q)
  BY <1>1, <1>3 DEF DequeuerShape
<1>5. /\ q.idx = With(dequeuer[t].idx, d, s) /\ q.pc \in {"dqbuf", "take"}
      /\ q.filled = With(dequeuer[t].filled, d, m)
  OBVIOUS
<1> HIDE DEF q
<1>6. QED
  BY <1>2, <1>4, <1>5

(* A dequeuer gets the first buffer of the device.                           *)
LEMMA DqbufKeeps ==
  ASSUME VipInv, NEW t \in Dequeuers, Dqbuf(t)
  PROVE  VipInv' /\ \A d \in Devices : DeviceInv(d) =>
                       IF d = Asked(t) THEN GivenBack(d, t) ELSE Untouched(d)
<1> DEFINE d0 == Asked(t)
           b == Head(queued[d0])
<1>1. /\ dequeuer[t].pc = "dqbuf" /\ Len(queued[d0]) >= 2 /\ Got(t, d0, b[1], b[2])
      /\ queued' = [queued EXCEPT ![d0] = Tail(queued[d0])]
      /\ UNCHANGED <<open, mode, pMgmtMem, curQueuedSize, streamOnFlag, locked, streaming,
                     refused, queuer, mishaps, stray>>
      /\ VipTypeOK
  BY DEF Dqbuf, Source, VipInv, VipTypeOK, handle
<1>2. d0 \in Devices /\ d0 \notin DOMAIN dequeuer[t].idx /\ Devices \subseteq AllDevices
  BY <1>1, AskedNext, DeviceSets
<1>3. open /\ (locked => "config" \in mishaps)
  BY <1>1, InsideIsOpen
<1> HIDE DEF d0
<1>4. /\ queued[d0] \in Seq(Buffer) /\ queued[d0] # <<>>
      /\ b \in Buffer /\ Tail(queued[d0]) \in Seq(Buffer)
  <2>1. queued[d0] \in Seq(Buffer)
    BY <1>1, <1>2 DEF VipTypeOK
  <2>2. queued[d0] # <<>>
    BY <1>1
  <2>3. QED
    BY <2>1, <2>2, HeadTailProperties
<1>5. b = <<b[1], b[2]>> /\ b[1] \in Slots /\ b[2] \in Mems
  BY <1>4 DEF Buffer
<1> HIDE DEF b
<1>6. PICK q : /\ DequeuerShape(q) /\ dequeuer' = [dequeuer EXCEPT ![t] = q]
               /\ q.idx = With(dequeuer[t].idx, d0, b[1])
               /\ q.filled = With(dequeuer[t].filled, d0, b[2])
               /\ q.pc \in {"dqbuf", "take"}
  BY <1>1, <1>2, <1>5, GotShape
<1>7. /\ Devices' = Devices /\ \A d : HandOf(d)' = HandOf(d)
      /\ Inside(dequeuer') = Inside(dequeuer) \cup {t} /\ Inside(queuer') = Inside(queuer)
      /\ dequeuer'[t] = q /\ \A u \in Dequeuers : u # t => dequeuer'[u] = dequeuer[u]
  BY <1>1, <1>6, DequeuerMoves
<1>8. VipTypeOK'
  <2>1. queued' \in [AllDevices -> Seq(Buffer)]
    BY <1>1, <1>4 DEF VipTypeOK
  <2>2. /\ DOMAIN queuer' = Queuers /\ \A u \in Queuers : QueuerShape(queuer[u])'
        /\ DOMAIN dequeuer' = Dequeuers /\ \A u \in Dequeuers : DequeuerShape(dequeuer[u])'
    BY <1>1, <1>6, DequeuerMoves
  <2>3. QED
    BY <1>1, <2>1, <2>2 DEF VipTypeOK
<1>9. StartInv'
  BY <1>1, <1>7, StartedForDequeuer DEF StartInv
<1>10. Counting' = Counting
  BY <1>1, <1>6, <1>7 DEF Counting
<1>11. /\ DOMAIN dequeuer[t].filled = DOMAIN dequeuer[t].idx
       /\ DOMAIN q.idx = DOMAIN dequeuer[t].idx \cup {d0}
       /\ q.idx[d0] = b[1] /\ q.filled[d0] = b[2]
       /\ \A d \in DOMAIN dequeuer[t].idx : /\ q.idx[d] = dequeuer[t].idx[d]
                                            /\ q.filled[d] = dequeuer[t].filled[d]
  <2>1. DOMAIN dequeuer[t].filled = DOMAIN dequeuer[t].idx
    BY <1>1 DEF VipTypeOK, DequeuerShape, DequeuerIdle
  <2>2. QED
    BY <1>2, <1>6, <2>1 DEF With
<1>12. ASSUME NEW d \in Devices, DeviceInv(d)
       PROVE  DeviceInv(d)' /\ IF d = d0 THEN GivenBack(d, t) ELSE Untouched(d)
  <2>1. \A u : u \in Filled(d) <=> /\ u \in Dequeuers /\ dequeuer[u].pc \in {"dqbuf", "take"}
                                   /\ d \in DOMAIN dequeuer[u].idx
    BY DEF Filled
  <2>2. \A u : u \in Filled(d)' <=> /\ u \in Dequeuers /\ dequeuer'[u].pc \in {"dqbuf", "take"}
                                    /\ d \in DOMAIN dequeuer'[u].idx
    BY DEF Filled
  <2>3. \A u \in Dequeuers : u # t => (u \in Filled(d) <=> u \in Filled(d)')
    BY <1>7, <2>1, <2>2
  <2>4. CASE d = d0
    <3>1. t \notin Filled(d) /\ t \in Filled(d)'
      BY <1>2, <1>6, <1>7, <1>11, <2>1, <2>2, <2>4
    <3>2. Filled(d)' = Filled(d) \cup {t} /\ Filled(d) \subseteq Dequeuers
      BY <2>1, <2>2, <2>3, <3>1
    <3>3. FillOf(d)' = With(FillOf(d), t, b)
      <4>1. \A u \in Filled(d) : dequeuer'[u] = dequeuer[u]
        BY <1>7, <3>1, <3>2
      <4>2. FillOf(d)' = With(FillOf(d), t, <<dequeuer'[t].idx[d], dequeuer'[t].filled[d]>>)
        BY <3>1, <3>2, <4>1, FillMore
      <4>3. <<dequeuer'[t].idx[d], dequeuer'[t].filled[d]>> = b
        BY <1>5, <1>7, <1>11, <2>4
      <4>4. QED
        BY <4>2, <4>3
    <3>4. t \notin DOMAIN FillOf(d)
      BY <3>1 DEF FillOf
    <3>5. /\ Agrees(Live(pMgmtMem[d], refused[d]), HandOf(d), queued[d], FillOf(d))
          /\ refused[d] \subseteq Taken(pMgmtMem[d])
          /\ curQueuedSize = Cardinality(DOMAIN HandOf(d)) + Len(queued[d])
                              + Cardinality(DOMAIN FillOf(d)) + Cardinality(Counting)
                              + Cardinality(refused[d])
      BY <1>12 DEF DeviceInv
    <3>6. /\ Agrees(Live(pMgmtMem[d], refused[d]), HandOf(d), Tail(queued[d]),
                    With(FillOf(d), t, b))
          /\ Cardinality(DOMAIN With(FillOf(d), t, b)) = Cardinality(DOMAIN FillOf(d)) + 1
          /\ Len(Tail(queued[d])) = Len(queued[d]) - 1
      BY <1>4, <2>4, <3>4, <3>5, DqbufAgrees DEF b
    <3>7. /\ Cardinality(DOMAIN HandOf(d)) \in Nat /\ Len(queued[d]) \in Nat
          /\ Cardinality(DOMAIN FillOf(d)) \in Nat
      BY <3>5, FS_CardinalityType DEF Agrees
    <3>8. queued'[d] = Tail(queued[d])
      BY <1>1, <1>2, <2>4 DEF VipTypeOK
    <3>9. Cardinality(DOMAIN HandOf(d)) + Len(queued'[d]) + Cardinality(DOMAIN FillOf(d)')
           = Cardinality(DOMAIN HandOf(d)) + Len(queued[d]) + Cardinality(DOMAIN FillOf(d))
      BY <3>3, <3>6, <3>7, <3>8
    <3>10. curQueuedSize' = Cardinality(DOMAIN HandOf(d)') + Len(queued'[d])
                            + Cardinality(DOMAIN FillOf(d)') + Cardinality(Counting')
                            + Cardinality(refused'[d])
      BY <1>1, <1>7, <1>10, <3>5, <3>9, Zenon
    <3>11. QED
      BY <1>1, <1>4, <1>7, <2>4, <3>3, <3>5, <3>6, <3>8, <3>10 DEF DeviceInv, GivenBack, b
  <2>5. CASE d # d0
    <3>1. t \in Filled(d) <=> t \in Filled(d)'
      BY <1>1, <1>6, <1>7, <1>11, <2>1, <2>2, <2>5
    <3>2. Filled(d)' = Filled(d) /\ Filled(d) \subseteq Dequeuers
      BY <2>1, <2>2, <2>3, <3>1
    <3>3. \A u \in Filled(d) : /\ dequeuer'[u].idx[d] = dequeuer[u].idx[d]
                               /\ dequeuer'[u].filled[d] = dequeuer[u].filled[d]
      BY <1>7, <1>11, <2>1, <3>2
    <3>4. FillOf(d)' = FillOf(d)
      BY <3>2, <3>3, FillStays
    <3>5. queued'[d] = queued[d]
      BY <1>1, <1>2, <2>5 DEF VipTypeOK
    <3>6. Untouched(d)
      BY <1>7, <3>4, <3>5 DEF Untouched
    <3>7. QED
      BY <1>1, <1>10, <1>12, <2>5, <3>6, DeviceStays
  <2>6. QED
    BY <2>4, <2>5
<1>13. QED
  BY <1>1, <1>3, <1>7, <1>8, <1>9, <1>12 DEF VipInv, ClosedInv, LockedInv, Calm, d0

(* A dequeue that fails leaves an index from no device, which a device that  *)
(* does not stream or an error explains.                                     *)
LEMMA DqbufFailsKeeps ==
  ASSUME VipInv, NEW t \in Dequeuers, DqbufFails(t)
  PROVE  VipInv'
<1>1. /\ dequeuer[t].pc = "dqbuf" /\ VipTypeOK
      /\ UNCHANGED <<open, mode, pMgmtMem, curQueuedSize, streamOnFlag, locked, queued,
                     streaming, refused, queuer>>
      /\ mishaps' = mishaps \cup {x \in {"dqbuf"} : Asked(t) \in streaming}
      /\ \/ \E s \in Slots : Got(t, Asked(t), s, None) /\ stray' = "slot"
         \/ stray' = "wild" /\ UNCHANGED dequeuer
  BY DEF DqbufFails, Source, VipInv, handle, devices
<1>2. Asked(t) \in Devices /\ Asked(t) \notin DOMAIN dequeuer[t].idx
  BY <1>1, AskedNext
<1>3. open /\ (locked => "config" \in mishaps)
  BY <1>1, InsideIsOpen
<1>4. stray' # "no"
  BY <1>1
<1>5. mishaps' \cap {"start", "config", "on", "dqbuf"} # {} /\ mishaps \subseteq mishaps'
  <2>1. CASE Asked(t) \in streaming
    BY <1>1, <2>1
  <2>2. CASE Asked(t) \notin streaming
    BY <1>1, <1>2, <2>2, StartedForDequeuer
  <2>3. QED
    BY <2>1, <2>2
<1>7. /\ DOMAIN queuer' = Queuers /\ \A u \in Queuers : QueuerShape(queuer[u])'
      /\ DOMAIN dequeuer' = Dequeuers /\ \A u \in Dequeuers : DequeuerShape(dequeuer[u])'
  <2>1. CASE UNCHANGED dequeuer
    <3>1. Devices' = Devices
      BY <1>1 DEF Devices
    <3>2. QED
      BY <1>1, <2>1, <3>1 DEF VipTypeOK, QueuerShape, DequeuerShape
  <2>2. CASE \E s \in Slots : Got(t, Asked(t), s, None)
    <3>1. PICK s \in Slots : Got(t, Asked(t), s, None)
      BY <2>2
    <3>2. PICK q : DequeuerShape(q) /\ dequeuer' = [dequeuer EXCEPT ![t] = q]
      BY <1>1, <1>2, <3>1, GotShape
    <3>3. QED
      BY <1>1, <3>2, DequeuerMoves
  <2>3. QED
    BY <1>1, <2>1, <2>2
<1>8. VipTypeOK'
  BY <1>1, <1>7 DEF VipTypeOK
<1>9. QED
  BY <1>1, <1>3, <1>4, <1>5, <1>8 DEF VipInv, ClosedInv, LockedInv, StartInv, Calm

(* A dequeuer takes its buffers out of their slots, one in each table.       *)
LEMMA TakeKeeps ==
  ASSUME VipInv, NEW t \in Dequeuers, Take(t)
  PROVE  /\ VipInv' /\ \A d \in Devices : DeviceInv(d) => TakenOut(d, t)
         /\ dequeuer'[t].pc = "count"
         /\ \A d \in Devices : dequeuer'[t].got[d] = pMgmtMem[d][dequeuer[t].idx[d]]
<1> DEFINE taken == [d \in Devices |-> pMgmtMem[d][dequeuer[t].idx[d]]]
           q == [pc |-> "count", idx |-> dequeuer[t].idx, filled |-> dequeuer[t].filled,
                 got |-> taken]
<1>1. /\ dequeuer[t].pc = "take" /\ VipTypeOK
      /\ pMgmtMem' = [d \in AllDevices |->
           IF d \in Devices THEN [pMgmtMem[d] EXCEPT ![dequeuer[t].idx[d]] = None]
           ELSE pMgmtMem[d]]
      /\ UNCHANGED <<open, mode, curQueuedSize, streamOnFlag, locked, queued, streaming,
                     refused, queuer, mishaps, stray>>
  BY DEF Take, Cleared, VipInv, devices
<1>2. dequeuer' = [dequeuer EXCEPT ![t].pc = "count", ![t].got = taken]
  BY DEF Take
<1>3. open /\ (locked => "config" \in mishaps)
  BY <1>1, InsideIsOpen
<1>4. /\ dequeuer[t] = [pc |-> dequeuer[t].pc, idx |-> dequeuer[t].idx,
                        filled |-> dequeuer[t].filled, got |-> dequeuer[t].got]
      /\ dequeuer[t].idx \in [Devices -> Slots] /\ DOMAIN dequeuer[t].idx = Devices
      /\ dequeuer[t].filled \in [Devices -> Mems \cup {None}]
  BY <1>1 DEF VipTypeOK, DequeuerShape, DequeuerIdle
<1> HIDE DEF taken
<1>5. dequeuer' = [dequeuer EXCEPT ![t] = q]
  <2>1. /\ DOMAIN dequeuer = Dequeuers
        /\ \A u \in Dequeuers : u # t => dequeuer'[u] = dequeuer[u]
    BY <1>1, <1>2 DEF VipTypeOK
  <2>2. dequeuer'[t] = q
    BY <1>2, <1>4, <2>1
  <2>3. dequeuer' = [u \in Dequeuers |-> dequeuer'[u]]
    BY <1>2, <2>1
  <2> HIDE DEF q
  <2>4. QED
    BY <2>1, <2>2, <2>3
<1>6. DequeuerShape(q) /\ q.pc = "count"
  BY <1>4 DEF DequeuerShape
<1>7. \A d \in Devices : q.got[d] = pMgmtMem[d][dequeuer[t].idx[d]]
  BY DEF taken
<1> HIDE DEF q
<1>8. /\ Devices' = Devices /\ \A d : HandOf(d)' = HandOf(d)
      /\ Inside(dequeuer') = Inside(dequeuer) \cup {t} /\ Inside(queuer') = Inside(queuer)
      /\ dequeuer'[t] = q /\ \A u \in Dequeuers : u # t => dequeuer'[u] = dequeuer[u]
  BY <1>1, <1>5, <1>6, DequeuerMoves
<1>9. VipTypeOK'
  <2>1. pMgmtMem' \in [AllDevices -> [Slots -> Mems \cup {None}]]
    BY <1>1, <1>4 DEF VipTypeOK
  <2>2. /\ DOMAIN queuer' = Queuers /\ \A u \in Queuers : QueuerShape(queuer[u])'
        /\ DOMAIN dequeuer' = Dequeuers /\ \A u \in Dequeuers : DequeuerShape(dequeuer[u])'
    BY <1>1, <1>5, <1>6, DequeuerMoves
  <2>3. QED
    BY <1>1, <2>1, <2>2 DEF VipTypeOK
<1>10. StartInv'
  BY <1>1, <1>8, StartedForDequeuer DEF StartInv
<1>11. /\ Cardinality(Counting') = Cardinality(Counting) + 1
       /\ Cardinality(Counting) \in Nat
  <2>1. Counting' = Counting \cup {t} /\ t \notin Counting
    BY <1>1, <1>6, <1>8 DEF Counting
  <2>2. QED
    BY <2>1, CountingFinite, FS_AddElement
<1>12. ASSUME NEW d \in Devices, DeviceInv(d)
       PROVE  DeviceInv(d)' /\ TakenOut(d, t)
  <2>1. \A u : u \in Filled(d) <=> /\ u \in Dequeuers /\ dequeuer[u].pc \in {"dqbuf", "take"}
                                   /\ d \in DOMAIN dequeuer[u].idx
    BY DEF Filled
  <2>2. \A u : u \in Filled(d)' <=> /\ u \in Dequeuers /\ dequeuer'[u].pc \in {"dqbuf", "take"}
                                    /\ d \in DOMAIN dequeuer'[u].idx
    BY DEF Filled
  <2>3. t \in Filled(d) /\ t \notin Filled(d)'
    BY <1>1, <1>4, <1>6, <1>8, <2>1, <2>2
  <2>4. \A u \in Dequeuers : u # t => (u \in Filled(d) <=> u \in Filled(d)')
    BY <1>8, <2>1, <2>2
  <2>5. Filled(d)' = Filled(d) \ {t} /\ Filled(d) \subseteq Dequeuers
    BY <2>1, <2>2, <2>3, <2>4
  <2>6. FillOf(d)' = Without(FillOf(d), t)
    <3>1. \A u \in Filled(d) \ {t} : dequeuer'[u] = dequeuer[u]
      BY <1>8, <2>5
    <3>2. QED
      BY <2>3, <2>5, <3>1, FillLess
  <2>7. t \in DOMAIN FillOf(d) /\ FillOf(d)[t][1] = dequeuer[t].idx[d]
    BY <2>3 DEF FillOf
  <2>8. pMgmtMem'[d] = [pMgmtMem[d] EXCEPT ![FillOf(d)[t][1]] = None]
    BY <1>1, <2>7, DeviceSets
  <2>9. /\ Agrees(Live(pMgmtMem[d], refused[d]), HandOf(d), queued[d], FillOf(d))
        /\ refused[d] \subseteq Taken(pMgmtMem[d])
        /\ curQueuedSize = Cardinality(DOMAIN HandOf(d)) + Len(queued[d])
                            + Cardinality(DOMAIN FillOf(d)) + Cardinality(Counting)
                            + Cardinality(refused[d])
    BY <1>12 DEF DeviceInv
  <2>10. /\ Agrees(Live(pMgmtMem'[d], refused[d]), HandOf(d), queued[d], FillOf(d)')
         /\ refused[d] \subseteq Taken(pMgmtMem'[d])
         /\ Cardinality(DOMAIN FillOf(d)') = Cardinality(DOMAIN FillOf(d)) - 1
    <3>1. /\ FillOf(d)[t] \in Buffer
          /\ Live(pMgmtMem[d], refused[d])[FillOf(d)[t][1]] = FillOf(d)[t][2]
      BY <2>7, <2>9 DEF Agrees
    <3>2. FillOf(d)[t][1] \in Slots /\ FillOf(d)[t][2] # None
      BY <3>1, NoneIsNoMemory DEF Buffer
    <3>3. FillOf(d)[t][1] \notin refused[d] /\ DOMAIN pMgmtMem[d] = Slots
      BY <1>1, <3>1, <3>2, DeviceSets DEF Live, VipTypeOK
    <3>4. Live(pMgmtMem'[d], refused[d])
            = [Live(pMgmtMem[d], refused[d]) EXCEPT ![FillOf(d)[t][1]] = None]
      BY <2>8, <3>2, <3>3 DEF Live
    <3>5. refused[d] \subseteq Taken(pMgmtMem'[d])
      BY <2>8, <2>9, <3>3 DEF Taken
    <3>6. QED
      BY <2>6, <2>7, <2>9, <3>4, <3>5, TakeAgrees
  <2>11. /\ Cardinality(DOMAIN HandOf(d)) \in Nat /\ Len(queued[d]) \in Nat
         /\ Cardinality(DOMAIN FillOf(d)) \in Nat
    BY <2>9, FS_CardinalityType DEF Agrees
  <2>12. Cardinality(DOMAIN HandOf(d)) + Len(queued[d]) + Cardinality(DOMAIN FillOf(d)')
           + Cardinality(Counting')
         = Cardinality(DOMAIN HandOf(d)) + Len(queued[d]) + Cardinality(DOMAIN FillOf(d))
           + Cardinality(Counting)
    BY <1>11, <2>10, <2>11, SMTT(30)
  <2>13. curQueuedSize' = Cardinality(DOMAIN HandOf(d)') + Len(queued'[d])
                            + Cardinality(DOMAIN FillOf(d)') + Cardinality(Counting')
                            + Cardinality(refused'[d])
    BY <1>1, <1>8, <2>9, <2>12, Zenon
  <2>14. QED
    BY <1>1, <1>8, <2>6, <2>7, <2>10, <2>13 DEF DeviceInv, TakenOut
<1>13. QED
  BY <1>1, <1>3, <1>6, <1>7, <1>8, <1>9, <1>10, <1>12 DEF VipInv, ClosedInv, LockedInv, Calm

(* NX_VipChangeConfig.                                                       *)
LEMMA StopKeeps ==
  ASSUME VipInv, StopAndReconfigure
  PROVE  VipInv'
<1>1. /\ open /\ ~locked /\ locked' = TRUE /\ streamOnFlag' = FALSE /\ VipTypeOK
      /\ \E failing : queued' = [d \in AllDevices |->
                         IF d \in streaming' \cup failing THEN queued[d] ELSE <<>>]
      /\ UNCHANGED <<open, mode, pMgmtMem, curQueuedSize, refused, queuer, dequeuer>>
  BY DEF StopAndReconfigure, VipInv, threads
<1>2. IF Quiet /\ Idle' THEN mishaps' = {} /\ stray' = "no"
      ELSE "config" \in mishaps'
  BY DEF StopAndReconfigure
<1>3. Devices' = Devices
  BY <1>1 DEF Devices
<1>4. VipTypeOK'
  <2>1. queued' \in [AllDevices -> Seq(Buffer)]
    BY <1>1, EmptySeq DEF VipTypeOK
  <2>2. /\ DOMAIN queuer' = Queuers /\ \A u \in Queuers : QueuerShape(queuer[u])'
        /\ DOMAIN dequeuer' = Dequeuers /\ \A u \in Dequeuers : DequeuerShape(dequeuer[u])'
    BY <1>1, <1>3 DEF VipTypeOK, QueuerShape, DequeuerShape
  <2>3. open' \in BOOLEAN /\ locked' \in BOOLEAN /\ streamOnFlag' \in BOOLEAN
    BY <1>1 DEF VipTypeOK
  <2>4. QED
    BY <1>1, <2>1, <2>2, <2>3 DEF VipTypeOK
<1>5. CASE Quiet /\ Idle'
  <2>1. Restful'
    BY <1>1, <1>5 DEF Restful, Quiet, Inside, Idle
  <2>2. QED
    BY <1>1, <1>2, <1>4, <1>5, <2>1 DEF VipInv, ClosedInv, LockedInv, StartInv, Calm, Restful
<1>6. CASE ~(Quiet /\ Idle')
  BY <1>1, <1>2, <1>4, <1>6 DEF VipInv, ClosedInv, LockedInv, StartInv, Calm
<1>7. QED
  BY <1>5, <1>6

(* The second half of NX_VipChangeConfig, which empties the tables.          *)
LEMMA ForgetKeeps ==
  ASSUME VipInv, ForgetBuffers
  PROVE  VipInv'
<1>1. /\ locked /\ locked' = FALSE /\ VipTypeOK
      /\ pMgmtMem' = EmptyTables /\ curQueuedSize' = 0 /\ refused' = NoneRefused
      /\ UNCHANGED <<open, mode, streamOnFlag, queued, streaming, queuer, dequeuer,
                     mishaps, stray>>
  BY DEF ForgetBuffers, VipInv, threads
<1>2. Devices' = Devices /\ Devices \subseteq AllDevices
  BY <1>1, DeviceSets DEF Devices
<1>3. VipTypeOK'
  <2>1. pMgmtMem' \in [AllDevices -> [Slots -> Mems \cup {None}]]
    BY <1>1 DEF EmptyTables
  <2>2. /\ DOMAIN queuer' = Queuers /\ \A u \in Queuers : QueuerShape(queuer[u])'
        /\ DOMAIN dequeuer' = Dequeuers /\ \A u \in Dequeuers : DequeuerShape(dequeuer[u])'
    BY <1>1, <1>2 DEF VipTypeOK, QueuerShape, DequeuerShape
  <2>3. open' \in BOOLEAN /\ locked' \in BOOLEAN /\ streamOnFlag' \in BOOLEAN
    BY <1>1 DEF VipTypeOK
  <2>4. /\ mode' \in Modes /\ curQueuedSize' \in Int
        /\ queued' \in [AllDevices -> Seq(Buffer)] /\ refused' \in [AllDevices -> SUBSET Slots]
    BY <1>1 DEF VipTypeOK, NoneRefused
  <2>5. QED
    BY <2>1, <2>2, <2>3, <2>4 DEF VipTypeOK
<1>4. open
  BY <1>1 DEF VipInv, ClosedInv
<1>5. CASE "config" \in mishaps
  BY <1>1, <1>3, <1>4, <1>5 DEF VipInv, ClosedInv, LockedInv, StartInv, Calm
<1>6. CASE "config" \notin mishaps
  <2>1. Restful /\ stray = "no" /\ mishaps = {}
    BY <1>1, <1>6 DEF VipInv, LockedInv
  <2>2. \A d \in Devices' : DeviceInv(d)'
    BY <1>1, <1>2, <2>1, EmptyDevice DEF threads
  <2>3. StartInv'
    BY <1>1, <2>1 DEF StartInv, Restful, Inside
  <2>4. QED
    BY <1>1, <1>3, <1>4, <2>2, <2>3 DEF VipInv, ClosedInv, LockedInv
<1>7. QED
  BY <1>5, <1>6

(* Every step of every thread keeps the invariant of the capture handle.     *)
LEMMA VipStep == VipInv /\ [Next]_vars => VipInv'
<1> SUFFICES ASSUME VipInv, [Next]_vars
             PROVE  VipInv'
  OBVIOUS
<1>1. CASE UNCHANGED vars
  <2>1. UNCHANGED <<open, mode, pMgmtMem, curQueuedSize, streamOnFlag, locked, queued,
                    streaming, refused, queuer, dequeuer, mishaps, stray>>
    BY <1>1 DEF vars, handle, devices, threads
  <2>2. Devices' = Devices
    BY <2>1 DEF Devices
  <2>3. VipTypeOK'
    BY <2>1, <2>2 DEF VipInv, VipTypeOK, QueuerShape, DequeuerShape
  <2>4. Counting' = Counting /\ \A d : Untouched(d)
    BY <2>1 DEF HandOf, FillOf, Handing, Filled, Counting, Untouched
  <2>5. \A d \in Devices : DeviceInv(d) => DeviceInv(d)'
    BY <2>1, <2>4, DeviceStays
  <2>6. Inside(queuer') = Inside(queuer) /\ Inside(dequeuer') = Inside(dequeuer)
    BY <2>1 DEF Inside
  <2>7. StartInv'
    BY <2>1, <2>2, <2>6 DEF VipInv, StartInv, Starting
  <2>8. Restful => Restful'
    BY <2>1, <2>6 DEF Restful
  <2>9. QED
    BY <2>1, <2>2, <2>3, <2>5, <2>7, <2>8 DEF VipInv, ClosedInv, LockedInv, Calm
<1>2. CASE NX_VipInit
  BY <1>2, VipInitKeeps
<1>3. CASE NX_VipClose
  BY <1>3, VipCloseKeeps
<1>4. ASSUME NEW t \in Queuers,
             \/ \E m \in Mems : Claim(t, m)
             \/ Qbuf(t) \/ TestFlag(t) \/ SetFlag(t) \/ StreamOn(t)
      PROVE  VipInv'
  BY <1>4, ClaimKeeps, QbufKeeps, TestFlagKeeps, SetFlagKeeps, StreamOnKeeps
<1>5. ASSUME NEW t \in Dequeuers,
             Check(t) \/ Dqbuf(t) \/ DqbufFails(t) \/ Take(t) \/ CountDown(t)
      PROVE  VipInv'
  BY <1>5, CheckKeeps, DqbufKeeps, DqbufFailsKeeps, TakeKeeps, CountDownKeeps
<1>6. CASE StopAndReconfigure
  BY <1>6, StopKeeps
<1>7. CASE ForgetBuffers
  BY <1>7, ForgetKeeps
<1>8. QED
  BY <1>1, <1>2, <1>3, <1>4, <1>5, <1>6, <1>7 DEF Next

(* Whatever the calls of any number of threads, and whatever they run into,  *)
(* the invariant of the capture handle holds.                                *)
LEMMA VipInvariant == Spec => []VipInv
<1>1. QED
  BY VipInitial, VipStep, PTL DEF Spec

(* The taken slots with their memories are the buffers on their way.         *)
LEMMA TakenAreOnTheWay ==
  ASSUME NEW table, NEW hand, NEW queue, NEW fill, Agrees(table, hand, queue, fill)
  PROVE  {<<s, table[s]>> : s \in Taken(table)}
           = ToSet(queue) \cup {hand[t] : t \in DOMAIN hand} \cup {fill[t] : t \in DOMAIN fill}
<1> DEFINE own == {<<s, table[s]>> : s \in Taken(table)}
<1>1. /\ DOMAIN queue = 1 .. Len(queue) /\ \A i \in 1 .. Len(queue) : queue[i] \in Buffer
      /\ \A t \in DOMAIN hand : hand[t] \in Buffer
      /\ \A t \in DOMAIN fill : fill[t] \in Buffer
  BY DEF Agrees
<1>2. \A b \in Buffer : table[b[1]] = b[2] => b \in own
  BY NoneIsNoMemory DEF Buffer, Taken
<1>3. \A b \in own : b[2] = table[b[1]] /\ b[1] \in Taken(table) /\ b = <<b[1], b[2]>>
  OBVIOUS
<1>4. \A b, c : b \in own /\ c \in Buffer /\ table[c[1]] = c[2] /\ c[1] = b[1] => c = b
  BY <1>3 DEF Buffer
<1> HIDE DEF own
<1>5. ASSUME NEW b \in own
      PROVE  \/ \E i \in 1 .. Len(queue) : queue[i] = b
             \/ \E t \in DOMAIN hand : hand[t] = b
             \/ \E t \in DOMAIN fill : fill[t] = b
  BY <1>1, <1>3, <1>4 DEF Agrees
<1>6. /\ \A i \in 1 .. Len(queue) : queue[i] \in own
      /\ \A t \in DOMAIN hand : hand[t] \in own
      /\ \A t \in DOMAIN fill : fill[t] \in own
  BY <1>1, <1>2 DEF Agrees
<1>7. own = ToSet(queue) \cup {hand[t] : t \in DOMAIN hand} \cup {fill[t] : t \in DOMAIN fill}
  BY <1>1, <1>5, <1>6 DEF ToSet
<1>8. QED
  BY <1>7 DEF own

(* With the invariant, the taken slots are those of the buffers on their way *)
(* and of the refused ones, and the counter counts these and the buffers     *)
(* that were taken out but not yet counted off.                              *)
LEMMA VipInvAccounts == VipInv => SlotsAccounted
<1> SUFFICES ASSUME VipInv, open, ~locked
             PROVE  SlotsAccounted
  BY DEF SlotsAccounted
<1>1. stray # "no" => mishaps \cap {"config", "start", "on", "dqbuf"} # {}
  BY DEF VipInv, StartInv
<1>2. ASSUME stray = "no", "config" \notin mishaps, NEW d \in Devices
      PROVE  LET waiting == (Slots \ Empty(d)) \ refused[d] IN
             /\ refused[d] \cap Empty(d) = {}
             /\ {<<s, pMgmtMem[d][s]>> : s \in waiting} = OnTheWay(d)
             /\ Cardinality(waiting) = NumOnTheWay(d)
             /\ curQueuedSize = NumOnTheWay(d) + Cardinality(refused[d])
                  + Cardinality({t \in Dequeuers : dequeuer[t].pc = "count"})
  <2> DEFINE kept == Live(pMgmtMem[d], refused[d])
             waiting == (Slots \ Empty(d)) \ refused[d]
  <2>1. /\ Agrees(kept, HandOf(d), queued[d], FillOf(d))
        /\ refused[d] \subseteq Taken(pMgmtMem[d])
        /\ curQueuedSize = Cardinality(DOMAIN HandOf(d)) + Len(queued[d])
                            + Cardinality(DOMAIN FillOf(d)) + Cardinality(Counting)
                            + Cardinality(refused[d])
    BY <1>2 DEF VipInv, Calm, DeviceInv
  <2>2. waiting = Taken(kept) /\ \A s \in waiting : kept[s] = pMgmtMem[d][s]
    BY DEF Empty, Taken, Live
  <2>3. refused[d] \cap Empty(d) = {}
    BY <2>1 DEF Empty, Taken
  <2> HIDE DEF kept, waiting
  <2>4. DOMAIN HandOf(d) = Handing(d) /\ DOMAIN FillOf(d) = Filled(d)
    BY DEF HandOf, FillOf
  <2>5. /\ {HandOf(d)[t] : t \in Handing(d)}
             = {<<queuer[t].slot[d], queuer[t].mem>> : t \in Handing(d)}
        /\ {FillOf(d)[t] : t \in Filled(d)}
             = {<<dequeuer[t].idx[d], dequeuer[t].filled[d]>> : t \in Filled(d)}
    BY DEF HandOf, FillOf
  <2>6. {<<s, pMgmtMem[d][s]>> : s \in waiting} = OnTheWay(d)
    <3>1. {<<s, kept[s]>> : s \in Taken(kept)}
            = ToSet(queued[d]) \cup {HandOf(d)[t] : t \in DOMAIN HandOf(d)}
                \cup {FillOf(d)[t] : t \in DOMAIN FillOf(d)}
      BY <2>1, TakenAreOnTheWay
    <3>2. {<<s, kept[s]>> : s \in Taken(kept)} = {<<s, pMgmtMem[d][s]>> : s \in waiting}
      BY <2>2
    <3>3. QED
      BY <2>4, <2>5, <3>1, <3>2 DEF OnTheWay
  <2>7. /\ Cardinality(Handing(d)) \in Nat /\ Cardinality(Filled(d)) \in Nat
        /\ Len(queued[d]) \in Nat /\ Cardinality(refused[d]) \in Nat
        /\ Cardinality(Counting) \in Nat
    <3>1. /\ Cardinality(Handing(d)) \in Nat /\ Cardinality(Filled(d)) \in Nat
          /\ Len(queued[d]) \in Nat
      BY <2>1, <2>4, FS_CardinalityType DEF Agrees
    <3>2. QED
      BY <2>1, <3>1, LiveTaken, CountingFinite
  <2>8. NumOnTheWay(d) = Cardinality(Handing(d)) + Len(queued[d]) + Cardinality(Filled(d))
    BY <2>7 DEF NumOnTheWay
  <2>9. Cardinality(waiting) = NumOnTheWay(d)
    BY <2>1, <2>2, <2>4, <2>8 DEF Agrees
  <2>10. curQueuedSize = NumOnTheWay(d) + Cardinality(refused[d]) + Cardinality(Counting)
    <3>1. \A n, c, f \in Nat : n + c + f = n + f + c
      OBVIOUS
    <3>2. curQueuedSize = NumOnTheWay(d) + Cardinality(Counting) + Cardinality(refused[d])
      BY <2>1, <2>4, <2>8, Zenon
    <3>3. NumOnTheWay(d) \in Nat
      BY <2>7, <2>8
    <3>4. QED
      BY <2>7, <3>1, <3>2, <3>3, Zenon
  <2>11. QED
    BY <2>3, <2>6, <2>9, <2>10 DEF Counting, waiting
<1>3. QED
  BY <1>1, <1>2 DEF SlotsAccounted

(* NX_VipQueueBuffer and NX_VipDequeueBuffer give no slot to two buffers,    *)
(* lose one only to a buffer that its device refused, and curQueuedSize      *)
(* covers the slots taken, whichever ioctls fail, for any number of threads, *)
(* memories and slots, until an index comes from no device or a              *)
(* configuration change runs into a call, in the ways SlotsAccounted names.  *)
THEOREM SlotsAlwaysAccounted == Spec => []SlotsAccounted
<1>1. QED
  BY VipInvariant, VipInvAccounts, PTL

-----------------------------------------------------------------------------
(* The memories of one device in the order in which they are dequeued, while *)
(* at most one buffer is on its way in and one on its way out.               *)
LineOf(hand, queue, fill) ==
  LET f == Cardinality(DOMAIN fill)
      h == Cardinality(DOMAIN hand)
  IN  [p \in 1 .. h + Len(queue) + f |->
         IF p <= f THEN fill[CHOOSE t \in DOMAIN fill : TRUE][2]
         ELSE IF p <= f + Len(queue) THEN queue[p - f][2]
         ELSE hand[CHOOSE t \in DOMAIN hand : TRUE][2]]

(* The one buffer of a thread that is alone at its end.                      *)
LEMMA OneInDomain ==
  ASSUME NEW f, NEW t, DOMAIN f = {t}
  PROVE  Cardinality(DOMAIN f) = 1 /\ (CHOOSE u \in DOMAIN f : TRUE) = t
BY FS_Singleton

\* A line of n with one more memory.
Longer(line, n, m) == [p \in 1 .. n + 1 |-> IF p = n + 1 THEN m ELSE line[p]]

(* A claimed slot makes the line one memory longer.                          *)
LEMMA LineClaimed ==
  ASSUME NEW hand, NEW queue, NEW fill, NEW t, NEW b, DOMAIN hand = {},
         Cardinality(DOMAIN fill) \in Nat, Len(queue) \in Nat, NEW n,
         n = Cardinality(DOMAIN hand) + Len(queue) + Cardinality(DOMAIN fill)
  PROVE  LineOf(With(hand, t, b), queue, fill)
           = Longer(LineOf(hand, queue, fill), n, b[2])
<1> DEFINE more == With(hand, t, b)
           f == Cardinality(DOMAIN fill)
           l == Len(queue)
<1>1. DOMAIN more = {t} /\ more[t] = b
  BY DEF With
<1> HIDE DEF more
<1>2. Cardinality(DOMAIN more) = 1 /\ (CHOOSE u \in DOMAIN more : TRUE) = t
  BY <1>1, OneInDomain
<1>3. Cardinality(DOMAIN hand) = 0
  BY FS_EmptySet
<1>4. f \in Nat /\ l \in Nat /\ n = l + f
  BY <1>3
<1> HIDE DEF f, l
<1>5. LineOf(hand, queue, fill)
        = [p \in 1 .. n |-> IF p <= f THEN fill[CHOOSE u \in DOMAIN fill : TRUE][2]
                            ELSE queue[p - f][2]]
  <2>1. 0 + l + f = n /\ \A p \in 1 .. n : p <= f + l
    BY <1>4
  <2>2. QED
    BY <1>3, <2>1 DEF LineOf, f, l
<1>6. LineOf(more, queue, fill)
        = [p \in 1 .. n + 1 |-> IF p <= f THEN fill[CHOOSE u \in DOMAIN fill : TRUE][2]
                                ELSE IF p = n + 1 THEN b[2] ELSE queue[p - f][2]]
  <2>1. 1 + l + f = n + 1 /\ \A p \in 1 .. n + 1 : p <= f + l <=> p # n + 1
    BY <1>4
  <2>2. more[CHOOSE u \in DOMAIN more : TRUE] = b
    BY <1>1, <1>2
  <2>3. LineOf(more, queue, fill)
          = [p \in 1 .. 1 + l + f |->
               IF p <= f THEN fill[CHOOSE u \in DOMAIN fill : TRUE][2]
               ELSE IF p <= f + l THEN queue[p - f][2] ELSE b[2]]
    BY <1>2, <2>2 DEF LineOf, f, l
  <2>4. QED
    BY <2>1, <2>3
<1>7. \A p \in 1 .. n + 1 : /\ p = n + 1 => ~(p <= f)
                            /\ p # n + 1 => p \in 1 .. n
  BY <1>4
<1>8. QED
  BY <1>5, <1>6, <1>7 DEF more, Longer

(* A buffer handed over to the device keeps its place in the line,           *)
LEMMA LineHandedOver ==
  ASSUME NEW hand, NEW queue \in Seq(Buffer), NEW fill, NEW t, DOMAIN hand = {t},
         Cardinality(DOMAIN fill) \in Nat, hand[t] \in Buffer
  PROVE  LineOf(Without(hand, t), Append(queue, hand[t]), fill) = LineOf(hand, queue, fill)
<1> DEFINE less == Without(hand, t)
           after == Append(queue, hand[t])
           f == Cardinality(DOMAIN fill)
           l == Len(queue)
           one == fill[CHOOSE u \in DOMAIN fill : TRUE]
<1>1. DOMAIN less = {} /\ Cardinality(DOMAIN less) = 0
  BY FS_EmptySet DEF Without
<1>2. Cardinality(DOMAIN hand) = 1 /\ (CHOOSE u \in DOMAIN hand : TRUE) = t
  BY OneInDomain
<1>3. /\ Len(after) = l + 1 /\ l \in Nat /\ f \in Nat
      /\ \A i \in 1 .. l : after[i] = queue[i]
      /\ after[l + 1] = hand[t]
  BY AppendProperties
<1> HIDE DEF less, after, f, l, one
<1>4. LineOf(hand, queue, fill)
        = [p \in 1 .. 1 + l + f |-> IF p <= f THEN one[2]
                                    ELSE IF p <= f + l THEN queue[p - f][2] ELSE hand[t][2]]
  BY <1>2 DEF LineOf, f, l, one
<1>5. LineOf(less, after, fill)
        = [p \in 1 .. 1 + l + f |-> IF p <= f THEN one[2] ELSE after[p - f][2]]
  <2>1. 0 + Len(after) + f = 1 + l + f /\ \A p \in 1 .. 1 + l + f : p <= f + Len(after)
    BY <1>3
  <2>2. LineOf(less, after, fill)
          = [p \in 1 .. 0 + Len(after) + f |->
               IF p <= f THEN one[2]
               ELSE IF p <= f + Len(after) THEN after[p - f][2]
               ELSE less[CHOOSE u \in DOMAIN less : TRUE][2]]
    BY <1>1 DEF LineOf, f, one
  <2>3. QED
    BY <2>1, <2>2
<1>6. ASSUME NEW p \in 1 .. 1 + l + f, ~(p <= f)
      PROVE  after[p - f] = IF p <= f + l THEN queue[p - f] ELSE hand[t]
  <2>1. (p <= f + l => p - f \in 1 .. l) /\ (~(p <= f + l) => p - f = l + 1)
    BY <1>3, <1>6
  <2>2. QED
    BY <1>3, <2>1
<1>7. QED
  BY <1>4, <1>5, <1>6 DEF less, after

(* and so does one that the device gives back.                               *)
LEMMA LineGivenBack ==
  ASSUME NEW hand, NEW queue \in Seq(Buffer), NEW fill, NEW t, DOMAIN fill = {},
         queue # <<>>, Cardinality(DOMAIN hand) \in Nat
  PROVE  LineOf(hand, Tail(queue), With(fill, t, Head(queue))) = LineOf(hand, queue, fill)
<1> DEFINE more == With(fill, t, Head(queue))
           after == Tail(queue)
           h == Cardinality(DOMAIN hand)
           l == Len(queue)
           one == hand[CHOOSE u \in DOMAIN hand : TRUE]
<1>1. Cardinality(DOMAIN fill) = 0
  BY FS_EmptySet
<1>2. DOMAIN more = {t} /\ more[t] = Head(queue)
  BY DEF With
<1>3. /\ Head(queue) = queue[1] /\ Len(after) = l - 1 /\ l \in Nat /\ l > 0 /\ h \in Nat
      /\ \A i \in 1 .. Len(after) : after[i] = queue[i + 1]
  BY HeadTailProperties
<1> HIDE DEF more, after, h, l, one
<1>4. Cardinality(DOMAIN more) = 1 /\ (CHOOSE u \in DOMAIN more : TRUE) = t
  BY <1>2, OneInDomain
<1>5. LineOf(hand, queue, fill)
        = [p \in 1 .. h + l |-> IF p <= l THEN queue[p][2] ELSE one[2]]
  <2>1. LineOf(hand, queue, fill)
          = [p \in 1 .. h + l + 0 |->
               IF p <= 0 THEN fill[CHOOSE u \in DOMAIN fill : TRUE][2]
               ELSE IF p <= 0 + l THEN queue[p - 0][2] ELSE one[2]]
    BY <1>1 DEF LineOf, h, l, one
  <2>2. h + l + 0 = h + l /\ \A p \in 1 .. h + l : ~(p <= 0) /\ p - 0 = p /\ 0 + l = l
    BY <1>3
  <2>3. QED
    BY <2>1, <2>2
<1>6. LineOf(hand, after, more)
        = [p \in 1 .. h + l |-> IF p <= 1 THEN queue[1][2]
                                ELSE IF p <= l THEN after[p - 1][2] ELSE one[2]]
  <2>1. LineOf(hand, after, more)
          = [p \in 1 .. h + Len(after) + 1 |->
               IF p <= 1 THEN queue[1][2]
               ELSE IF p <= 1 + Len(after) THEN after[p - 1][2] ELSE one[2]]
    <3>1. more[CHOOSE u \in DOMAIN more : TRUE] = queue[1]
      BY <1>2, <1>3, <1>4
    <3>2. QED
      BY <1>4, <3>1 DEF LineOf, h, one
  <2>2. h + Len(after) + 1 = h + l /\ 1 + Len(after) = l
    BY <1>3
  <2>3. QED
    BY <2>1, <2>2
<1>7. ASSUME NEW p \in 1 .. h + l, p <= l
      PROVE  queue[p] = IF p <= 1 THEN queue[1] ELSE after[p - 1]
  <2>1. (p <= 1 => p = 1) /\ (~(p <= 1) => p - 1 \in 1 .. Len(after) /\ (p - 1) + 1 = p)
    BY <1>3, <1>7
  <2>2. QED
    BY <1>3, <2>1
<1>8. \A p \in 1 .. h + l : p <= 1 => p <= l
  BY <1>3
<1>9. QED
  BY <1>5, <1>6, <1>7, <1>8 DEF more, after

\* A line of n without its first.
Rest(line, n) == [p \in 1 .. n - 1 |-> line[p + 1]]

(* The first in the line is the one taken out.                               *)
LEMMA LineTakenOut ==
  ASSUME NEW hand, NEW queue \in Seq(Buffer), NEW fill, NEW t, DOMAIN fill = {t},
         Cardinality(DOMAIN hand) \in Nat, NEW n,
         n = Cardinality(DOMAIN hand) + Len(queue) + Cardinality(DOMAIN fill)
  PROVE  /\ LineOf(hand, queue, Without(fill, t)) = Rest(LineOf(hand, queue, fill), n)
         /\ LineOf(hand, queue, fill)[1] = fill[t][2]
<1> DEFINE less == Without(fill, t)
           h == Cardinality(DOMAIN hand)
           l == Len(queue)
           one == hand[CHOOSE u \in DOMAIN hand : TRUE]
<1>1. DOMAIN less = {} /\ Cardinality(DOMAIN less) = 0
  BY FS_EmptySet DEF Without
<1>2. Cardinality(DOMAIN fill) = 1 /\ (CHOOSE u \in DOMAIN fill : TRUE) = t
  BY OneInDomain
<1>3. l \in Nat /\ h \in Nat /\ n = h + l + 1
  BY <1>2, LenProperties
<1> HIDE DEF less, h, l, one
<1>4. LineOf(hand, queue, fill)
        = [p \in 1 .. n |-> IF p <= 1 THEN fill[t][2]
                            ELSE IF p <= 1 + l THEN queue[p - 1][2] ELSE one[2]]
  BY <1>2, <1>3 DEF LineOf, h, l, one
<1>5. LineOf(hand, queue, less)
        = [p \in 1 .. n - 1 |-> IF p <= l THEN queue[p][2] ELSE one[2]]
  <2>1. LineOf(hand, queue, less)
          = [p \in 1 .. h + l + 0 |->
               IF p <= 0 THEN less[CHOOSE u \in DOMAIN less : TRUE][2]
               ELSE IF p <= 0 + l THEN queue[p - 0][2] ELSE one[2]]
    BY <1>1 DEF LineOf, h, l, one
  <2>2. h + l + 0 = n - 1 /\ \A p \in 1 .. n - 1 : ~(p <= 0) /\ p - 0 = p /\ 0 + l = l
    BY <1>3
  <2>3. QED
    BY <2>1, <2>2
<1>6. \A p \in 1 .. n - 1 : /\ p + 1 \in 1 .. n /\ ~(p + 1 <= 1) /\ (p + 1) - 1 = p
                            /\ p + 1 <= 1 + l <=> p <= l
  BY <1>3
<1>7. LineOf(hand, queue, fill)[1] = fill[t][2]
  <2>1. 1 \in 1 .. n /\ 1 <= 1
    BY <1>3
  <2>2. QED
    BY <1>4, <2>1
<1>8. \A p \in 1 .. n - 1 : LineOf(hand, queue, fill)[p + 1]
                               = IF p <= l THEN queue[p][2] ELSE one[2]
  <2> SUFFICES ASSUME NEW p \in 1 .. n - 1
               PROVE  LineOf(hand, queue, fill)[p + 1]
                        = IF p <= l THEN queue[p][2] ELSE one[2]
    OBVIOUS
  <2> DEFINE r == p + 1
  <2>1. r \in 1 .. n /\ ~(r <= 1) /\ r - 1 = p /\ (r <= 1 + l <=> p <= l)
    BY <1>6
  <2> HIDE DEF r
  <2>2. LineOf(hand, queue, fill)[r]
          = IF r <= 1 THEN fill[t][2] ELSE IF r <= 1 + l THEN queue[r - 1][2] ELSE one[2]
    BY <1>4, <2>1
  <2>3. LineOf(hand, queue, fill)[r] = IF p <= l THEN queue[p][2] ELSE one[2]
    BY <2>1, <2>2
  <2>4. QED
    BY <2>3 DEF r
<1>9. [p \in 1 .. n - 1 |-> IF p <= l THEN queue[p][2] ELSE one[2]]
        = [p \in 1 .. n - 1 |-> LineOf(hand, queue, fill)[p + 1]]
  BY <1>8
<1>10. QED
  BY <1>5, <1>7, <1>9 DEF less, Rest

(* Nothing on its way makes an empty line.                                   *)
LEMMA LineEmpty ==
  ASSUME NEW hand, NEW queue, NEW fill, DOMAIN hand = {}, DOMAIN fill = {}, queue = <<>>
  PROVE  LineOf(hand, queue, fill) = [p \in {} |-> p]
<1>1. Cardinality(DOMAIN hand) = 0 /\ Cardinality(DOMAIN fill) = 0 /\ Len(queue) = 0
  BY FS_EmptySet
<1>2. 1 .. 0 + 0 + 0 = {}
  OBVIOUS
<1>3. QED
  BY <1>1, <1>2 DEF LineOf

Line(d) == LineOf(HandOf(d), queued[d], FillOf(d))

Alone(S) == \A t, u \in S : t = u

SoloInv ==
  /\ "queue" \notin mishaps => Alone(Inside(queuer))
  /\ "dequeue" \notin mishaps => Alone(Inside(dequeuer))

(* One thread at each end and nothing refused: the two devices have the same *)
(* memories on their way in the same order, and so has what was dequeued     *)
(* last.                                                                     *)
LineInv == Calm /\ mishaps = {} =>
  /\ \A d, e \in Devices : Line(d) = Line(e)
  /\ \A t \in Counting : \A d, e \in Devices : dequeuer[t].got[d] = dequeuer[t].got[e]
  /\ \A d \in Devices : refused[d] = {}

PairInv == SoloInv /\ LineInv

(* A thread that moves on from inside brings nobody else in.                 *)
LEMMA InsideShrinks ==
  ASSUME NEW who, NEW after, NEW t, who[t].pc # "idle", t \in DOMAIN who,
         DOMAIN after = DOMAIN who, \A u \in DOMAIN who : u # t => after[u] = who[u]
  PROVE  Inside(after) \subseteq Inside(who)
BY DEF Inside

(* Two threads are at one end only after the run has noted it in mishaps.    *)
LEMMA SoloStep == VipInv /\ SoloInv /\ [Next]_vars => SoloInv'
<1> SUFFICES ASSUME VipInv, SoloInv, [Next]_vars
             PROVE  SoloInv'
  OBVIOUS
<1>0. DOMAIN queuer = Queuers /\ DOMAIN dequeuer = Dequeuers
  BY DEF VipInv, VipTypeOK
<1>1. ASSUME mishaps \subseteq mishaps', Inside(queuer') \subseteq Inside(queuer),
             Inside(dequeuer') \subseteq Inside(dequeuer)
      PROVE  SoloInv'
  BY <1>1 DEF SoloInv, Alone
<1>2. CASE UNCHANGED vars \/ NX_VipInit \/ ForgetBuffers
  BY <1>1, <1>2 DEF vars, NX_VipInit, ForgetBuffers, threads, Inside
<1>3. CASE NX_VipClose
  BY <1>3 DEF NX_VipClose, Quiet, threads, SoloInv, Alone, Inside
<1>4. CASE StopAndReconfigure
  BY <1>4 DEF StopAndReconfigure, Quiet, threads, SoloInv, Alone, Inside
<1>5. ASSUME NEW t \in Queuers, NEW m \in Mems, Claim(t, m)
      PROVE  SoloInv'
  <2>1. UNCHANGED dequeuer
    BY <1>5 DEF Claim
  <2>2. CASE UNCHANGED <<queuer, mishaps>>
    BY <1>1, <2>1, <2>2 DEF Inside
  <2>3. CASE /\ mishaps' = mishaps
                  \union {x \in {"queue"} : Inside(queuer) # {}}
                  \union {x \in {"start"} : Inside(queuer) # {} /\ streaming # Devices}
             /\ \E q : queuer' = [queuer EXCEPT ![t] = q]
    <3>1. Inside(queuer') \subseteq Inside(queuer) \cup {t}
      BY <1>0, <2>3 DEF Inside
    <3>2. Inside(dequeuer') = Inside(dequeuer)
      BY <2>1 DEF Inside
    <3>3. "queue" \notin mishaps' => Inside(queuer) = {}
      BY <2>3
    <3>4. "dequeue" \notin mishaps' => "dequeue" \notin mishaps
      BY <2>3
    <3>5. QED
      BY <3>1, <3>2, <3>3, <3>4 DEF SoloInv, Alone
  <2>4. QED
    BY <1>5, <2>2, <2>3 DEF Claim
<1>6. ASSUME NEW t \in Queuers, Qbuf(t) \/ TestFlag(t) \/ SetFlag(t) \/ StreamOn(t)
      PROVE  SoloInv'
  <2>1. queuer[t].pc # "idle" /\ UNCHANGED dequeuer /\ mishaps \subseteq mishaps'
    BY <1>6 DEF Qbuf, TestFlag, SetFlag, StreamOn
  <2>2. /\ DOMAIN queuer' = DOMAIN queuer
        /\ \A u \in DOMAIN queuer : u # t => queuer'[u] = queuer[u]
    BY <1>6, <1>0 DEF Qbuf, TestFlag, SetFlag, StreamOn
  <2>3. QED
    BY <1>0, <1>1, <2>1, <2>2, InsideShrinks DEF Inside
<1>7. ASSUME NEW t \in Dequeuers, Check(t)
      PROVE  SoloInv'
  <2>1. Inside(dequeuer') \subseteq Inside(dequeuer) \cup {t}
    BY <1>0, <1>7 DEF Check, Inside
  <2>2. UNCHANGED queuer
    BY <1>7 DEF Check
  <2>3. /\ "dequeue" \notin mishaps' => Inside(dequeuer) = {}
        /\ "queue" \notin mishaps' => "queue" \notin mishaps
    BY <1>7 DEF Check
  <2>4. Inside(queuer') = Inside(queuer)
    BY <2>2 DEF Inside
  <2>5. QED
    BY <2>1, <2>3, <2>4 DEF SoloInv, Alone
<1>8. ASSUME NEW t \in Dequeuers, Dqbuf(t) \/ DqbufFails(t) \/ Take(t) \/ CountDown(t)
      PROVE  SoloInv'
  <2>1. dequeuer[t].pc # "idle" /\ UNCHANGED queuer /\ mishaps \subseteq mishaps'
    BY <1>8 DEF Dqbuf, DqbufFails, Take, CountDown
  <2>2. /\ DOMAIN dequeuer' = DOMAIN dequeuer
        /\ \A u \in DOMAIN dequeuer : u # t => dequeuer'[u] = dequeuer[u]
    BY <1>8, <1>0 DEF Dqbuf, DqbufFails, Got, Take, CountDown
  <2>3. QED
    BY <1>0, <1>1, <2>1, <2>2, InsideShrinks DEF Inside
<1>9. QED
  BY <1>2, <1>3, <1>4, <1>5, <1>6, <1>7, <1>8 DEF Next

(* Buffers on their way outside the device belong to threads inside.         *)
LEMMA Parties ==
  ASSUME VipTypeOK, NEW d
  PROVE  /\ DOMAIN HandOf(d) \subseteq Inside(queuer)
         /\ DOMAIN FillOf(d) \subseteq Inside(dequeuer)
         /\ Counting \subseteq Inside(dequeuer)
BY DEF VipTypeOK, HandOf, FillOf, Handing, Filled, Counting, Inside

(* The numbers and kinds that the accounts of a device speak of.             *)
LEMMA DeviceSizes ==
  ASSUME NEW d, DeviceInv(d)
  PROVE  /\ queued[d] \in Seq(Buffer) /\ Len(queued[d]) \in Nat
         /\ Cardinality(DOMAIN HandOf(d)) \in Nat /\ Cardinality(DOMAIN FillOf(d)) \in Nat
         /\ \A t \in DOMAIN HandOf(d) : HandOf(d)[t] \in Buffer
BY FS_CardinalityType DEF DeviceInv, Agrees

(* All devices have as many buffers on their way, for the counter counts     *)
(* them for each.                                                            *)
OnEachWay == curQueuedSize - Cardinality(Counting)

(* That number is the length of the device's line.                           *)
LEMMA SameNumber ==
  ASSUME NEW d, DeviceInv(d), refused[d] = {}
  PROVE  OnEachWay = Cardinality(DOMAIN HandOf(d)) + Len(queued[d])
                       + Cardinality(DOMAIN FillOf(d))
<1>1. Cardinality(refused[d]) = 0
  BY FS_EmptySet
<1>2. Cardinality(Counting) \in Nat
  BY CountingFinite
<1> DEFINE h == Cardinality(DOMAIN HandOf(d))
           l == Len(queued[d])
           f == Cardinality(DOMAIN FillOf(d))
           c == Cardinality(Counting)
<1>3. h \in Nat /\ l \in Nat /\ f \in Nat /\ c \in Nat
  BY <1>2, DeviceSizes
<1>4. curQueuedSize = h + l + f + c + 0
  BY <1>1 DEF DeviceInv
<1> HIDE DEF h, l, f, c
<1>5. curQueuedSize - c = h + l + f
  BY <1>3, <1>4
<1>6. QED
  BY <1>5 DEF OnEachWay, h, l, f, c

(* A step that moves no buffer, or moves one along, leaves every line as it  *)
(* is; the last dequeued stays what it is while nobody takes.                *)
LEMMA LinesStay ==
  ASSUME LineInv, Calm, mishaps = {}, Devices' = Devices,
         UNCHANGED refused, \A d \in Devices : Line(d)' = Line(d),
         \A t \in Counting' : t \in Counting /\ dequeuer'[t].got = dequeuer[t].got
  PROVE  LineInv'
BY DEF LineInv

(* A claim adds the same memory at the end of every line, for every device   *)
(* has a slot for it.                                                        *)
LEMMA ClaimLines ==
  ASSUME VipInv, VipInv', SoloInv', LineInv, Calm, mishaps = {}, mishaps' = {},
         NEW t \in Queuers, NEW m \in Mems, Claim(t, m)
  PROVE  LineInv'
<1>1. /\ \A d \in Devices : Claimed(d, t, SlotOf[d], m)
      /\ \A d \in Devices : DeviceInv(d)
      /\ VipTypeOK /\ VipTypeOK' /\ \A d \in Devices : refused[d] = {}
  BY ClaimKeeps DEF VipInv, LineInv
<1>2. queuer[t].pc = "idle" /\ UNCHANGED <<dequeuer, mode, refused>>
  BY DEF Claim, devices
<1>3. Devices' = Devices /\ Counting' = Counting
  BY <1>2 DEF Devices, Counting
<1>4. ASSUME NEW d \in Devices
      PROVE  Line(d)' = Longer(Line(d), OnEachWay, m)
  <2>1. /\ HandOf(d)' = With(HandOf(d), t, <<SlotOf[d], m>>)
        /\ queued'[d] = queued[d] /\ FillOf(d)' = FillOf(d)
    BY <1>1 DEF Claimed
  <2>2. DOMAIN HandOf(d)' = DOMAIN HandOf(d) \cup {t}
    BY <2>1 DEF With
  <2>3. DOMAIN HandOf(d)' \subseteq Inside(queuer')
    BY <1>1 DEF VipTypeOK, HandOf, Handing, Inside
  <2>4. t \notin DOMAIN HandOf(d)
    BY <1>2 DEF HandOf, Handing
  <2>5. DOMAIN HandOf(d) = {}
    BY <2>2, <2>3, <2>4 DEF SoloInv, Alone
  <2>6. DeviceInv(d) /\ refused[d] = {}
    BY <1>1
  <2>7. LineOf(With(HandOf(d), t, <<SlotOf[d], m>>), queued[d], FillOf(d))
          = Longer(LineOf(HandOf(d), queued[d], FillOf(d)), OnEachWay, <<SlotOf[d], m>>[2])
    <3>1. /\ Len(queued[d]) \in Nat /\ Cardinality(DOMAIN FillOf(d)) \in Nat
          /\ OnEachWay = Cardinality(DOMAIN HandOf(d)) + Len(queued[d])
                           + Cardinality(DOMAIN FillOf(d))
      BY <2>6, DeviceSizes, SameNumber
    <3>2. QED
      BY <2>5, <3>1, LineClaimed
  <2>8. QED
    BY <2>1, <2>7 DEF Line
<1>5. \A d, e \in Devices : Line(d) = Line(e)
  BY DEF LineInv
<1>6. ASSUME NEW d \in Devices, NEW e \in Devices
      PROVE  Line(d)' = Line(e)'
  <2>1. Line(d) = Line(e)
    BY <1>5
  <2>2. QED
    BY <1>4, <2>1
<1>7. \A u \in Counting' : \A d, e \in Devices' : dequeuer'[u].got[d] = dequeuer'[u].got[e]
  BY <1>2, <1>3 DEF LineInv
<1>8. QED
  BY <1>1, <1>2, <1>3, <1>6, <1>7 DEF LineInv

(* A device that takes its buffer moves it along its line.                   *)
LEMMA QbufLines ==
  ASSUME VipInv, SoloInv, LineInv, Calm, mishaps = {}, mishaps' = {},
         NEW t \in Queuers, Qbuf(t)
  PROVE  LineInv'
<1>1. /\ \A d \in Devices : HandedOver(d, t) \/ Untouched(d)
      /\ \A d \in Devices : DeviceInv(d)
      /\ VipTypeOK
  BY QbufKeeps DEF VipInv
<1>2. UNCHANGED <<dequeuer, mode, refused>>
  BY DEF Qbuf, handle
<1>3. Devices' = Devices /\ Counting' = Counting
  BY <1>2 DEF Devices, Counting
<1>4. ASSUME NEW d \in Devices
      PROVE  Line(d)' = Line(d)
  <2>1. CASE Untouched(d)
    BY <2>1 DEF Untouched, Line
  <2>2. CASE HandedOver(d, t)
    <3>1. DOMAIN HandOf(d) = {t}
      BY <1>1, <2>2, Parties DEF HandedOver, SoloInv, Alone
    <3>2. DeviceInv(d)
      BY <1>1
    <3>3. LineOf(Without(HandOf(d), t), Append(queued[d], HandOf(d)[t]), FillOf(d))
            = LineOf(HandOf(d), queued[d], FillOf(d))
      BY <3>1, <3>2, DeviceSizes, LineHandedOver
    <3>4. QED
      BY <2>2, <3>3 DEF HandedOver, Line
  <2>3. QED
    BY <1>1, <2>1, <2>2
<1>5. QED
  BY <1>2, <1>3, <1>4, LinesStay

(* A device that gives a buffer back moves it along its line.                *)
LEMMA DqbufLines ==
  ASSUME VipInv, VipInv', SoloInv, LineInv, Calm, mishaps = {}, NEW t \in Dequeuers, Dqbuf(t)
  PROVE  LineInv'
<1>1. /\ \A d \in Devices : IF d = Asked(t) THEN GivenBack(d, t) ELSE Untouched(d)
      /\ \A d \in Devices : DeviceInv(d)
      /\ VipTypeOK /\ dequeuer[t].pc = "dqbuf"
  BY DqbufKeeps DEF VipInv, Dqbuf
<1>2. Asked(t) \in Devices /\ Asked(t) \notin DOMAIN dequeuer[t].idx
  BY <1>1, AskedNext
<1>3. Devices' = Devices /\ UNCHANGED refused
  BY DEF Dqbuf, handle, Devices
<1>4. \A u \in Counting' : u \in Counting /\ dequeuer'[u].got = dequeuer[u].got
  <2>1. PICK s, m : Got(t, Asked(t), s, m)
    BY DEF Dqbuf
  <2>2. \A u \in Dequeuers : u # t => dequeuer'[u] = dequeuer[u]
    BY <1>1, <1>2, <2>1, GotGives
  <2>3. dequeuer'[t] = [pc |-> IF DOMAIN dequeuer[t].idx \cup {Asked(t)} = Devices
                                THEN "take" ELSE "dqbuf",
                        idx |-> With(dequeuer[t].idx, Asked(t), s),
                        filled |-> With(dequeuer[t].filled, Asked(t), m),
                        got |-> dequeuer[t].got]
    BY <1>1, <1>2, <2>1, GotGives
  <2>4. dequeuer'[t].pc # "count"
    BY <2>3
  <2>5. QED
    BY <2>2, <2>4 DEF Counting
<1>5. ASSUME NEW d \in Devices
      PROVE  Line(d)' = Line(d)
  <2>1. CASE d # Asked(t)
    BY <1>1, <2>1 DEF Untouched, Line
  <2>2. CASE d = Asked(t)
    <3>1. t \notin DOMAIN FillOf(d) /\ t \in Inside(dequeuer)
      BY <1>1, <1>2, <2>2 DEF FillOf, Filled, Inside, VipTypeOK
    <3>2. DOMAIN FillOf(d) = {}
      BY <1>1, <3>1, Parties DEF SoloInv, Alone
    <3>3. DeviceInv(d) /\ GivenBack(d, t)
      BY <1>1, <2>2
    <3>4. LineOf(HandOf(d), Tail(queued[d]), With(FillOf(d), t, Head(queued[d])))
            = LineOf(HandOf(d), queued[d], FillOf(d))
      BY <3>2, <3>3, DeviceSizes, LineGivenBack DEF GivenBack
    <3>5. QED
      BY <3>3, <3>4 DEF GivenBack, Line
  <2>3. QED
    BY <2>1, <2>2
<1>6. QED
  BY <1>3, <1>4, <1>5, LinesStay

(* Taking takes the first memory from every line: as the lines were equal,   *)
(* so is what was taken.                                                     *)
LEMMA TakeLines ==
  ASSUME VipInv, VipInv', SoloInv, SoloInv', LineInv, Calm, mishaps = {}, mishaps' = {},
         NEW t \in Dequeuers, Take(t)
  PROVE  LineInv'
<1>1. /\ \A d \in Devices : TakenOut(d, t) /\ DeviceInv(d)
      /\ VipTypeOK /\ VipTypeOK' /\ dequeuer'[t].pc = "count"
      /\ \A d \in Devices : dequeuer'[t].got[d] = pMgmtMem[d][dequeuer[t].idx[d]]
      /\ \A d \in Devices : refused[d] = {}
  BY TakeKeeps DEF VipInv, LineInv
<1>2. Devices' = Devices /\ UNCHANGED refused
  BY DEF Take, Devices, devices
<1>3. \A d, e \in Devices : Line(d) = Line(e)
  BY DEF LineInv
<1>4. ASSUME NEW d \in Devices
      PROVE  /\ Line(d)' = Rest(Line(d), OnEachWay)
             /\ Line(d)[1] = pMgmtMem[d][dequeuer[t].idx[d]]
  <2>1. DeviceInv(d) /\ TakenOut(d, t) /\ refused[d] = {}
    BY <1>1
  <2>2. DOMAIN FillOf(d) = {t}
    <3>1. t \in DOMAIN FillOf(d) /\ DOMAIN FillOf(d) \subseteq Inside(dequeuer)
      BY <1>1, <2>1, Parties DEF TakenOut
    <3>2. \A u \in Inside(dequeuer), v \in Inside(dequeuer) : u = v
      BY DEF SoloInv, Alone
    <3>3. QED
      BY <3>1, <3>2
  <2>3. /\ LineOf(HandOf(d), queued[d], Without(FillOf(d), t))
             = Rest(LineOf(HandOf(d), queued[d], FillOf(d)), OnEachWay)
        /\ LineOf(HandOf(d), queued[d], FillOf(d))[1] = FillOf(d)[t][2]
    <3>1. /\ queued[d] \in Seq(Buffer) /\ Cardinality(DOMAIN HandOf(d)) \in Nat
          /\ OnEachWay = Cardinality(DOMAIN HandOf(d)) + Len(queued[d])
                           + Cardinality(DOMAIN FillOf(d))
      BY <2>1, DeviceSizes, SameNumber
    <3>2. QED
      BY <2>2, <3>1, LineTakenOut
  <2>4. FillOf(d)[t][2] = pMgmtMem[d][FillOf(d)[t][1]]
    <3>1. Live(pMgmtMem[d], refused[d])[FillOf(d)[t][1]] = FillOf(d)[t][2]
      BY <2>1, <2>2 DEF DeviceInv, Agrees
    <3>2. FillOf(d)[t][1] \in Slots
      BY <2>1, <2>2 DEF DeviceInv, Agrees, Buffer
    <3>3. QED
      BY <2>1, <3>1, <3>2 DEF Live
  <2>5. FillOf(d)[t][1] = dequeuer[t].idx[d]
    BY <2>2 DEF FillOf
  <2>6. QED
    BY <2>1, <2>3, <2>4, <2>5 DEF TakenOut, Line
<1>5. ASSUME NEW d \in Devices, NEW e \in Devices
      PROVE  Line(d)' = Line(e)'
  <2>1. Line(d) = Line(e)
    BY <1>3
  <2>2. QED
    BY <1>4, <2>1
<1>6. ASSUME NEW u \in Counting', NEW d \in Devices, NEW e \in Devices
      PROVE  dequeuer'[u].got[d] = dequeuer'[u].got[e]
  <2>1. t \in Counting'
    BY <1>1 DEF Counting
  <2>2. Counting' \subseteq Inside(dequeuer')
    BY <1>1 DEF VipTypeOK, Counting, Inside
  <2>3. u = t
    BY <1>6, <2>1, <2>2 DEF SoloInv, Alone
  <2>4. QED
    BY <1>1, <1>3, <1>4, <2>3
<1>7. QED
  BY <1>1, <1>2, <1>5, <1>6 DEF LineInv

(* Nobody is inside and nothing is on its way: the lines are empty.          *)
LEMMA RestfulLines ==
  ASSUME VipTypeOK', Restful', Devices' \subseteq AllDevices, refused' = NoneRefused
  PROVE  LineInv'
<1>1. /\ \A t \in Queuers : queuer'[t].pc = "idle"
      /\ \A t \in Dequeuers : dequeuer'[t].pc = "idle"
  BY DEF VipTypeOK, Restful, Inside
<1>2. Counting' = {} /\ \A d : Handing(d)' = {} /\ Filled(d)' = {}
  BY <1>1 DEF Counting, Handing, Filled
<1>3. \A d : DOMAIN HandOf(d)' = {} /\ DOMAIN FillOf(d)' = {}
  BY <1>2 DEF HandOf, FillOf
<1>4. ASSUME NEW d \in Devices'
      PROVE  Line(d)' = [p \in {} |-> p]
  <2>1. queued'[d] = <<>>
    BY <1>4 DEF Restful
  <2>2. LineOf(HandOf(d)', queued'[d], FillOf(d)') = [p \in {} |-> p]
    BY <1>3, <2>1, LineEmpty
  <2>3. QED
    BY <2>2 DEF Line
<1>5. QED
  BY <1>2, <1>4 DEF LineInv, NoneRefused

(* Every step keeps the lines of all devices equal while one thread is at    *)
(* each end.                                                                 *)
LEMMA LineStep == VipInv /\ VipInv' /\ PairInv /\ SoloInv' /\ [Next]_vars => LineInv'
<1> SUFFICES ASSUME VipInv, VipInv', SoloInv, SoloInv', LineInv, [Next]_vars,
                    Calm', mishaps' = {}
             PROVE  LineInv'
  BY DEF PairInv, LineInv
<1>1. ASSUME UNCHANGED <<open, mode, locked, stray, mishaps, refused>>, \A d : Untouched(d),
             \A t \in Counting' : t \in Counting /\ dequeuer'[t].got = dequeuer[t].got
      PROVE  LineInv'
  <2>1. Calm /\ mishaps = {} /\ Devices' = Devices
    BY <1>1 DEF Calm, Devices
  <2>2. \A d \in Devices : Line(d)' = Line(d)
    BY <1>1 DEF Untouched, Line
  <2>3. QED
    BY <1>1, <2>1, <2>2, LinesStay
<1>2. CASE UNCHANGED vars
  <2>1. UNCHANGED <<open, mode, locked, stray, mishaps, refused, queued, queuer,
                    dequeuer>>
    BY <1>2 DEF vars, handle, devices, threads
  <2>2. Counting' = Counting /\ \A d : Untouched(d)
    BY <2>1 DEF HandOf, FillOf, Handing, Filled, Counting, Untouched
  <2>3. QED
    BY <1>1, <2>1, <2>2
<1>3. CASE NX_VipInit \/ ForgetBuffers
  <2>1. Restful
    BY <1>3 DEF VipInv, ClosedInv, LockedInv, NX_VipInit, ForgetBuffers
  <2>2. Restful'
    BY <1>3, <2>1 DEF Restful, NX_VipInit, ForgetBuffers, devices, threads, Inside
  <2>3. Devices' \subseteq AllDevices /\ refused' = NoneRefused
    BY <1>3 DEF Devices, AllDevices, NX_VipInit, ForgetBuffers
  <2>4. QED
    BY <2>2, <2>3, RestfulLines DEF VipInv
<1>4. CASE NX_VipClose \/ StopAndReconfigure
  BY <1>4 DEF NX_VipClose, StopAndReconfigure, Calm
<1>5. ASSUME NEW t \in Queuers, NEW m \in Mems, Claim(t, m)
      PROVE  LineInv'
  <2>1. mishaps \subseteq mishaps' /\ UNCHANGED <<open, locked, stray>>
    BY <1>5 DEF Claim
  <2>2. Calm /\ mishaps = {}
    BY <2>1 DEF Calm
  <2>3. QED
    BY <1>5, <2>2, ClaimLines
<1>6. ASSUME NEW t \in Queuers, Qbuf(t)
      PROVE  LineInv'
  <2>1. Calm /\ mishaps = {}
    BY <1>6 DEF Calm, Qbuf, handle
  <2>2. QED
    BY <1>6, <2>1, QbufLines
<1>7. ASSUME NEW t \in Queuers, TestFlag(t) \/ SetFlag(t) \/ StreamOn(t)
      PROVE  LineInv'
  <2>1. UNCHANGED <<open, mode, locked, stray, mishaps, refused, dequeuer>>
    BY <1>7 DEF TestFlag, SetFlag, StreamOn, handle, devices
  <2>2. \A d : Untouched(d)
    BY <1>7, TestFlagKeeps, SetFlagKeeps, StreamOnKeeps
  <2>3. QED
    BY <1>1, <2>1, <2>2 DEF Counting
<1>8. ASSUME NEW t \in Dequeuers, Check(t) \/ CountDown(t)
      PROVE  LineInv'
  <2>1. UNCHANGED <<open, mode, locked, stray, refused>> /\ mishaps \subseteq mishaps'
    BY <1>8 DEF Check, CountDown, handle, devices
  <2>2. \A d : Untouched(d)
    BY <1>8, CheckKeeps, CountDownKeeps
  <2>3. DOMAIN dequeuer = Dequeuers
    BY DEF VipInv, VipTypeOK
  <2>4. \A u \in Dequeuers : u # t => dequeuer'[u] = dequeuer[u]
    BY <1>8, <2>3 DEF Check, CountDown
  <2>5. dequeuer'[t].pc # "count"
    <3>1. CASE Check(t)
      <4>1. DequeuerShape(dequeuer[t]) /\ dequeuer[t].pc = "idle"
        BY <3>1 DEF VipInv, VipTypeOK, Check
      <4>2. dequeuer[t] = [pc |-> "idle", idx |-> <<>>, filled |-> <<>>, got |-> <<>>]
        BY <4>1 DEF DequeuerShape, DequeuerIdle
      <4>3. dequeuer' = [dequeuer EXCEPT ![t].pc = "dqbuf"]
        BY <3>1 DEF Check
      <4>4. QED
        BY <2>3, <4>2, <4>3
    <3>2. CASE CountDown(t)
      BY <2>3, <3>2 DEF CountDown, DequeuerIdle
    <3>3. QED
      BY <1>8, <3>1, <3>2
  <2>6. QED
    BY <1>1, <2>1, <2>2, <2>4, <2>5 DEF Counting
<1>9. ASSUME NEW t \in Dequeuers, Dqbuf(t)
      PROVE  LineInv'
  <2>1. Calm /\ mishaps = {}
    BY <1>9 DEF Calm, Dqbuf, handle
  <2>2. QED
    BY <1>9, <2>1, DqbufLines
<1>10. ASSUME NEW t \in Dequeuers, DqbufFails(t)
       PROVE  LineInv'
  BY <1>10 DEF DqbufFails, Calm
<1>11. ASSUME NEW t \in Dequeuers, Take(t)
       PROVE  LineInv'
  <2>1. Calm /\ mishaps = {}
    BY <1>11 DEF Calm, Take
  <2>2. QED
    BY <1>11, <2>1, TakeLines
<1>12. QED
  BY <1>2, <1>3, <1>4, <1>5, <1>6, <1>7, <1>8, <1>9, <1>10, <1>11 DEF Next

(* With one thread at each end, all devices always have the same memories    *)
(* on their way, in the same order.                                          *)
LEMMA PairInvariant == Spec => []PairInv
<1>1. Init => PairInv
  <2>1. ASSUME Init
        PROVE  Inside(queuer) = {} /\ Inside(dequeuer) = {} /\ ~open
    BY <2>1 DEF Init, Inside, QueuerIdle, DequeuerIdle
  <2>2. QED
    BY <2>1 DEF PairInv, SoloInv, LineInv, Alone, Calm
<1>2. VipInv /\ VipInv' /\ PairInv /\ [Next]_vars => PairInv'
  BY SoloStep, LineStep DEF PairInv
<1>3. QED
  BY <1>1, <1>2, VipInvariant, PTL DEF Spec

(* So the buffers taken together are of the same memory.                     *)
LEMMA PairInvTogether == VipInv /\ PairInv => PairsStayTogether
<1> SUFFICES ASSUME VipInv, PairInv, mishaps = {}
             PROVE  \A t \in Dequeuers : dequeuer[t].pc = "count" =>
                      \A d, e \in Devices : dequeuer[t].got[d] = dequeuer[t].got[e]
  BY DEF PairsStayTogether
<1>1. CASE Calm
  BY <1>1 DEF PairInv, LineInv, Counting
<1>2. CASE ~Calm
  <2>1. Restful
    BY <1>2 DEF VipInv, ClosedInv, LockedInv, StartInv, Calm
  <2>2. QED
    BY <2>1 DEF VipInv, VipTypeOK, Restful, Inside
<1>3. QED
  BY <1>1, <1>2

(* NX_VipDequeueBuffer returns with the clipper's and the decimator's        *)
(* buffers of the same memory, though each device has a table and a queue    *)
(* of its own, for any number of threads, memories and slots, while one      *)
(* thread queues and one dequeues, no call runs into another and no ioctl    *)
(* fails.                                                                    *)
THEOREM PairsAlwaysTogether == Spec => []PairsStayTogether
<1>1. QED
  BY VipInvariant, PairInvariant, PairInvTogether, PTL

=============================================================================
