----------------------------- MODULE GTSurfaces ------------------------------
(***************************************************************************)
(* What the service thread runs for one open handle of a graphic tool: it  *)
(* keeps the GL surfaces it made for the caller's buffers in two caches,   *)
(* one of sources and one of targets, and looks a buffer up by its         *)
(* physical address or, an RGB buffer, by its ion file descriptor.         *)
(*                                                                         *)
(* The four tools of NX_GTService.cpp are four copies of the same          *)
(* functions with small differences; here they are one definition with the *)
(* differences named.  A client may free a buffer and allocate another     *)
(* while the handle is open: the descriptor is then reused.  Memory is     *)
(* not, as long as a surface made of it holds it, which is the GL driver's *)
(* doing.                                                                  *)
(***************************************************************************)
EXTENDS Integers, FiniteSets

CONSTANTS
  Blocks,          \* physical memory of buffers, named by its address
  Fds,             \* ion file descriptors; none is 0, the mark of an empty slot
  Sizes,           \* the values of maxInOutBufSize, at most MAX_GRAPHIC_BUF_SIZE
  Nil,             \* a NULL surface, the address 0, no tool
  MaxTroubles      \* bound: failures and replaced buffers while a handle is open

SurfTools == {"deinterlace", "scale", "rgb2yuv", "yuv2rgb"}

ASSUME SurfaceBounds ==
  /\ Sizes \subseteq Nat \ {0}
  /\ MaxTroubles \in Nat
  /\ \E m \in [Fds -> Blocks] : \A f, g \in Fds : m[f] = m[g] => f = g
  /\ Nil \notin Blocks \cup Fds \cup SurfTools
  /\ Blocks \cap Fds = {}

VARIABLES
  tool,   \* the tool of the open handle
  memory, \* the client's buffers: the memory behind every descriptor
  cache,  \* the slots of both sides: key, and the memory the surface is made of
  live,   \* how many surfaces of each side exist
  wrong,  \* history: the surfaces the last command drew with that are not of the
          \* memory it named
  marks   \* history: sides where a surface was not made, descriptors reused

surfVars == <<tool, memory, cache, live, wrong, marks>>

Sides == {"in", "out"}

\* The slots in use of the open handle: all that the loops go through.
SlotIds == DOMAIN cache["in"]

EmptySlot == [key |-> Nil, of |-> Nil]
EmptyCaches(n) == [side \in Sides |-> [i \in 1 .. n |-> EmptySlot]]

\* Which side of which tool is looked up by descriptor.
ByFd(t, side) == <<t, side>> \in {<<"rgb2yuv", "in">>, <<"yuv2rgb", "out">>}

KeyOf(side, fd) == IF ByFd(tool, side) THEN fd ELSE memory[fd]

Least(S) == CHOOSE i \in S : \A j \in S : i <= j

\* The client's buffers when it begins, a memory each.
FirstMemory ==
  CHOOSE m \in [Fds -> Blocks] : \A f, g \in Fds : m[f] = m[g] => f = g

SurfStart ==
  /\ tool = Nil
  /\ memory = FirstMemory
  /\ cache = EmptyCaches(0)
  /\ live = [side \in Sides |-> 0]
  /\ wrong = {}
  /\ marks = {}

(* Memory that no buffer and no surface holds.                               *)
Available ==
  Blocks \ ({memory[f] : f \in Fds}
              \cup {cache[side][i].of : side \in Sides, i \in SlotIds})

(* The client frees a buffer and allocates one, which gets its descriptor.   *)
ReplaceBuffer(f, b) ==
  /\ tool # Nil /\ b \in Available
  /\ memory' = [memory EXCEPT ![f] = b]
  /\ wrong' = {}
  /\ marks' = marks \cup {f}
  /\ Cardinality(marks') <= MaxTroubles
  /\ UNCHANGED <<tool, cache, live>>

(* GTServiceDeintOpen, GTServiceSclOpen, ...: a zeroed handle.               *)
SurfOpen(t, maxInOutBufSize) ==
  /\ tool = Nil
  /\ tool' = t
  /\ cache' = EmptyCaches(maxInOutBufSize)
  /\ UNCHANGED <<memory, live, wrong, marks>>

-----------------------------------------------------------------------------
(* One command.                                                              *)

Hits(side, key) == {i \in SlotIds : cache[side][i].key = key}
EmptySlots(side) == Hits(side, Nil)

\* The first loop: the surface in the first slot with the key.
CachedSurface(side, key) ==
  IF Hits(side, key) = {} THEN Nil ELSE cache[side][Least(Hits(side, key))].of

\* hInSurface and hOutSurface when no slot is left.
NoSlotFirst(side) == cache[side][1].of
NoSlot(side) == Nil

(* The slot after the second loop.  The deinterlacer leaves it alone when    *)
(* the surface could not be made; the others note the key.                   *)
RecordedAlways(key, surface) == [key |-> key, of |-> surface]
Recorded(key, surface) ==
  IF surface = Nil /\ tool = "deinterlace" THEN EmptySlot
  ELSE [key |-> key, of |-> surface]

(* What is left of one side: its slots, how many surfaces are new, and the   *)
(* surface the command goes on with.                                         *)
Found(side, surface) ==
  [slots |-> cache[side], new |-> 0, surface |-> surface, failed |-> FALSE]

Made(side, key, surface) ==
  [slots |-> [cache[side] EXCEPT ![Least(EmptySlots(side))] = Recorded(key, surface)],
   new |-> IF surface = Nil THEN 0 ELSE 1,
   surface |-> surface,
   failed |-> surface = Nil]

(* Both loops for one side.  vrCreate... makes a surface of the memory       *)
(* behind the descriptor, or returns NULL.                                   *)
Lookups(side, fd) ==
  LET key == KeyOf(side, fd)
      cached == CachedSurface(side, key)
  IN  IF cached # Nil THEN {Found(side, cached)}
      ELSE IF EmptySlots(side) = {} THEN {Found(side, NoSlot(side))}
      ELSE {Made(side, key, surface) : surface \in {memory[fd], Nil}}

(* The deinterlacer returns when it could not make a source, before it looks *)
(* the target up.                                                            *)
Targets(source, fout) ==
  IF tool = "deinterlace" /\ source.failed THEN {Found("out", Nil)}
  ELSE Lookups("out", fout)

\* It also looks at both surfaces before it draws; the others do not.
Draws(source, target) ==
  tool = "deinterlace" => source.surface # Nil /\ target.surface # Nil

Drawn(side, fd, looked) ==
  [side |-> side, key |-> KeyOf(side, fd), fd |-> fd, got |-> looked.surface]

(* GTServiceDeintDoDeinterlace, GTServiceSclDoScale, GTServiceRgb2YuvDo-     *)
(* Convert, GTServiceYuv2RgbDoConvert.                                       *)
SurfDo(fin, fout) ==
  /\ tool # Nil /\ fin # fout
  /\ \E source \in Lookups("in", fin) : \E target \in Targets(source, fout) :
       /\ cache' = [in |-> source.slots, out |-> target.slots]
       /\ live' = [in |-> live["in"] + source.new, out |-> live["out"] + target.new]
       /\ wrong' = IF ~Draws(source, target) THEN {}
                   ELSE {d \in {Drawn("in", fin, source), Drawn("out", fout, target)} :
                           d.got # memory[d.fd]}
       /\ marks' = marks \cup {side \in Sides : IF side = "in" THEN source.failed
                                                ELSE target.failed}
       /\ Cardinality(marks') <= MaxTroubles
  /\ UNCHANGED <<tool, memory>>

\* The slots whose surface a close destroys; NULL is no surface.
DestroyedSources(side) == IF side = "in" THEN SlotIds \ EmptySlots(side) ELSE {}
Destroyed(side) == SlotIds \ EmptySlots(side)

(* GTServiceDeintClose, GTServiceSclClose, ...: the handle is freed with its *)
(* caches.                                                                   *)
SurfClose ==
  /\ tool # Nil
  /\ live' = [side \in Sides |->
                live[side] - Cardinality({i \in Destroyed(side) :
                                            cache[side][i].of # Nil})]
  /\ tool' = Nil
  /\ cache' = EmptyCaches(0)
  /\ wrong' = {}
  /\ marks' = {}
  /\ UNCHANGED memory

SurfNext ==
  \/ \E f \in Fds, b \in Blocks : ReplaceBuffer(f, b)
  \/ \E t \in SurfTools, n \in Sizes : SurfOpen(t, n)
  \/ \E fin, fout \in Fds : SurfDo(fin, fout)
  \/ SurfClose

SurfSpec == SurfStart /\ [][SurfNext]_surfVars

-----------------------------------------------------------------------------
(* Properties.                                                               *)

(* Every surface that was made is in one slot of the handle that is open,    *)
(* whichever of the steps of a command failed, so that the close destroys    *)
(* it; and a buffer has one slot as long as no surface failed to be made     *)
(* for its side (a failure leaves a NULL under the key, which hides every    *)
(* later surface for that buffer), in the deinterlacer always.               *)
SurfacesAccounted ==
  \A side \in Sides :
    /\ live[side] = Cardinality({i \in SlotIds : cache[side][i].of # Nil})
    /\ \A i, j \in SlotIds \ EmptySlots(side) :
         cache[side][i].key = cache[side][j].key /\ i # j
           => tool # "deinterlace" /\ side \in marks

(* A command draws from and into the memory of the buffers it names.  The    *)
(* tools that do not look at the surfaces draw with NULL only after a        *)
(* surface could not be made or with more buffers than slots (all of them    *)
(* hold other buffers), and an RGB buffer is mistaken for another only if    *)
(* its descriptor was freed and given out again while the handle was open.   *)
DrawsWhatIsNamed ==
  \A d \in wrong :
    IF d.got = Nil
      THEN /\ tool # "deinterlace"
           /\ d.side \in marks
                \/ Cardinality({cache[d.side][i].key : i \in SlotIds} \ {Nil, d.key})
                     = Cardinality(SlotIds)
      ELSE ByFd(tool, d.side) /\ d.key \in marks

=============================================================================
