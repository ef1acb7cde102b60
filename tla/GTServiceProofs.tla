--------------------------- MODULE GTServiceProofs ---------------------------
(***************************************************************************)
(* Proofs about GTService for any clients, queue size and numbers of       *)
(* instances and commands, where a wait on a condition variable ends by a  *)
(* signal only.  The inductive invariant is built in layers: the shape of  *)
(* the state, who holds which lock (LockInv), where the one command under  *)
(* way is (ExchangeInv), and the posts of hSemCmd that are still to be     *)
(* taken (TokenInv).  From them follow the properties of the service, and  *)
(* that each of its steps is one of GTRequests or none.                    *)
(***************************************************************************)
EXTENDS GTService, FiniteSetTheorems, SequenceTheorems, TLAPS

(* What the variables hold.                                                  *)
BaseType ==
  /\ refCnt \in Nat /\ exists \in BOOLEAN /\ run \in BOOLEAN
  /\ instMutex \in Clients \cup {None} /\ hLock \in Clients \cup {None}
  /\ queue \in Seq(Clients)
  /\ semCmd \in SemType /\ semRes \in SemType
  /\ pc \in [Clients -> ClientPCs]
  /\ cmd \in [Clients -> Commands]
  /\ served \in [Clients -> BOOLEAN]
  /\ dos \in [Clients -> Nat]
  /\ server \in ServerPCs
  /\ cur \in Clients \cup {None}
  /\ sessions \in Nat

(* Whoever is in NX_GTServiceCommand holds hLock, whoever is in              *)
(* NX_GTServiceStop holds gstInstMutex; the instances in use are counted,    *)
(* the service runs while there are any, and without a stop under way a      *)
(* service that does not run has no thread.                                  *)
LockInv ==
  /\ \A c \in Clients : InCommand(c) <=> hLock = c
  /\ \A c \in Clients : pc[c] \in {"stop", "join"} <=> instMutex = c
  /\ IsFiniteSet(Holding) /\ refCnt = Cardinality(Holding)
  /\ run <=> Holding # {}
  /\ server = "dead" => ~run
  /\ ~run /\ instMutex = None => server = "dead"

\* The service thread is not at work on a command.
Idle == server \in {"dead", "check", "count", "pend", "wait", "pop"}

Quiet == queue = <<>> /\ Idle /\ semRes = NewSem

\* Where a command is between its push and the answer.
Queued(c) == queue = <<c>> /\ Idle /\ semRes = NewSem /\ ~served[c]
Running(c) == queue = <<>> /\ server = "run" /\ cur = c /\ semRes = NewSem /\ ~served[c]
Ran(c) == queue = <<>> /\ server = "post" /\ semRes = NewSem /\ served[c]
Answered(c) == queue = <<>> /\ Idle /\ semRes = [val |-> 1, sig |-> pc[c] = "wait"] /\ served[c]

UnderWay(c) == Queued(c) \/ Running(c) \/ Ran(c) \/ Answered(c)

CommandAt(c) ==
  /\ pc[c] = "push" => Quiet /\ ~served[c]
  /\ pc[c] \in {"post", "pend", "wait"} => UnderWay(c)
  /\ pc[c] = "reply" => Quiet /\ served[c]

ExchangeInv ==
  /\ hLock = None => Quiet
  /\ \A c \in Clients : CommandAt(c)

(* hSemCmd is signalled only to a waiting thread, and what was posted for a  *)
(* command or a stop is there until the thread comes to the queue.           *)
TokenInv ==
  /\ semCmd.val \in Nat
  /\ semCmd.sig => server = "wait" /\ semCmd.val > 0
  /\ server = "wait" /\ ~semCmd.sig => semCmd.val = 0
  /\ queue # <<>> /\ (\A c \in Clients : pc[c] # "post") => semCmd.val > 0 \/ server = "pop"
  /\ ~run /\ server \in {"count", "pend", "wait"}
       => semCmd.val > 0 \/ \E c \in Clients : pc[c] = "stop"

IInv == BaseType /\ LockInv /\ ExchangeInv /\ TokenInv


-----------------------------------------------------------------------------
(* Semaphores, and the places of clients.                                    *)

LEMMA SemaphoreTypes ==
  ASSUME NEW sem \in SemType, NEW waiting \in BOOLEAN
  PROVE  /\ Posted(sem, waiting) \in SemType /\ Posted(sem, waiting).val = sem.val + 1
         /\ Pended(sem) \in SemType /\ Woken(sem) \in SemType
         /\ Woken(sem).val = sem.val - 1 /\ ~Woken(sem).sig
         /\ sem.val >= 0 => Pended(sem) = [val |-> sem.val - 1, sig |-> sem.sig]
BY DEF SemType, Posted, Pended, Woken

LEMMA NewSemType == NewSem \in SemType
BY DEF NewSem, SemType

LEMMA GotoType ==
  ASSUME BaseType, NEW c \in Clients, NEW where \in ClientPCs, Goto(c, where)
  PROVE  /\ pc' \in [Clients -> ClientPCs]
         /\ pc'[c] = where
         /\ \A d \in Clients \ {c} : pc'[d] = pc[d]
BY DEF BaseType, Goto

LEMMA AfterType == \A c \in Clients : After(c) \in {"release", "inst"}
BY DEF After

-----------------------------------------------------------------------------
(* Types.                                                                    *)

LEMMA TypeInit == Init => BaseType
<1> SUFFICES ASSUME Init PROVE BaseType
  OBVIOUS
<1>1. semCmd \in SemType /\ semRes \in SemType
  BY NewSemType DEF Init
<1>2. /\ pc \in [Clients -> ClientPCs] /\ cmd \in [Clients -> Commands]
      /\ served \in [Clients -> BOOLEAN] /\ dos \in [Clients -> Nat]
  BY DEF Init, ClientPCs, Commands
<1>3. exists \in BOOLEAN /\ run \in BOOLEAN
  BY Zenon DEF Init
<1>4. /\ refCnt \in Nat /\ sessions \in Nat /\ queue \in Seq(Clients)
      /\ instMutex \in Clients \cup {None} /\ hLock \in Clients \cup {None}
      /\ server \in ServerPCs /\ cur \in Clients \cup {None}
  BY EmptySeq DEF Init, ServerPCs
<1>5. QED
  BY <1>1, <1>2, <1>3, <1>4 DEF BaseType

LEMMA TypeStep == BaseType /\ [Next]_vars => BaseType'
<1> SUFFICES ASSUME BaseType, [Next]_vars PROVE BaseType'
  OBVIOUS
<1>s. semCmd \in SemType /\ semRes \in SemType
  BY DEF BaseType
<1>w. Posted(semRes, \E d \in Clients : pc[d] = "wait") \in SemType
  BY <1>s, SemaphoreTypes
<1>p. Posted(semCmd, server = "wait") \in SemType
  BY <1>s, SemaphoreTypes
<1>r. /\ Pended(semCmd) \in SemType /\ Woken(semCmd) \in SemType
      /\ Pended(semRes) \in SemType /\ Woken(semRes) \in SemType
  BY <1>s, SemaphoreTypes
<1>1. ASSUME NEW c \in Clients, NEW tool \in Tools, GTOpen(c, tool) PROVE BaseType'
  <2>1. pc' \in [Clients -> ClientPCs]
    BY <1>1, GotoType DEF GTOpen, ClientPCs
  <2>2. /\ hLock' \in Clients \cup {None} /\ queue' \in Seq(Clients)
        /\ semCmd' \in SemType /\ semRes' \in SemType
    <3>1. CASE Reused(tool)
      BY <1>1, <3>1 DEF GTOpen, ServiceInit, service, BaseType
    <3>2. CASE ~Reused(tool)
      <4>1. \/ hLock' = None /\ queue' = <<>> /\ semCmd' = NewSem /\ semRes' = NewSem
            \/ UNCHANGED <<hLock, queue, semCmd, semRes>>
        BY <1>1, <3>2 DEF GTOpen, ServiceInit, service
      <4>2. QED
        BY <4>1, NewSemType, EmptySeq DEF BaseType
    <3>3. QED
      BY <3>1, <3>2
  <2>3. run' \in BOOLEAN /\ exists' \in BOOLEAN
    <3>1. exists' = TRUE \/ exists' = exists
      BY <1>1, Zenon DEF GTOpen
    <3>2. run' = TRUE \/ run' = run
      BY <1>1, Zenon DEF GTOpen, ServiceStart, service
    <3>3. QED
      BY <3>1, <3>2 DEF BaseType
  <2>4. server' \in ServerPCs /\ cur' \in Clients \cup {None}
    BY <1>1 DEF GTOpen, ServiceStart, thread, BaseType, ServerPCs
  <2>5. cmd' \in [Clients -> Commands] /\ dos' \in [Clients -> Nat]
    BY <1>1, Bounds DEF GTOpen, BaseType, Commands
  <2>6. refCnt' \in Nat /\ sessions' \in Nat /\ UNCHANGED <<instMutex, served>>
    BY <1>1 DEF GTOpen, BaseType
  <2>7. QED
    BY <2>1, <2>2, <2>3, <2>4, <2>5, <2>6 DEF BaseType
<1>2. ASSUME NEW c \in Clients, CommandBegin(c) PROVE BaseType'
  <2>1. pc' \in [Clients -> ClientPCs]
    BY <1>2, GotoType, AfterType DEF CommandBegin, ClientPCs
  <2>2. hLock' \in Clients \cup {None} /\ served' \in [Clients -> BOOLEAN]
    BY <1>2 DEF CommandBegin, BaseType
  <2>3. QED
    BY <1>2, <2>1, <2>2 DEF CommandBegin, lib, thread, BaseType
<1>3. ASSUME NEW c \in Clients, CommandPush(c) PROVE BaseType'
  <2>1. pc' \in [Clients -> ClientPCs]
    BY <1>3, GotoType DEF CommandPush, ClientPCs
  <2>2. queue' \in Seq(Clients)
    BY <1>3 DEF CommandPush, BaseType
  <2>3. QED
    BY <1>3, <2>1, <2>2 DEF CommandPush, lib, thread, BaseType
<1>4. ASSUME NEW c \in Clients, CommandPost(c) \/ StopPost(c) PROVE BaseType'
  <2>1. pc' \in [Clients -> ClientPCs]
    BY <1>4, GotoType DEF CommandPost, StopPost, ClientPCs
  <2>2. QED
    BY <1>4, <1>p, <2>1 DEF CommandPost, StopPost, PostCmd, lib, thread, BaseType
<1>5. ASSUME NEW c \in Clients, CommandPend(c) \/ CommandWake(c) PROVE BaseType'
  <2>1. pc' \in [Clients -> ClientPCs]
    BY <1>5, GotoType DEF CommandPend, CommandWake, ClientPCs
  <2>2. semRes' \in SemType
    BY <1>5, <1>s, <1>r DEF CommandPend, CommandWake
  <2>3. QED
    BY <1>5, <2>1, <2>2 DEF CommandPend, CommandWake, lib, thread, BaseType
<1>6. ASSUME NEW c \in Clients, CommandEnd(c) PROVE BaseType'
  <2>1. pc' \in [Clients -> ClientPCs]
    BY <1>6, GotoType, AfterType DEF CommandEnd, ClientPCs
  <2>2. QED
    BY <1>6, <2>1 DEF CommandEnd, lib, thread, BaseType
<1>7. ASSUME NEW c \in Clients, GTDo(c) \/ GTClose(c) PROVE BaseType'
  <2>1. pc' \in [Clients -> ClientPCs]
    BY <1>7, GotoType DEF GTDo, GTClose, ClientPCs
  <2>2. cmd' \in [Clients -> Commands] /\ dos' \in [Clients -> Nat]
    <3>1. \A n \in Nat : n > 0 => n - 1 \in Nat
      OBVIOUS
    <3>2. CASE GTDo(c)
      BY <3>1, <3>2 DEF GTDo, BaseType, Commands
    <3>3. CASE GTClose(c)
      BY <3>3 DEF GTClose, BaseType, Commands
    <3>4. QED
      BY <1>7, <3>2, <3>3
  <2>3. QED
    BY <1>7, <2>1, <2>2 DEF GTDo, GTClose, lib, service, thread, BaseType
<1>8. ASSUME NEW c \in Clients, GTRelease(c) PROVE BaseType'
  <2>1. pc' \in [Clients -> ClientPCs]
    BY <1>8, GotoType DEF GTRelease, ClientPCs
  <2>2. refCnt' \in Nat
    BY <1>8 DEF GTRelease, BaseType
  <2>3. instMutex' \in Clients \cup {None} /\ run' \in BOOLEAN
    BY <1>8 DEF GTRelease, BaseType
  <2>4. QED
    BY <1>8, <2>1, <2>2, <2>3 DEF GTRelease, thread, BaseType
<1>9. ASSUME NEW c \in Clients, StopJoin(c) PROVE BaseType'
  <2>1. pc' \in [Clients -> ClientPCs]
    BY <1>9, GotoType DEF StopJoin, ClientPCs
  <2>2. QED
    BY <1>9, <2>1 DEF StopJoin, service, thread, BaseType
<1>10. CASE ServerCheck \/ ServerCount
  BY <1>10 DEF ServerCheck, ServerCount, lib, service, client, BaseType, ServerPCs
<1>11. CASE ServerPend \/ ServerWake
  BY <1>11, <1>r DEF ServerPend, ServerWake, lib, client, BaseType, ServerPCs
<1>12. CASE ServerPop
  <2>1. queue' \in Seq(Clients) /\ cur' \in Clients \cup {None}
    <3>1. CASE queue = <<>>
      BY <1>12, <3>1 DEF ServerPop, BaseType
    <3>2. CASE queue # <<>>
      <4>1. Head(queue) \in Clients /\ Tail(queue) \in Seq(Clients)
        BY <3>2, HeadTailProperties DEF BaseType
      <4>2. QED
        BY <1>12, <3>2, <4>1 DEF ServerPop, Popped
    <3>3. QED
      BY <3>1, <3>2
  <2>2. QED
    BY <1>12, <2>1 DEF ServerPop, lib, client, BaseType, ServerPCs
<1>13. CASE ServerRun
  BY <1>13 DEF ServerRun, lib, service, client, BaseType, ServerPCs
<1>14. CASE ServerPost
  BY <1>14, <1>w DEF ServerPost, lib, client, BaseType, ServerPCs
<1>15. CASE UNCHANGED vars
  BY <1>15 DEF vars, lib, service, client, thread, BaseType
<1>16. QED
  BY <1>1, <1>2, <1>3, <1>4, <1>5, <1>6, <1>7, <1>8, <1>9, <1>10, <1>11, <1>12,
     <1>13, <1>14, <1>15 DEF Next, Proceed, Server

-----------------------------------------------------------------------------
(* Locks, the count of instances, and the life of the thread.                *)

Outside == {"out", "stop", "join"}
Stopping == {"stop", "join"}
Inside == {"push", "post", "pend", "wait", "reply"}

USE DEF ClientPCs

LEMMA HoldingAfter ==
  ASSUME BaseType, NEW c \in Clients, NEW where \in ClientPCs, Goto(c, where)
  PROVE  Holding' = IF where \in Outside THEN Holding \ {c} ELSE Holding \cup {c}
BY GotoType DEF Holding, Outside

\* A client moves, and neither a lock nor the service changes hands.
LEMMA MovesOn ==
  ASSUME BaseType, LockInv, NEW c \in Clients, NEW where \in ClientPCs, Goto(c, where),
         UNCHANGED <<refCnt, run, instMutex, hLock, server>>,
         pc[c] \in Outside <=> where \in Outside,
         pc[c] \in Stopping <=> where \in Stopping,
         pc[c] \in Inside <=> where \in Inside
  PROVE  LockInv'
<1>1. \A d \in Clients : /\ pc'[d] \in Stopping <=> pc[d] \in Stopping
                         /\ pc'[d] \in Inside <=> pc[d] \in Inside
  BY GotoType
<1>2. Holding' = Holding
  BY HoldingAfter DEF Holding, Outside
<1>3. QED
  BY <1>1, <1>2 DEF LockInv, InCommand, Inside, Stopping

LEMMA LockStart == Init => LockInv
<1> SUFFICES ASSUME Init PROVE LockInv
  OBVIOUS
<1>1. Holding = {}
  BY DEF Init, Holding
<1>2. \A c \in Clients : c # None
  BY Bounds
<1>3. QED
  BY <1>1, <1>2, FS_EmptySet DEF Init, LockInv, InCommand

LEMMA LockStep == BaseType /\ LockInv /\ [Next]_vars => LockInv'
<1> SUFFICES ASSUME BaseType, LockInv, [Next]_vars PROVE LockInv'
  OBVIOUS
<1>n. \A c \in Clients : c # None
  BY Bounds
<1>h. /\ IsFiniteSet(Holding) /\ refCnt = Cardinality(Holding) /\ refCnt \in Nat
      /\ Holding = {} <=> refCnt = 0
  BY FS_EmptySet DEF LockInv, BaseType
<1>1. ASSUME NEW c \in Clients, NEW tool \in Tools, GTOpen(c, tool) PROVE LockInv'
  <2>1. /\ pc[c] = "out" /\ Goto(c, "call") /\ refCnt' = refCnt + 1
        /\ instMutex = None /\ instMutex' = None
    BY <1>1 DEF GTOpen
  <2>2. /\ pc'[c] = "call" /\ \A d \in Clients \ {c} : pc'[d] = pc[d]
    BY <2>1, GotoType
  <2>3. Holding' = Holding \cup {c} /\ c \notin Holding
    BY <2>1, HoldingAfter DEF Holding, Outside
  <2>4. IsFiniteSet(Holding') /\ refCnt' = Cardinality(Holding')
    BY <1>h, <2>1, <2>3, FS_AddElement
  <2>5. run' /\ server' # "dead"
    <3>1. CASE refCnt = 0
      BY <1>1, <1>h, <3>1 DEF GTOpen, ServiceStart, LockInv
    <3>2. CASE refCnt # 0
      BY <1>1, <1>h, <3>2 DEF GTOpen, service, thread, LockInv
    <3>3. QED
      BY <3>1, <3>2
  <2>6. \A d \in Clients : InCommand(d)' <=> hLock' = d
    <3>1. CASE refCnt = 0
      <4>1. \A d \in Clients : ~InCommand(d) /\ hLock # d
        BY <1>h, <3>1 DEF LockInv, Holding, InCommand
      <4>2. hLock' = hLock \/ hLock' = None
        BY <1>1, <3>1 DEF GTOpen, ServiceInit, service
      <4>3. QED
        BY <1>n, <2>2, <4>1, <4>2 DEF InCommand
    <3>2. CASE refCnt # 0
      BY <1>1, <2>1, <2>2, <3>2 DEF GTOpen, service, LockInv, InCommand
    <3>3. QED
      BY <3>1, <3>2
  <2>7. \A d \in Clients : pc'[d] \in {"stop", "join"} <=> instMutex' = d
    BY <1>n, <2>1, <2>2 DEF LockInv
  <2>8. QED
    BY <2>3, <2>4, <2>5, <2>6, <2>7 DEF LockInv
<1>2. ASSUME NEW c \in Clients, CommandBegin(c) PROVE LockInv'
  <2>1. /\ pc[c] = "call" /\ hLock = None /\ UNCHANGED <<refCnt, instMutex, run, server>>
    BY <1>2 DEF CommandBegin, LockFree, lib, thread
  <2>2. run
    BY <2>1 DEF LockInv, Holding
  <2>3. hLock' = c /\ Goto(c, "push")
    BY <1>2, <2>2 DEF CommandBegin
  <2>4. Holding' = Holding
    BY <2>1, <2>3, HoldingAfter DEF Holding, Outside
  <2>5. /\ pc'[c] = "push" /\ \A d \in Clients \ {c} : pc'[d] = pc[d]
    BY <2>3, GotoType
  <2>6. QED
    BY <1>n, <2>1, <2>3, <2>4, <2>5 DEF LockInv, InCommand
<1>3. ASSUME NEW c \in Clients,
             \/ CommandPush(c) \/ CommandPost(c) \/ CommandPend(c) \/ CommandWake(c)
             \/ GTDo(c) \/ GTClose(c) \/ StopPost(c)
      PROVE  LockInv'
  <2>1. UNCHANGED <<refCnt, run, instMutex, hLock, server>>
    BY <1>3 DEF CommandPush, CommandPost, CommandPend, CommandWake, GTDo, GTClose, StopPost,
       lib, service, thread
  <2>2. \/ pc[c] \in Inside /\ \E where \in Inside : Goto(c, where)
        \/ pc[c] = "inst" /\ Goto(c, "call")
        \/ pc[c] = "stop" /\ Goto(c, "join")
    BY <1>3 DEF CommandPush, CommandPost, CommandPend, CommandWake, GTDo, GTClose, StopPost,
       Inside
  <2>3. QED
    BY <2>1, <2>2, MovesOn DEF Inside, Outside, Stopping
<1>4. ASSUME NEW c \in Clients, CommandEnd(c) PROVE LockInv'
  <2>1. /\ pc[c] = "reply" /\ hLock' = None /\ UNCHANGED <<refCnt, instMutex, run, server>>
    BY <1>4 DEF CommandEnd, lib, thread
  <2>2. PICK where \in {"release", "inst"} : Goto(c, where)
    BY <1>4, AfterType DEF CommandEnd
  <2>3. Holding' = Holding
    BY <2>1, <2>2, HoldingAfter DEF Holding, Outside
  <2>4. /\ pc'[c] = where /\ \A d \in Clients \ {c} : pc'[d] = pc[d]
    BY <2>2, GotoType
  <2>5. \A d \in Clients : ~InCommand(d)'
    BY <2>1, <2>4 DEF LockInv, InCommand
  <2>6. QED
    BY <1>n, <2>1, <2>3, <2>4, <2>5 DEF LockInv, InCommand
<1>5. ASSUME NEW c \in Clients, GTRelease(c) PROVE LockInv'
  <2>1. /\ pc[c] = "release" /\ instMutex = None /\ UNCHANGED <<hLock, server>>
    BY <1>5 DEF GTRelease, thread
  <2>2. c \in Holding /\ refCnt > 0
    BY <1>h, <2>1 DEF Holding
  <2>3. refCnt' = refCnt - 1
    BY <1>5, <2>2 DEF GTRelease
  <2>4. PICK where \in {"stop", "out"} : Goto(c, where) /\ (where = "stop" <=> refCnt = 1)
    BY <1>5 DEF GTRelease, LastReference
  <2>5. Holding' = Holding \ {c}
    BY <2>4, HoldingAfter DEF Outside
  <2>6. IsFiniteSet(Holding') /\ refCnt' = Cardinality(Holding')
    BY <1>h, <2>2, <2>3, <2>5, FS_RemoveElement
  <2>7. Holding' = {} <=> refCnt = 1
    BY <1>h, <2>3, <2>6, FS_EmptySet
  <2>8. /\ pc'[c] = where /\ \A d \in Clients \ {c} : pc'[d] = pc[d]
    BY <2>4, GotoType
  <2>9. \A d \in Clients : InCommand(d)' <=> hLock' = d
    BY <2>1, <2>4, <2>8 DEF LockInv, InCommand
  <2>10. CASE refCnt = 1
    <3>1. instMutex' = c /\ ~run'
      BY <1>5, <2>10 DEF GTRelease, LastReference
    <3>2. \A d \in Clients : pc'[d] \in {"stop", "join"} <=> instMutex' = d
      BY <1>n, <2>1, <2>4, <2>8, <2>10, <3>1 DEF LockInv
    <3>3. QED
      BY <1>n, <2>6, <2>7, <2>9, <2>10, <3>1, <3>2 DEF LockInv
  <2>11. CASE refCnt # 1
    <3>1. UNCHANGED <<instMutex, run>>
      BY <1>5, <2>11 DEF GTRelease, LastReference
    <3>2. \A d \in Clients : pc'[d] \in {"stop", "join"} <=> instMutex' = d
      BY <1>n, <2>1, <2>4, <2>8, <2>11, <3>1 DEF LockInv
    <3>3. QED
      BY <1>h, <2>1, <2>2, <2>6, <2>7, <2>9, <2>11, <3>1, <3>2 DEF LockInv
  <2>12. QED
    BY <2>10, <2>11
<1>6. ASSUME NEW c \in Clients, StopJoin(c) PROVE LockInv'
  <2>1. /\ pc[c] = "join" /\ server = "dead" /\ instMutex' = None
        /\ UNCHANGED <<refCnt, run, hLock, server>> /\ Goto(c, "out")
    BY <1>6 DEF StopJoin, ThreadGone, service, thread
  <2>2. Holding' = Holding
    BY <2>1, HoldingAfter DEF Holding, Outside
  <2>3. /\ pc'[c] = "out" /\ \A d \in Clients \ {c} : pc'[d] = pc[d]
    BY <2>1, GotoType
  <2>4. \A d \in Clients : pc'[d] \notin {"stop", "join"}
    BY <2>1, <2>3 DEF LockInv
  <2>5. QED
    BY <1>n, <2>1, <2>2, <2>3, <2>4 DEF LockInv, InCommand
<1>7. CASE Server
  <2>1. UNCHANGED <<refCnt, run, instMutex, hLock, pc>>
    BY <1>7 DEF Server, ServerCheck, ServerCount, ServerPend, ServerWake, ServerPop, ServerRun,
       ServerPost, lib, service, client
  <2>2. server # "dead" /\ (server' = "dead" => ~run)
    BY <1>7 DEF Server, ServerCheck, ServerCount, ServerPend, ServerWake, ServerPop, ServerRun,
       ServerPost
  <2>3. Holding' = Holding
    BY <2>1 DEF Holding
  <2>4. QED
    BY <2>1, <2>2, <2>3 DEF LockInv, InCommand
<1>8. CASE UNCHANGED vars
  BY <1>8 DEF vars, lib, service, client, thread, LockInv, InCommand, Holding
<1>9. QED
  BY <1>1, <1>2, <1>3, <1>4, <1>5, <1>6, <1>7, <1>8 DEF Next, Proceed

-----------------------------------------------------------------------------
(* The command under way.                                                    *)

\* Only the holder of hLock has a command.
LEMMA HolderOnly ==
  ASSUME LockInv', NEW c \in Clients, hLock' = c, CommandAt(c)'
  PROVE  ExchangeInv'
<1>1. \A d \in Clients \ {c} : CommandAt(d)'
  BY DEF LockInv, InCommand, CommandAt
<1>2. QED
  BY <1>1, Bounds DEF ExchangeInv

LEMMA NobodyHolds ==
  ASSUME LockInv', hLock' = None, Quiet'
  PROVE  ExchangeInv'
BY Bounds DEF LockInv, InCommand, CommandAt, ExchangeInv

\* A step outside commands.
LEMMA CommandsKept ==
  ASSUME BaseType, LockInv', ExchangeInv, UNCHANGED <<hLock, queue, semRes, served, thread>>,
         \A d \in Clients : pc'[d] \in Inside => pc'[d] = pc[d]
  PROVE  ExchangeInv'
<1>1. CASE hLock' = None
  BY <1>1, NobodyHolds DEF ExchangeInv, Quiet, Idle, thread
<1>2. CASE hLock' # None
  <2>1. PICK c \in Clients : hLock' = c
    BY <1>2 DEF BaseType
  <2>2. pc'[c] = pc[c] /\ CommandAt(c)
    BY <2>1 DEF LockInv, InCommand, Inside, ExchangeInv
  <2>3. CommandAt(c)'
    BY <2>2 DEF CommandAt, UnderWay, Queued, Running, Ran, Answered, Quiet, Idle, thread
  <2>4. QED
    BY <2>1, <2>3, HolderOnly
<1>3. QED
  BY <1>1, <1>2

LEMMA ExchangeInit == Init => ExchangeInv
BY Bounds DEF Init, ExchangeInv, CommandAt, Quiet, Idle

LEMMA ExchangeStep == BaseType /\ LockInv /\ LockInv' /\ ExchangeInv /\ ~Spurious /\ [Next]_vars => ExchangeInv'
<1> SUFFICES ASSUME BaseType, LockInv, LockInv', ExchangeInv, ~Spurious, [Next]_vars
             PROVE  ExchangeInv'
  OBVIOUS
<1>n. NewSem.val = 0 /\ ~NewSem.sig
  BY DEF NewSem
<1>1. ASSUME NEW c \in Clients, NEW tool \in Tools, GTOpen(c, tool) PROVE ExchangeInv'
  <2>1. /\ pc'[c] = "call" /\ \A d \in Clients \ {c} : pc'[d] = pc[d]
    BY <1>1, GotoType DEF GTOpen
  <2>2. CASE refCnt = 0
    <3>1. Holding = {}
      BY <2>2, FS_EmptySet DEF LockInv
    <3>2. \A d \in Clients : ~InCommand(d)
      BY <3>1 DEF Holding, InCommand
    <3>3. hLock = None
      BY <3>2 DEF LockInv, BaseType
    <3>4. Quiet
      BY <3>3 DEF ExchangeInv
    <3>5. hLock' = None /\ queue' = <<>> /\ semRes' = NewSem
      BY <1>1, <2>2, <3>3, <3>4 DEF GTOpen, ServiceInit, Quiet
    <3>6. Idle'
      BY <1>1, <2>2, <3>4 DEF GTOpen, ServiceStart, thread, Quiet, Idle
    <3>7. QED
      BY <3>5, <3>6, NobodyHolds DEF Quiet
  <2>3. CASE refCnt # 0
    BY <1>1, <2>1, <2>3, CommandsKept DEF GTOpen, service, Inside
  <2>4. QED
    BY <2>2, <2>3
<1>2. ASSUME NEW c \in Clients, CommandBegin(c) PROVE ExchangeInv'
  <2>1. run /\ hLock = None
    BY <1>2 DEF CommandBegin, LockFree, LockInv, Holding
  <2>2. /\ hLock' = c /\ served' = [served EXCEPT ![c] = FALSE] /\ Goto(c, "push")
        /\ UNCHANGED <<queue, semRes, server>>
    BY <1>2, <2>1 DEF CommandBegin, thread
  <2>3. pc'[c] = "push" /\ ~served'[c]
    BY <2>2, GotoType DEF BaseType
  <2>4. CommandAt(c)'
    BY <2>1, <2>2, <2>3 DEF CommandAt, ExchangeInv, Quiet, Idle
  <2>5. QED
    BY <2>2, <2>4, HolderOnly
<1>3. ASSUME NEW c \in Clients, CommandPush(c) PROVE ExchangeInv'
  <2>1. /\ Quiet /\ ~served[c] /\ hLock' = c
        /\ UNCHANGED <<semRes, served, thread>>
    BY <1>3 DEF CommandPush, ExchangeInv, CommandAt, LockInv, InCommand
  <2>2. pc'[c] = "post"
    BY <1>3, GotoType DEF CommandPush
  <2>3. queue' = <<c>>
    BY <1>3, <2>1, Bounds DEF CommandPush, Quiet
  <2>4. CommandAt(c)'
    BY <2>1, <2>2, <2>3 DEF CommandAt, UnderWay, Queued, Quiet, Idle, thread
  <2>5. QED
    BY <2>1, <2>4, HolderOnly
<1>4. ASSUME NEW c \in Clients, CommandPost(c) PROVE ExchangeInv'
  <2>1. /\ UnderWay(c) /\ pc[c] = "post" /\ hLock' = c
        /\ UNCHANGED <<queue, semRes, served, thread>>
    BY <1>4 DEF CommandPost, ExchangeInv, CommandAt, LockInv, InCommand
  <2>2. pc'[c] = "pend"
    BY <1>4, GotoType DEF CommandPost
  <2>3. CommandAt(c)'
    BY <2>1, <2>2 DEF CommandAt, UnderWay, Queued, Running, Ran, Answered, Idle, thread
  <2>4. QED
    BY <2>1, <2>3, HolderOnly
<1>5. ASSUME NEW c \in Clients, CommandPend(c) PROVE ExchangeInv'
  <2>1. /\ UnderWay(c) /\ pc[c] = "pend" /\ hLock' = c
        /\ UNCHANGED <<queue, served, thread>>
    BY <1>5 DEF CommandPend, ExchangeInv, CommandAt, LockInv, InCommand
  <2>2. CASE semRes.val = 0
    <3>1. pc'[c] = "wait" /\ semRes' = semRes
      BY <1>5, <2>2, GotoType DEF CommandPend
    <3>2. ~Answered(c)
      BY <2>2 DEF Answered
    <3>3. CommandAt(c)'
      BY <2>1, <3>1, <3>2 DEF CommandAt, UnderWay, Queued, Running, Ran, Idle, thread
    <3>4. QED
      BY <2>1, <3>3, HolderOnly
  <2>3. CASE semRes.val # 0
    <3>1. pc'[c] = "reply" /\ semRes' = Pended(semRes)
      BY <1>5, <2>3, GotoType DEF CommandPend
    <3>2. Answered(c)
      BY <1>n, <2>1, <2>3 DEF UnderWay, Queued, Running, Ran
    <3>3. semRes' = NewSem
      <4>1. semRes.val = 1 /\ semRes.sig = FALSE
        BY <2>1, <3>2 DEF Answered
      <4>2. semRes' = [val |-> semRes.val - 1, sig |-> semRes.sig]
        BY <3>1, <4>1, SemaphoreTypes DEF BaseType
      <4>3. semRes.val - 1 = 0
        BY <4>1
      <4>4. QED
        BY <4>1, <4>2, <4>3, Zenon DEF NewSem
    <3>4. CommandAt(c)'
      BY <2>1, <3>1, <3>2, <3>3 DEF CommandAt, Answered, Quiet, Idle, thread
    <3>5. QED
      BY <2>1, <3>4, HolderOnly
  <2>4. QED
    BY <2>2, <2>3
<1>6. ASSUME NEW c \in Clients, CommandWake(c), ~Spurious PROVE ExchangeInv'
  <2>1. /\ UnderWay(c) /\ pc[c] = "wait" /\ hLock' = c /\ semRes.sig
        /\ semRes' = Woken(semRes) /\ UNCHANGED <<queue, served, thread>>
    BY <1>6 DEF CommandWake, MayWake, ExchangeInv, CommandAt, LockInv, InCommand
  <2>2. pc'[c] = "reply"
    BY <1>6, GotoType DEF CommandWake
  <2>3. Answered(c)
    BY <1>n, <2>1 DEF UnderWay, Queued, Running, Ran
  <2>4. semRes' = NewSem
    BY <2>1, <2>3 DEF Answered, Woken, NewSem
  <2>5. CommandAt(c)'
    BY <2>1, <2>2, <2>3, <2>4 DEF CommandAt, Answered, Quiet, Idle, thread
  <2>6. QED
    BY <2>1, <2>5, HolderOnly
<1>7. ASSUME NEW c \in Clients, CommandEnd(c) PROVE ExchangeInv'
  <2>1. Quiet /\ hLock' = None /\ UNCHANGED <<queue, semRes, thread>>
    BY <1>7 DEF CommandEnd, ExchangeInv, CommandAt
  <2>2. QED
    BY <2>1, NobodyHolds DEF Quiet, Idle, thread
<1>8. ASSUME NEW c \in Clients,
             GTDo(c) \/ GTClose(c) \/ GTRelease(c) \/ StopPost(c) \/ StopJoin(c)
      PROVE  ExchangeInv'
  <2>1. UNCHANGED <<hLock, queue, semRes, served, thread>>
    BY <1>8 DEF GTDo, GTClose, GTRelease, StopPost, StopJoin, service
  <2>2. \E where \in ClientPCs \ Inside : Goto(c, where)
    BY <1>8 DEF GTDo, GTClose, GTRelease, StopPost, StopJoin, Inside
  <2>3. QED
    BY <2>1, <2>2, GotoType, CommandsKept
<1>9. CASE Server
  <2>1. semRes' = semRes \/ ServerPost
    BY <1>9 DEF Server, ServerCheck, ServerCount, ServerPend, ServerWake, ServerPop, ServerRun,
       service, client
  <2>2. UNCHANGED <<hLock, pc>>
    BY <1>9 DEF Server, ServerCheck, ServerCount, ServerPend, ServerWake, ServerPop, ServerRun,
       ServerPost, service, client
  <2>3. CASE hLock = None
    <3>1. Quiet
      BY <2>3 DEF ExchangeInv
    <3>2. Quiet'
      BY <1>9, <2>1, <3>1 DEF Quiet, Idle, Server, ServerCheck, ServerCount, ServerPend,
         ServerWake, ServerPop, ServerRun, ServerPost, service
    <3>3. QED
      BY <2>2, <2>3, <3>2, NobodyHolds
  <2>4. ASSUME NEW c \in Clients, hLock = c PROVE ExchangeInv'
    <3>1. CommandAt(c) /\ pc'[c] = pc[c] /\ hLock' = c /\ pc[c] \in Inside
      BY <2>2, <2>4 DEF ExchangeInv, LockInv, InCommand, Inside
    <3>2. CASE ServerCheck \/ ServerCount \/ ServerPend \/ ServerWake
      <4>1. UNCHANGED <<queue, semRes, served>> /\ Idle /\ Idle'
        BY <3>2 DEF ServerCheck, ServerCount, ServerPend, ServerWake, service, Idle
      <4>2. CommandAt(c)'
        BY <3>1, <4>1 DEF CommandAt, UnderWay, Queued, Running, Ran, Answered, Quiet, Idle
      <4>3. QED
        BY <3>1, <4>2, HolderOnly
    <3>3. CASE ServerPop
      <4>1. UNCHANGED <<semRes, served>> /\ server = "pop"
        BY <3>3 DEF ServerPop
      <4>2. CASE queue = <<>>
        <5>1. UNCHANGED queue /\ Idle /\ Idle'
          BY <3>3, <4>2 DEF ServerPop, Idle
        <5>2. CommandAt(c)'
          BY <3>1, <4>1, <5>1 DEF CommandAt, UnderWay, Queued, Running, Ran, Answered, Quiet,
             Idle
        <5>3. QED
          BY <3>1, <5>2, HolderOnly
      <4>3. CASE queue # <<>>
        <5>1. Queued(c) /\ pc[c] \in {"post", "pend", "wait"}
          BY <3>1, <4>3 DEF CommandAt, UnderWay, Queued, Running, Ran, Answered, Quiet, Inside
        <5>2. cur' = c /\ queue' = <<>> /\ server' = "run"
          BY <3>3, <4>3, <5>1 DEF ServerPop, Popped, Queued
        <5>3. CommandAt(c)'
          BY <3>1, <4>1, <5>1, <5>2 DEF CommandAt, UnderWay, Queued, Running
        <5>4. QED
          BY <3>1, <5>3, HolderOnly
      <4>4. QED
        BY <4>2, <4>3
    <3>4. CASE ServerRun
      <4>1. Running(c) /\ pc[c] \in {"post", "pend", "wait"}
        BY <3>1, <3>4 DEF ServerRun, CommandAt, UnderWay, Queued, Running, Ran, Answered, Quiet,
           Idle, Inside
      <4>2. UNCHANGED <<queue, semRes>> /\ served'[c] /\ server' = "post"
        BY <3>4, <4>1 DEF ServerRun, Running, service, BaseType
      <4>3. CommandAt(c)'
        BY <3>1, <4>1, <4>2 DEF CommandAt, UnderWay, Running, Ran
      <4>4. QED
        BY <3>1, <4>3, HolderOnly
    <3>5. CASE ServerPost
      <4>1. Ran(c) /\ pc[c] \in {"post", "pend", "wait"}
        BY <3>1, <3>5 DEF ServerPost, CommandAt, UnderWay, Queued, Running, Ran, Answered, Quiet,
           Idle, Inside
      <4>2. (\E d \in Clients : pc[d] = "wait") <=> pc[c] = "wait"
        BY <2>4 DEF LockInv, InCommand
      <4>3. semRes' = [val |-> 1, sig |-> pc[c] = "wait"]
        BY <3>5, <4>1, <4>2 DEF ServerPost, Ran, Posted, NewSem
      <4>4. UNCHANGED <<queue, served>> /\ Idle'
        BY <3>5 DEF ServerPost, Idle
      <4>5. CommandAt(c)'
        BY <3>1, <4>1, <4>3, <4>4 DEF CommandAt, UnderWay, Ran, Answered
      <4>6. QED
        BY <3>1, <4>5, HolderOnly
    <3>6. QED
      BY <1>9, <3>2, <3>3, <3>4, <3>5 DEF Server
  <2>5. QED
    BY <2>3, <2>4 DEF BaseType
<1>10. CASE UNCHANGED vars
  BY <1>10, CommandsKept DEF vars, service, client
<1>11. QED
  BY <1>1, <1>2, <1>3, <1>4, <1>5, <1>6, <1>7, <1>8, <1>9, <1>10 DEF Next, Proceed

-----------------------------------------------------------------------------
(* The posts of hSemCmd.                                                     *)

\* The queue holds the one command under way, or nothing.
LEMMA QueueShort ==
  ASSUME BaseType, LockInv, ExchangeInv, queue # <<>>
  PROVE  \E c \in Clients : hLock = c /\ Queued(c) /\ pc[c] \in {"post", "pend", "wait"}
<1>1. hLock # None
  BY DEF ExchangeInv, Quiet
<1>2. PICK c \in Clients : hLock = c
  BY <1>1 DEF BaseType
<1>3. InCommand(c) /\ CommandAt(c)
  BY <1>2 DEF LockInv, ExchangeInv
<1>4. QED
  BY <1>2, <1>3 DEF InCommand, CommandAt, UnderWay, Quiet, Running, Ran, Answered

LEMMA TokensKept ==
  ASSUME TokenInv, UNCHANGED <<semCmd, queue, run, server>>,
         \A d \in Clients : /\ pc'[d] = "post" <=> pc[d] = "post"
                            /\ pc'[d] = "stop" <=> pc[d] = "stop"
  PROVE  TokenInv'
<1>1. (\A d \in Clients : pc'[d] # "post") <=> \A d \in Clients : pc[d] # "post"
  OBVIOUS
<1>2. (\E d \in Clients : pc'[d] = "stop") <=> \E d \in Clients : pc[d] = "stop"
  OBVIOUS
<1>3. QED
  BY <1>1, <1>2 DEF TokenInv

LEMMA TokenInit == Init => TokenInv
<1>1. NewSem.val = 0 /\ ~NewSem.sig
  BY DEF NewSem
<1>2. QED
  BY <1>1 DEF Init, TokenInv

LEMMA TokenStep ==
  BaseType /\ LockInv /\ ExchangeInv /\ TokenInv /\ ~Spurious /\ [Next]_vars => TokenInv'
<1> SUFFICES ASSUME BaseType, LockInv, ExchangeInv, TokenInv, ~Spurious, [Next]_vars
             PROVE  TokenInv'
  OBVIOUS
<1>s. semCmd \in SemType
  BY DEF BaseType
<1>p. ASSUME PostCmd
      PROVE  /\ semCmd'.val \in Nat /\ semCmd'.val > 0
             /\ semCmd'.sig <=> semCmd.sig \/ server = "wait"
  <2>1. semCmd'.val = semCmd.val + 1
    BY <1>p DEF PostCmd, Posted
  <2>2. semCmd'.sig = (semCmd.sig \/ server = "wait")
    BY <1>p, Zenon DEF PostCmd, Posted
  <2>3. semCmd'.sig <=> semCmd.sig \/ server = "wait"
    BY <2>2, Zenon
  <2>4. QED
    BY <2>1, <2>3 DEF TokenInv
<1>1. ASSUME NEW c \in Clients, NEW tool \in Tools, GTOpen(c, tool) PROVE TokenInv'
  <2>1. pc[c] = "out" /\ pc'[c] = "call" /\ \A d \in Clients \ {c} : pc'[d] = pc[d]
    BY <1>1, GotoType DEF GTOpen
  <2>2. CASE refCnt = 0
    <3>1. ~run /\ server = "dead" /\ queue = <<>>
      <4>1. Holding = {}
        BY <2>2, FS_EmptySet DEF LockInv
      <4>2. ~run /\ server = "dead"
        BY <1>1, <4>1 DEF GTOpen, LockInv
      <4>3. \A d \in Clients : ~InCommand(d)
        BY <4>1 DEF Holding, InCommand
      <4>4. hLock = None
        BY <4>3 DEF LockInv, BaseType
      <4>5. QED
        BY <4>2, <4>4 DEF ExchangeInv, Quiet
    <3>2. queue' = <<>> /\ semCmd' \in {NewSem, semCmd}
      BY <1>1, <2>2, <3>1 DEF GTOpen, ServiceInit
    <3>3. server' = "check"
      BY <1>1, <2>2, <3>1 DEF GTOpen, ServiceStart
    <3>4. semCmd'.val \in Nat /\ ~semCmd'.sig
      BY <3>1, <3>2 DEF TokenInv, NewSem
    <3>5. QED
      BY <3>2, <3>3, <3>4 DEF TokenInv
  <2>3. CASE refCnt # 0
    BY <1>1, <2>1, <2>3, TokensKept DEF GTOpen, service, thread
  <2>4. QED
    BY <2>2, <2>3
<1>2. ASSUME NEW c \in Clients,
             \/ CommandBegin(c) \/ CommandPend(c) \/ CommandWake(c) \/ CommandEnd(c)
             \/ GTDo(c) \/ GTClose(c) \/ StopJoin(c)
      PROVE  TokenInv'
  <2>1. UNCHANGED <<semCmd, queue, run, server>>
    BY <1>2 DEF CommandBegin, CommandPend, CommandWake, CommandEnd, GTDo, GTClose, StopJoin,
       service, thread
  <2>2. pc[c] \notin {"post", "stop"} /\ \E where \in ClientPCs \ {"post", "stop"} : Goto(c, where)
    BY <1>2, AfterType DEF CommandBegin, CommandPend, CommandWake, CommandEnd, GTDo, GTClose,
       StopJoin
  <2>3. QED
    BY <2>1, <2>2, GotoType, TokensKept
<1>3. ASSUME NEW c \in Clients, CommandPush(c) PROVE TokenInv'
  <2>1. /\ pc[c] = "push" /\ pc'[c] = "post" /\ \A d \in Clients \ {c} : pc'[d] = pc[d]
        /\ UNCHANGED <<semCmd, run, server>>
    BY <1>3, GotoType DEF CommandPush, thread
  <2>2. QED
    BY <2>1 DEF TokenInv
<1>4. ASSUME NEW c \in Clients, CommandPost(c) \/ StopPost(c) PROVE TokenInv'
  <2>1. PostCmd /\ UNCHANGED <<run, queue, server>>
    BY <1>4 DEF CommandPost, StopPost, thread
  <2>2. QED
    BY <1>p, <2>1 DEF TokenInv
<1>5. ASSUME NEW c \in Clients, GTRelease(c) PROVE TokenInv'
  <2>1. UNCHANGED <<semCmd, queue, server>> /\ pc[c] = "release"
    BY <1>5 DEF GTRelease, thread
  <2>2. CASE LastReference
    <3>1. pc'[c] = "stop" /\ \A d \in Clients \ {c} : pc'[d] = pc[d]
      BY <1>5, <2>2, GotoType DEF GTRelease
    <3>2. QED
      BY <2>1, <3>1 DEF TokenInv
  <2>3. CASE ~LastReference
    <3>1. pc'[c] = "out" /\ (\A d \in Clients \ {c} : pc'[d] = pc[d]) /\ run' = run
      BY <1>5, <2>3, GotoType DEF GTRelease
    <3>2. QED
      BY <2>1, <3>1, TokensKept
  <2>4. QED
    BY <2>2, <2>3
<1>6. CASE ServerCheck
  BY <1>6 DEF ServerCheck, service, client, TokenInv
<1>7. CASE ServerCount
  BY <1>7 DEF ServerCount, service, client, TokenInv
<1>8. CASE ServerPend
  <2>1. server = "pend" /\ ~semCmd.sig /\ UNCHANGED <<run, queue, pc>>
    BY <1>8 DEF ServerPend, client, TokenInv
  <2>2. CASE semCmd.val = 0
    BY <1>8, <2>1, <2>2 DEF ServerPend, TokenInv
  <2>3. CASE semCmd.val # 0
    <3>1. server' = "pop" /\ semCmd' = Pended(semCmd)
      BY <1>8, <2>3 DEF ServerPend
    <3>2. semCmd'.val = semCmd.val - 1 /\ semCmd'.sig = semCmd.sig
      BY <1>s, <3>1 DEF Pended, SemType, TokenInv
    <3>3. QED
      BY <2>1, <2>3, <3>1, <3>2 DEF TokenInv
  <2>4. QED
    BY <2>2, <2>3
<1>9. CASE ServerWake
  <2>1. semCmd.sig /\ semCmd' = Woken(semCmd) /\ server' = "pop" /\ UNCHANGED <<run, queue, pc>>
    BY <1>9 DEF ServerWake, MayWake, client
  <2>2. semCmd'.val = semCmd.val - 1 /\ ~semCmd'.sig
    BY <1>s, <2>1, SemaphoreTypes
  <2>3. QED
    BY <2>1, <2>2 DEF TokenInv
<1>10. CASE ServerPop
  <2>1. queue' = <<>>
    BY <1>10, QueueShort DEF ServerPop, Popped, Queued
  <2>2. server = "pop" /\ server' \in {"check", "run"} /\ UNCHANGED <<run, semCmd, pc>>
    BY <1>10 DEF ServerPop, client
  <2>3. QED
    BY <2>1, <2>2 DEF TokenInv
<1>11. CASE ServerRun \/ ServerPost
  BY <1>11 DEF ServerRun, ServerPost, service, client, TokenInv
<1>12. CASE UNCHANGED vars
  BY <1>12 DEF vars, service, client, thread, TokenInv
<1>13. QED
  BY <1>1, <1>2, <1>3, <1>4, <1>5, <1>6, <1>7, <1>8, <1>9, <1>10, <1>11, <1>12
     DEF Next, Proceed, Server

LEMMA AlwaysIInv == ~Spurious => (Spec => []IInv)
<1> SUFFICES ASSUME ~Spurious PROVE Spec => []IInv
  OBVIOUS
<1>1. Init => IInv
  BY TypeInit, LockStart, ExchangeInit, TokenInit DEF IInv
<1>2. IInv /\ [Next]_vars => IInv'
  BY TypeStep, LockStep, ExchangeStep, TokenStep DEF IInv
<1>3. QED
  BY <1>1, <1>2, PTL DEF Spec

-----------------------------------------------------------------------------
(* The properties of the service, where a condition variable wakes its       *)
(* waiter only when it was signalled.                                        *)

(* Semaphores never go negative and the queue never holds more than one      *)
(* command, so that NX_QueuePush, whose result is ignored, never fails.      *)
THEOREM GTTypeCorrect == ~Spurious => (Spec => []TypeOK)
<1>1. IInv => TypeOK
  <2> SUFFICES ASSUME IInv PROVE TypeOK
    OBVIOUS
  <2>1. queue = <<>> \/ \E c \in Clients : queue = <<c>>
    BY QueueShort DEF IInv, Queued
  <2>2. Len(queue) <= 1
    <3>1. CASE queue = <<>>
      BY <3>1
    <3>2. ASSUME NEW c \in Clients, queue = <<c>> PROVE Len(queue) <= 1
      BY <3>2
    <3>3. QED
      BY <2>1, <3>1, <3>2
  <2>3. semRes.val \in {0, 1}
    <3>1. CASE hLock = None
      BY <3>1 DEF IInv, ExchangeInv, Quiet, NewSem
    <3>2. CASE hLock # None
      <4>1. PICK c \in Clients : hLock = c
        BY <3>2 DEF IInv, BaseType
      <4>2. InCommand(c) /\ CommandAt(c)
        BY <4>1 DEF IInv, LockInv, ExchangeInv
      <4>3. semRes = NewSem \/ Answered(c)
        BY <4>2 DEF InCommand, CommandAt, UnderWay, Quiet, Queued, Running, Ran
      <4>4. QED
        BY <4>3 DEF NewSem, Answered
    <3>3. QED
      BY <3>1, <3>2
  <2>4. QED
    BY <2>2, <2>3 DEF IInv, BaseType, TokenInv, TypeOK
<1>2. QED
  BY <1>1, AlwaysIInv, PTL

(* No caller of NX_GTServiceCommand is past the pend on hSemResult before    *)
(* its own command was run.                                                  *)
THEOREM AlwaysAnsweredFirst == ~Spurious => (Spec => []AnsweredBeforeReply)
<1>1. IInv => AnsweredBeforeReply
  BY DEF IInv, ExchangeInv, CommandAt, AnsweredBeforeReply
<1>2. QED
  BY <1>1, AlwaysIInv, PTL

(* The service thread only sees records of callers that wait for it, each    *)
(* once, and every answer is taken by the caller it is for: ExchangeInv      *)
(* leaves at most one command, in one of four stages.                        *)
THEOREM AlwaysOneAnswer == ~Spurious => (Spec => []OneCommandOneAnswer)
<1>1. IInv => NoDanglingCommand
  <2> SUFFICES ASSUME IInv,
                      NEW c \in {queue[i] : i \in 1 .. Len(queue)}
                               \cup (IF server = "run" THEN {cur} ELSE {})
               PROVE  InCommand(c) /\ ~served[c]
    BY DEF NoDanglingCommand
  <2>1. CASE server = "run"
    <3>1. hLock # None
      BY <2>1 DEF IInv, ExchangeInv, Quiet, Idle
    <3>2. PICK d \in Clients : hLock = d
      BY <3>1 DEF IInv, BaseType
    <3>3. InCommand(d) /\ CommandAt(d)
      BY <3>2 DEF IInv, LockInv, ExchangeInv
    <3>4. Running(d)
      BY <2>1, <3>3 DEF InCommand, CommandAt, UnderWay, Quiet, Queued, Ran, Answered, Idle
    <3>5. c = d
      BY <2>1, <3>4 DEF Running
    <3>6. QED
      BY <3>3, <3>4, <3>5 DEF Running
  <2>2. CASE server # "run"
    <3>1. queue # <<>>
      BY <2>2
    <3>2. PICK d \in Clients : hLock = d /\ Queued(d)
      BY <3>1, QueueShort DEF IInv
    <3>3. c = d
      BY <2>2, <3>2 DEF Queued
    <3>4. QED
      BY <3>2, <3>3 DEF IInv, LockInv, Queued
  <2>3. QED
    BY <2>1, <2>2
<1>2. IInv => AnswersTaken
  <2> SUFFICES ASSUME IInv PROVE AnswersTaken
    OBVIOUS
  <2> DEFINE Waiting == {c \in Clients : InCommand(c) /\ pc[c] # "reply" /\ served[c]}
  <2>1. NewSem.val = 0
    BY DEF NewSem
  <2>2. CASE hLock = None
    <3>1. Waiting = {}
      BY <2>2, Bounds DEF IInv, LockInv
    <3>2. semRes.val = 0 /\ server # "post"
      BY <2>1, <2>2 DEF IInv, ExchangeInv, Quiet, Idle
    <3>3. QED
      BY <3>1, <3>2, FS_EmptySet DEF AnswersTaken
  <2>3. ASSUME NEW c \in Clients, hLock = c PROVE AnswersTaken
    <3>1. InCommand(c) /\ CommandAt(c) /\ \A d \in Clients \ {c} : ~InCommand(d)
      BY <2>3 DEF IInv, LockInv, ExchangeInv
    <3>2. Waiting = IF pc[c] # "reply" /\ served[c] THEN {c} ELSE {}
      BY <3>1
    <3>3. CASE Quiet
      <4>1. semRes.val = 0 /\ server # "post" /\ ~(pc[c] # "reply" /\ served[c])
        BY <2>1, <3>1, <3>3 DEF Quiet, Idle, InCommand, CommandAt, UnderWay, Queued, Running, Ran,
           Answered
      <4>2. QED
        BY <3>2, <4>1, FS_EmptySet DEF AnswersTaken
    <3>4. CASE (Queued(c) \/ Running(c)) /\ ~served[c]
      <4>1. semRes.val = 0 /\ server # "post"
        BY <2>1, <3>4 DEF Queued, Running, Idle
      <4>2. QED
        BY <3>2, <3>4, <4>1, FS_EmptySet DEF AnswersTaken
    <3>5. CASE Ran(c)
      BY <2>1, <3>5 DEF Ran, AnswersTaken
    <3>6. CASE Answered(c) /\ pc[c] # "reply"
      <4>1. semRes.val = 1 /\ server # "post" /\ served[c]
        BY <3>6 DEF Answered, Idle
      <4>2. QED
        BY <3>2, <3>6, <4>1, FS_Singleton DEF AnswersTaken
    <3>7. QED
      BY <3>1, <3>3, <3>4, <3>5, <3>6 DEF InCommand, CommandAt, UnderWay, Queued, Running
  <2>4. QED
    BY <2>2, <2>3 DEF IInv, BaseType
<1>3. QED
  BY <1>1, <1>2, AlwaysIInv, PTL DEF OneCommandOneAnswer

(* NX_SemaporePend in the service thread does not sleep through a command or *)
(* a stop: its post is still there, or still to come.                        *)
THEOREM WakeupNeverLost == ~Spurious => (Spec => []NoLostWakeup)
<1>1. IInv => NoLostWakeup
  BY DEF IInv, TokenInv, NoLostWakeup
<1>2. QED
  BY <1>1, AlwaysIInv, PTL

(* gstInstRefCnt counts the instances in use, and bThreadRun is cleared only *)
(* when there is none and nothing is queued or being run.                    *)
THEOREM NeverStoppedUnderUse == ~Spurious => (Spec => []NoStopUnderUse)
<1>1. IInv => NoStopUnderUse
  <2> SUFFICES ASSUME IInv PROVE NoStopUnderUse
    OBVIOUS
  <2>1. ASSUME ~run PROVE queue = <<>> /\ server # "run" /\ server # "post"
    <3>1. \A c \in Clients : ~InCommand(c)
      BY <2>1 DEF IInv, LockInv, Holding, InCommand
    <3>2. hLock = None
      BY <3>1 DEF IInv, LockInv, BaseType
    <3>3. QED
      BY <3>2 DEF IInv, ExchangeInv, Quiet, Idle
  <2>2. QED
    BY <2>1 DEF IInv, LockInv, NoStopUnderUse
<1>2. QED
  BY <1>1, AlwaysIInv, PTL

(* NX_GTServiceStart creates a thread only where there is none.              *)
THEOREM RestartsAfterExit == ~Spurious => (Spec => RestartAfterExit)
<1> SUFFICES ASSUME ~Spurious PROVE Spec => RestartAfterExit
  OBVIOUS
<1>1. IInv /\ [Next]_vars => [~run /\ run' => server = "dead"]_vars
  <2> SUFFICES ASSUME IInv, [Next]_vars, ~run, run' PROVE server = "dead" \/ UNCHANGED vars
    OBVIOUS
  <2>1. ASSUME NEW c \in Clients, NEW tool \in Tools, GTOpen(c, tool) PROVE server = "dead"
    BY <2>1 DEF GTOpen, IInv, LockInv
  <2>2. ASSUME NEW c \in Clients, GTRelease(c) PROVE FALSE
    BY <2>2 DEF GTRelease
  <2>3. ASSUME NEW c \in Clients, CommandBegin(c) \/ Proceed(c) \/ GTDo(c) \/ GTClose(c)
        PROVE  FALSE
    BY <2>3 DEF CommandBegin, Proceed, CommandPush, CommandPost, CommandPend, CommandWake,
       CommandEnd, StopPost, StopJoin, GTDo, GTClose, service
  <2>4. CASE Server
    BY <2>4 DEF Server, ServerCheck, ServerCount, ServerPend, ServerWake, ServerPop, ServerRun,
       ServerPost, service
  <2>5. QED
    BY <2>1, <2>2, <2>3, <2>4 DEF Next
<1>2. QED
  BY <1>1, AlwaysIInv, PTL DEF Spec, RestartAfterExit

-----------------------------------------------------------------------------
(* The service implements GTRequests.                                        *)

\* What the requests are, as far as the steps of the service change them.
LEMMA RequestKept ==
  ASSUME \A d \in Clients : InCommand(d)' <=> InCommand(d),
         \A d \in Clients : InCommand(d) => (served'[d] <=> served[d])
  PROVE  request' = request
BY DEF request

LEMMA RequestMoves ==
  ASSUME NEW c \in Clients, NEW to \in {"none", "asked", "done"},
         \A d \in Clients \ {c} : InCommand(d)' <=> InCommand(d),
         \A d \in Clients \ {c} : InCommand(d) => (served'[d] <=> served[d]),
         to = IF ~InCommand(c)' THEN "none" ELSE IF served'[c] THEN "done" ELSE "asked"
  PROVE  request' = [request EXCEPT ![c] = to]
<1>1. \A d \in Clients : request'[d] = [request EXCEPT ![c] = to][d]
  BY DEF request
<1>2. QED
  BY <1>1 DEF request

LEMMA RequestStep == ~Spurious /\ IInv /\ IInv' /\ [Next]_vars => [Requests!Next]_request
<1> SUFFICES ASSUME ~Spurious, IInv, IInv', [Next]_vars
             PROVE  Requests!Next \/ request' = request
  OBVIOUS
<1>t. BaseType
  BY DEF IInv
<1>1. ASSUME NEW c \in Clients, NEW tool \in Tools, GTOpen(c, tool) PROVE request' = request
  <2>1. pc[c] = "out" /\ pc'[c] = "call" /\ served' = served
        /\ \A d \in Clients \ {c} : pc'[d] = pc[d]
    BY <1>1, <1>t, GotoType DEF GTOpen
  <2>2. \A d \in Clients : InCommand(d)' <=> InCommand(d)
    BY <2>1 DEF InCommand
  <2>3. QED
    BY <2>1, <2>2, RequestKept
<1>2. ASSUME NEW c \in Clients, CommandBegin(c) PROVE Requests!Ask(c)
  <2>1. run /\ hLock = None
    BY <1>2 DEF CommandBegin, LockFree, IInv, LockInv, Holding
  <2>2. served' = [served EXCEPT ![c] = FALSE] /\ Goto(c, "push")
    BY <1>2, <2>1 DEF CommandBegin
  <2>3. pc'[c] = "push" /\ \A d \in Clients \ {c} : pc'[d] = pc[d]
    BY <1>t, <2>2, GotoType
  <2>4. ~served'[c] /\ \A d \in Clients \ {c} : served'[d] = served[d]
    BY <1>t, <2>2 DEF BaseType
  <2>5. \A d \in Clients : ~InCommand(d)
    BY <2>1, Bounds DEF IInv, LockInv
  <2>6. \A d \in Clients : request[d] = "none"
    BY <2>5 DEF request
  <2>7. request' = [request EXCEPT ![c] = "asked"]
    <3>1. InCommand(c)' /\ \A d \in Clients \ {c} : InCommand(d)' <=> InCommand(d)
      BY <2>3 DEF InCommand
    <3>2. QED
      BY <2>4, <2>5, <3>1, RequestMoves
  <2>8. QED
    BY <2>6, <2>7 DEF Requests!Ask, Requests!Alone
<1>3. ASSUME NEW c \in Clients,
             \/ CommandPush(c) \/ CommandPost(c) \/ CommandPend(c) \/ CommandWake(c)
             \/ GTDo(c) \/ GTClose(c) \/ GTRelease(c) \/ StopPost(c) \/ StopJoin(c)
      PROVE  request' = request
  <2>1. served' = served
    BY <1>3 DEF CommandPush, CommandPost, CommandPend, CommandWake, GTDo, GTClose, GTRelease,
       StopPost, StopJoin
  <2>2. \/ pc[c] \in Inside /\ \E where \in Inside : Goto(c, where)
        \/ pc[c] \notin Inside /\ \E where \in ClientPCs \ Inside : Goto(c, where)
    BY <1>3 DEF CommandPush, CommandPost, CommandPend, CommandWake, GTDo, GTClose, GTRelease,
       StopPost, StopJoin, Inside
  <2>3. \A d \in Clients : InCommand(d)' <=> InCommand(d)
    BY <1>t, <2>2, GotoType DEF InCommand, Inside
  <2>4. QED
    BY <2>1, <2>3, RequestKept
<1>4. ASSUME NEW c \in Clients, CommandEnd(c) PROVE Requests!Answer(c)
  <2>1. pc[c] = "reply" /\ served[c] /\ served' = served
    BY <1>4 DEF CommandEnd, IInv, ExchangeInv, CommandAt
  <2>2. pc'[c] \notin Inside /\ \A d \in Clients \ {c} : pc'[d] = pc[d]
    BY <1>4, <1>t, GotoType, AfterType DEF CommandEnd, Inside
  <2>3. request[c] = "done"
    BY <2>1 DEF request, InCommand
  <2>4. request' = [request EXCEPT ![c] = "none"]
    <3>1. ~InCommand(c)' /\ \A d \in Clients \ {c} : InCommand(d)' <=> InCommand(d)
      BY <2>2 DEF InCommand, Inside
    <3>2. QED
      BY <2>1, <3>1, RequestMoves
  <2>5. QED
    BY <2>3, <2>4 DEF Requests!Answer
<1>5. CASE ServerRun
  <2>1. hLock # None
    BY <1>5 DEF ServerRun, IInv, ExchangeInv, Quiet, Idle
  <2>2. PICK c \in Clients : hLock = c
    BY <1>t, <2>1 DEF BaseType
  <2>3. InCommand(c) /\ Running(c)
    BY <1>5, <2>2 DEF ServerRun, IInv, LockInv, ExchangeInv, InCommand, CommandAt, UnderWay,
       Quiet, Queued, Ran, Answered, Idle
  <2>4. served' = [served EXCEPT ![c] = TRUE] /\ UNCHANGED pc
    BY <1>5, <2>3 DEF ServerRun, Running, client
  <2>5. served'[c] /\ \A d \in Clients \ {c} : served'[d] = served[d]
    BY <1>t, <2>4 DEF BaseType
  <2>6. request[c] = "asked"
    BY <2>3 DEF request, Running
  <2>7. request' = [request EXCEPT ![c] = "done"]
    <3>1. \A d \in Clients : InCommand(d)' <=> InCommand(d)
      BY <2>4 DEF InCommand
    <3>2. QED
      BY <2>3, <2>5, <3>1, RequestMoves
  <2>8. Requests!Serve(c)
    BY <2>6, <2>7 DEF Requests!Serve
  <2>9. QED
    BY <2>8 DEF Requests!Next
<1>6. CASE ServerCheck \/ ServerCount \/ ServerPend \/ ServerWake \/ ServerPop \/ ServerPost
  <2>1. UNCHANGED <<pc, served>>
    BY <1>6 DEF ServerCheck, ServerCount, ServerPend, ServerWake, ServerPop, ServerPost, client
  <2>2. QED
    BY <2>1 DEF request, InCommand
<1>7. CASE UNCHANGED vars
  BY <1>7 DEF vars, client, request, InCommand
<1>8. QED
  BY <1>1, <1>2, <1>3, <1>4, <1>5, <1>6, <1>7 DEF Next, Proceed, Server, Requests!Next

(* The safety part of KeepsPromise: requests are carried out one at a time,  *)
(* each once and before its answer (NX_GTServiceCommand and GTServiceThread  *)
(* against what their callers rely on).                                      *)
THEOREM ServiceImplementsRequests ==
  ~Spurious => (Spec => Requests!Init /\ [][Requests!Next]_request)
<1> SUFFICES ASSUME ~Spurious PROVE Spec => Requests!Init /\ [][Requests!Next]_request
  OBVIOUS
<1>1. Init => Requests!Init
  BY DEF Init, Requests!Init, request, InCommand
<1>2. IInv /\ IInv' /\ [Next]_vars => [Requests!Next]_request
  BY RequestStep
<1>3. QED
  BY <1>1, <1>2, AlwaysIInv, PTL DEF Spec

=============================================================================
