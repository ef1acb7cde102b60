------------------------------ MODULE GTService ------------------------------
(***************************************************************************)
(* The graphic tools service: client threads hand drawing commands to the  *)
(* one thread that owns the GL context.                                    *)
(*                                                                         *)
(* nx_graphictools.cpp counts the open instances under gstInstMutex and    *)
(* starts the service with the first and stops it with the last.           *)
(* NX_GTService.cpp passes one command at a time, under hLock: the caller  *)
(* puts a pointer to a record on its own stack in the queue, posts         *)
(* hSemCmd and pends on hSemResult.  NX_Semaphore.cpp builds semaphores    *)
(* from a mutex and a condition variable; a pend on zero waits once, with  *)
(* no loop around pthread_cond_wait.                                       *)
(*                                                                         *)
(* A step is what a thread does between two points where another thread    *)
(* can see or change what it sees: each semaphore or queue call is one.    *)
(***************************************************************************)
EXTENDS Integers, Sequences, FiniteSets

CONSTANTS
  Clients,     \* threads that use the library, each one instance at a time
  QueueSize,   \* MAX_CMD_SIZE (7 in the code)
  MaxSessions, \* bound: how many instances are opened in all
  MaxDos,      \* bound: how many Do commands an instance gets
  Spurious,    \* may pthread_cond_wait return without a signal?
  None         \* the null pointer; nobody

ASSUME Bounds ==
  /\ QueueSize \in Nat \ {0}
  /\ MaxSessions \in Nat /\ MaxDos \in Nat
  /\ Spurious \in BOOLEAN
  /\ None \notin Clients

VARIABLES
  refCnt,    \* gstInstRefCnt
  instMutex, \* the holder of gstInstMutex across NX_GTServiceStop
  exists,    \* gstService # NULL
  run,       \* bThreadRun
  hLock,     \* the holder of hLock
  queue,     \* hCmd: pointers to the callers' command records
  semCmd,    \* hSemCmd, see SemType
  semRes,    \* hSemResult
  pc,        \* where every client is
  cmd,       \* the command every client asks for
  served,    \* retCode of the client's record: has its command been run?
  dos,       \* bound: Do commands left to the client's instance
  server,    \* where the service thread is
  cur,       \* pCmd of the service thread
  sessions   \* bound: instances opened so far

lib == <<refCnt, instMutex, exists>>
service == <<run, hLock, queue, semCmd, semRes>>
client == <<pc, cmd, dos, sessions>>
thread == <<server, cur>>
vars == <<lib, service, client, served, thread>>

Tools == {"deint", "other"}       \* other: scaler, RGB to YUV, YUV to RGB
Commands == {"open", "do", "close"}
ClientPCs == {"out", "call", "push", "post", "pend", "wait", "reply", "inst",
              "release", "stop", "join"}
ServerPCs == {"dead", "check", "count", "pend", "wait", "pop", "run", "post"}

(* A semaphore: curValue, and whether a pthread_cond_signal is on its way to *)
(* the thread that waits.  Each semaphore has one thread that may wait.      *)
SemType == [val : Int, sig : BOOLEAN]

NewSem == [val |-> 0, sig |-> FALSE]

\* NX_SemaporePost: what it returns beyond maxValue is ignored by all callers.
Posted(sem, waiting) == [val |-> sem.val + 1, sig |-> sem.sig \/ waiting]

\* NX_SemaporePend where it does not wait: a negative value is left alone.
Pended(sem) == IF sem.val < 0 THEN sem ELSE [sem EXCEPT !.val = @ - 1]

\* NX_SemaporePend after pthread_cond_wait, signalled or not.
MayWake(sem) == sem.sig \/ Spurious
WokenUncounted(sem) == [sem EXCEPT !.sig = FALSE]
Woken(sem) == [val |-> sem.val - 1, sig |-> FALSE]

\* The client's command record is alive: it is inside NX_GTServiceCommand.
InCommand(c) == pc[c] \in {"push", "post", "pend", "wait", "reply"}

-----------------------------------------------------------------------------
(* Clients.                                                                  *)

Init ==
  /\ refCnt = 0 /\ instMutex = None /\ exists = FALSE
  /\ run = FALSE /\ hLock = None /\ queue = <<>>
  /\ semCmd = NewSem /\ semRes = NewSem
  /\ pc = [c \in Clients |-> "out"]
  /\ cmd = [c \in Clients |-> "open"]
  /\ served = [c \in Clients |-> FALSE]
  /\ dos = [c \in Clients |-> 0]
  /\ server = "dead" /\ cur = None
  /\ sessions = 0

Goto(c, where) == pc' = [pc EXCEPT ![c] = where]

(* A deinterlacer that is the first instance reuses the service object that  *)
(* exists; the other tools always make a new one, with a thread not running. *)
Reused(tool) == tool = "deint" /\ exists

ServiceInit(tool) ==
  IF Reused(tool)
    THEN UNCHANGED <<hLock, queue, semCmd, semRes>>
    ELSE hLock' = None /\ queue' = <<>> /\ semCmd' = NewSem /\ semRes' = NewSem

\* NX_GTServiceStart.
ServiceStart(running) ==
  IF running THEN UNCHANGED <<run, thread>>
  ELSE run' = TRUE /\ server' = "check" /\ cur' = None

(* NX_GTDeintOpen, NX_GTSclOpen, NX_GTRgb2YuvOpen and NX_GTYuv2RgbOpen under *)
(* gstInstMutex.                                                             *)
GTOpen(c, tool) ==
  /\ pc[c] = "out" /\ instMutex = None
  /\ sessions < MaxSessions
  /\ \/ /\ refCnt = 0
        /\ ServiceInit(tool) /\ ServiceStart(Reused(tool) /\ run)
        /\ exists' = TRUE
     \/ /\ refCnt # 0
        /\ UNCHANGED <<service, thread, exists>>
  /\ refCnt' = refCnt + 1
  /\ sessions' = sessions + 1
  /\ cmd' = [cmd EXCEPT ![c] = "open"]
  /\ dos' = [dos EXCEPT ![c] = MaxDos]
  /\ Goto(c, "call")
  /\ UNCHANGED <<instMutex, served>>

\* Where NX_GTServiceCommand returns to.
After(c) == IF cmd[c] = "close" THEN "release" ELSE "inst"

LockFreeAlways == TRUE
LockFree == hLock = None

(* NX_GTServiceCommand up to the queue; it fails if the service is stopped.  *)
CommandBegin(c) ==
  /\ pc[c] = "call" /\ LockFree
  /\ hLock' = IF run THEN c ELSE hLock
  /\ served' = IF run THEN [served EXCEPT ![c] = FALSE] ELSE served
  /\ Goto(c, IF run THEN "push" ELSE After(c))
  /\ UNCHANGED <<lib, run, queue, semCmd, semRes, cmd, dos, sessions, thread>>

\* NX_QueuePush of the record; its result is ignored.
CommandPush(c) ==
  /\ pc[c] = "push"
  /\ queue' = IF Len(queue) >= QueueSize THEN queue ELSE Append(queue, c)
  /\ Goto(c, "post")
  /\ UNCHANGED <<lib, run, hLock, semCmd, semRes, cmd, dos, sessions, served, thread>>

PostCmdSilent == semCmd' = [semCmd EXCEPT !.val = @ + 1]
PostCmd == semCmd' = Posted(semCmd, server = "wait")

CommandPost(c) ==
  /\ pc[c] = "post"
  /\ PostCmd
  /\ Goto(c, "pend")
  /\ UNCHANGED <<lib, run, hLock, queue, semRes, cmd, dos, sessions, served, thread>>

\* NX_SemaporePend(hSemResult).
CommandPend(c) ==
  /\ pc[c] = "pend"
  /\ \/ /\ semRes.val = 0
        /\ Goto(c, "wait")
        /\ UNCHANGED semRes
     \/ /\ semRes.val # 0
        /\ semRes' = Pended(semRes)
        /\ Goto(c, "reply")
  /\ UNCHANGED <<lib, run, hLock, queue, semCmd, cmd, dos, sessions, served, thread>>

CommandWake(c) ==
  /\ pc[c] = "wait" /\ MayWake(semRes)
  /\ semRes' = Woken(semRes)
  /\ Goto(c, "reply")
  /\ UNCHANGED <<lib, run, hLock, queue, semCmd, cmd, dos, sessions, served, thread>>

\* hLock is released and the command record leaves the stack.
CommandEnd(c) ==
  /\ pc[c] = "reply"
  /\ hLock' = None
  /\ Goto(c, After(c))
  /\ UNCHANGED <<lib, run, queue, semCmd, semRes, cmd, dos, sessions, served, thread>>

(* NX_GTDeintDoDeinterlace, NX_GTSclDoScale and their like, and the start of *)
(* the close functions.                                                      *)
GTDo(c) ==
  /\ pc[c] = "inst" /\ dos[c] > 0
  /\ cmd' = [cmd EXCEPT ![c] = "do"]
  /\ dos' = [dos EXCEPT ![c] = @ - 1]
  /\ Goto(c, "call")
  /\ UNCHANGED <<lib, service, served, sessions, thread>>

GTClose(c) ==
  /\ pc[c] = "inst"
  /\ cmd' = [cmd EXCEPT ![c] = "close"]
  /\ Goto(c, "call")
  /\ UNCHANGED <<lib, service, served, dos, sessions, thread>>

\* The count at which a close stops the service.
LastReferenceEarly == refCnt <= 2
LastReference == refCnt = 1

(* The end of the close functions, under gstInstMutex: the last instance     *)
(* enters NX_GTServiceStop, which clears bThreadRun without taking hLock.    *)
GTRelease(c) ==
  /\ pc[c] = "release" /\ instMutex = None
  /\ refCnt' = IF refCnt > 0 THEN refCnt - 1 ELSE refCnt
  /\ \/ /\ LastReference
        /\ instMutex' = c
        /\ run' = FALSE
        /\ Goto(c, "stop")
     \/ /\ ~LastReference
        /\ Goto(c, "out")
        /\ UNCHANGED <<instMutex, run>>
  /\ UNCHANGED <<exists, hLock, queue, semCmd, semRes, cmd, dos, sessions, served,
                 thread>>

StopPostSkipped(c) ==
  /\ pc[c] = "stop"
  /\ Goto(c, "join")
  /\ UNCHANGED <<lib, service, cmd, dos, sessions, served, thread>>

\* NX_GTServiceStop: the dummy post, then pthread_join.
StopPost(c) ==
  /\ pc[c] = "stop"
  /\ PostCmd
  /\ Goto(c, "join")
  /\ UNCHANGED <<lib, run, hLock, queue, semRes, cmd, dos, sessions, served, thread>>

ThreadDetached == TRUE
ThreadGone == server = "dead"

StopJoin(c) ==
  /\ pc[c] = "join" /\ ThreadGone
  /\ instMutex' = None
  /\ Goto(c, "out")
  /\ UNCHANGED <<refCnt, exists, service, cmd, dos, sessions, served, thread>>

-----------------------------------------------------------------------------
(* GTServiceThread.                                                          *)

\* while( pService->bThreadRun )
ServerCheck ==
  /\ server = "check"
  /\ server' = IF run THEN "count" ELSE "dead"
  /\ cur' = None
  /\ UNCHANGED <<lib, service, client, served>>

\* if( !NX_QueueGetCount(...) ): the count is read without the queue's mutex.
ServerCount ==
  /\ server = "count"
  /\ server' = IF Len(queue) = 0 THEN "pend" ELSE "pop"
  /\ UNCHANGED <<lib, service, client, served, cur>>

ServerPend ==
  /\ server = "pend"
  /\ \/ /\ semCmd.val = 0
        /\ server' = "wait"
        /\ UNCHANGED semCmd
     \/ /\ semCmd.val # 0
        /\ semCmd' = Pended(semCmd)
        /\ server' = "pop"
  /\ UNCHANGED <<lib, run, hLock, queue, semRes, client, served, cur>>

ServerWake ==
  /\ server = "wait" /\ MayWake(semCmd)
  /\ semCmd' = Woken(semCmd)
  /\ server' = "pop"
  /\ UNCHANGED <<lib, run, hLock, queue, semRes, client, served, cur>>

\* NX_QueuePop takes the element at the head.
PoppedKept(q) == q
Popped(q) == Tail(q)

\* NX_QueuePop; an empty queue leaves pCmd NULL and the loop goes on.
ServerPop ==
  /\ server = "pop"
  /\ \/ /\ queue = <<>>
        /\ server' = "check"
        /\ UNCHANGED <<queue, cur>>
     \/ /\ queue # <<>>
        /\ cur' = Head(queue)
        /\ queue' = Popped(queue)
        /\ server' = "run"
  /\ UNCHANGED <<lib, run, hLock, semCmd, semRes, client, served>>

\* The command is run and its result written to the caller's record.
ServerRun ==
  /\ server = "run"
  /\ served' = [served EXCEPT ![cur] = TRUE]
  /\ server' = "post"
  /\ UNCHANGED <<lib, service, client, cur>>

ServerPost ==
  /\ server = "post"
  /\ semRes' = Posted(semRes, \E c \in Clients : pc[c] = "wait")
  /\ server' = "check"
  /\ UNCHANGED <<lib, run, hLock, queue, semCmd, client, served, cur>>

-----------------------------------------------------------------------------

(* Once it is in a command or in a stop, a client goes on by itself.         *)
Proceed(c) ==
  \/ CommandPush(c) \/ CommandPost(c)
  \/ CommandPend(c) \/ CommandWake(c) \/ CommandEnd(c)
  \/ StopPost(c) \/ StopJoin(c)

Server ==
  \/ ServerCheck \/ ServerCount \/ ServerPend \/ ServerWake
  \/ ServerPop \/ ServerRun \/ ServerPost

Next ==
  \/ \E c \in Clients :
       \/ \E tool \in Tools : GTOpen(c, tool)
       \/ CommandBegin(c)
       \/ Proceed(c)
       \/ GTDo(c)
       \/ GTClose(c)
       \/ GTRelease(c)
  \/ Server

Fairness == WF_vars(Server) /\ \A c \in Clients : WF_vars(Proceed(c))

Spec == Init /\ [][Next]_vars /\ Fairness

-----------------------------------------------------------------------------
(* Properties.                                                               *)

(* The semaphores never go negative and the queue never fills.               *)
TypeOK ==
  /\ refCnt \in Nat /\ exists \in BOOLEAN /\ run \in BOOLEAN
  /\ instMutex \in Clients \cup {None} /\ hLock \in Clients \cup {None}
  /\ queue \in Seq(Clients) /\ Len(queue) <= 1
  /\ semCmd \in SemType /\ semCmd.val >= 0
  /\ semRes \in SemType /\ semRes.val \in {0, 1}
  /\ pc \in [Clients -> ClientPCs]
  /\ cmd \in [Clients -> Commands]
  /\ served \in [Clients -> BOOLEAN]
  /\ dos \in [Clients -> Nat]
  /\ server \in ServerPCs
  /\ cur \in Clients \cup {None}
  /\ sessions \in Nat

(* NX_GTServiceCommand, at "wait result..": no caller is past the pend on    *)
(* hSemResult before its own command was run.                                *)
AnsweredBeforeReply == \A c \in Clients : pc[c] = "reply" => served[c]

(* The pointers in the queue and in pCmd are to records of callers that are  *)
(* still inside NX_GTServiceCommand and have not been served: the service    *)
(* thread never reads or writes a stack frame that is gone, nor serves a     *)
(* command twice.                                                            *)
NoDanglingCommand ==
  LET pending == {queue[i] : i \in 1 .. Len(queue)}
                   \cup (IF server = "run" THEN {cur} ELSE {})
  IN  \A c \in pending : InCommand(c) /\ ~served[c]

(* Every post of hSemResult is taken by the caller it is for: once the       *)
(* answer is posted, its value counts the callers that were served and have  *)
(* not taken it yet, so that no answer is left for the next command.         *)
AnswersTaken ==
  semRes.val = IF server = "post" THEN 0
               ELSE Cardinality({c \in Clients : InCommand(c) /\ pc[c] # "reply" /\ served[c]})

(* Commands and answers stay matched: no dangling pointer, no stray answer.  *)
OneCommandOneAnswer == NoDanglingCommand /\ AnswersTaken

(* The service thread never sleeps on hSemCmd with a command in the queue or *)
(* a stop requested, unless the post that wakes it is still to come.         *)
NoLostWakeup ==
  server = "wait" /\ ~semCmd.sig
    => /\ queue = <<>> \/ \E c \in Clients : pc[c] = "post"
       /\ run \/ \E c \in Clients : pc[c] = "stop"

Holding == {c \in Clients : pc[c] \notin {"out", "stop", "join"}}

(* gstInstRefCnt counts the instances in use, and the service runs as long   *)
(* as there is one: no client ever finds it stopped, and no stop begins      *)
(* while a command is queued or being run.                                   *)
NoStopUnderUse ==
  /\ refCnt = Cardinality(Holding)
  /\ run <=> Holding # {}
  /\ ~run => queue = <<>> /\ server # "run" /\ server # "post"

(* A new service thread is created, on an old or a new service object, only  *)
(* after the previous one has left its GL context: NX_GTServiceStart itself  *)
(* looks at bThreadRun only.                                                 *)
RestartAfterExit == [][~run /\ run' => server = "dead"]_vars

(* The last close always comes back from pthread_join, wherever the service  *)
(* thread was when bThreadRun was cleared under its feet.                    *)
StopReturns == \A c \in Clients : pc[c] = "stop" ~> pc[c] = "out"

request == [c \in Clients |-> IF ~InCommand(c) THEN "none"
                              ELSE IF served[c] THEN "done" ELSE "asked"]

Requests == INSTANCE GTRequests WITH Clients <- Clients, request <- request

(* The service implements the requests of GTRequests, fairness included:     *)
(* one at a time, each once, answered only afterwards, and in the end.       *)
KeepsPromise == Requests!Spec

=============================================================================
