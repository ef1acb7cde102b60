------------------------------ MODULE MoviePlay ------------------------------
(***************************************************************************)
(* The movie player (NX_MoviePlay.c): handles that a program opens, plays  *)
(* and closes, each with a GStreamer pipeline and a thread that runs a     *)
(* GMainLoop for the messages of its bus.                                  *)
(*                                                                         *)
(* Every loop is for the default main context, which one thread has at a   *)
(* time: that thread dispatches the messages of all the pipelines.  GLib   *)
(* and GStreamer are external; each step of a loop thread here is one that *)
(* another thread can come between.                                        *)
(*                                                                         *)
(* For each handle the program calls from one thread.  The calls that only *)
(* ask the pipeline or set its properties change nothing here.             *)
(***************************************************************************)
EXTENDS MoviePipeline, Naturals

CONSTANTS
  Players,   \* the handles
  None

ASSUME NoneIsNoPlayer == None \notin Players

VARIABLES
  handle,    \* the MOVIE_TYPE of each
  user,      \* what the program has of it, and is doing with it
  state,     \* the state of its pipeline
  eos,       \* the end-of-stream message of its bus
  thread,    \* where its loop thread is
  is_running,\* that of its loop
  ready,     \* the bus watches the present iteration of a loop will dispatch
  call,      \* the bus watch that is being dispatched
  wild,      \* who used a handle that was freed: the end
  lost,      \* a handle or a pipeline is allocated that nobody has
  failed     \* history: an Open has failed

vars == <<handle, user, state, eos, thread, is_running, ready, call, wild, lost, failed>>

Handle == [mem : {"none", "live", "freed"},
           pipeline : BOOLEAN,
           pipeline_is_linked : BOOLEAN,
           built : {Built(c, m) : c \in Contents, m \in Missing} \cup {None}]
Users == {"out", "in", "erred",   \* erred: Open returned ERROR
          "joining", "hung"}      \* in Close; hung: the quit came before the run
Threads == {"none", "started", "waiting", "check", "polling", "dispatching", "ended"}

TypeOK ==
  /\ handle \in [Players -> Handle]
  /\ user \in [Players -> Users]
  /\ state \in [Players -> {"NULL", "READY", "PAUSED", "PLAYING"}]
  /\ eos \in [Players -> {"no", "posted", "taken"}]
  /\ thread \in [Players -> Threads]
  /\ is_running \in [Players -> BOOLEAN]
  /\ ready \subseteq Players
  /\ call \in [of : Players \cup {None}, at : {"popped", "called"}]
  /\ wild \in {"no", "erred", "foreign", "own"}
  /\ lost \in BOOLEAN /\ failed \in BOOLEAN

NoHandle == [mem |-> "none", pipeline |-> FALSE, pipeline_is_linked |-> FALSE,
             built |-> None]
NoCall == [of |-> None, at |-> "called"]

Init ==
  /\ handle = [p \in Players |-> NoHandle]
  /\ user = [p \in Players |-> "out"]
  /\ state = [p \in Players |-> "NULL"]
  /\ eos = [p \in Players |-> "no"]
  /\ thread = [p \in Players |-> "none"]
  /\ is_running = [p \in Players |-> FALSE]
  /\ ready = {} /\ call = NoCall
  /\ wild = "no" /\ lost = FALSE /\ failed = FALSE

-----------------------------------------------------------------------------
(* The calls of the program.                                                 *)

loopVars == <<thread, is_running, ready, call>>

\* A call that is given a freed handle.
Misuse(p) ==
  /\ handle[p].mem = "freed"
  /\ wild' = "erred"
  /\ UNCHANGED <<handle, user, state, eos, loopVars, lost, failed>>

NX_MPSetFileName(p) ==
  /\ user[p] = "out" /\ call.of # p
  /\ handle' = [handle EXCEPT ![p] = [NoHandle EXCEPT !.mem = "live"]]
  /\ user' = [user EXCEPT ![p] = "in"]
  /\ state' = [state EXCEPT ![p] = "NULL"] /\ eos' = [eos EXCEPT ![p] = "no"]
  /\ UNCHANGED <<loopVars, wild, lost, failed>>

Outcomes == {Built(c, m) : c \in Contents, m \in Missing}

\* A part could not be made or linked: ERROR_EXIT frees the handle, and the
\* pipeline stays with its bus watch.
OpenFails(p) ==
  /\ \E built \in Outcomes : ~built.ok
  /\ handle' = [handle EXCEPT ![p] = [NoHandle EXCEPT !.mem = "freed"]]
  /\ user' = [user EXCEPT ![p] = "erred"]
  /\ lost' = TRUE /\ failed' = TRUE
  /\ UNCHANGED <<state, thread, is_running>>

\* The pipeline does not become READY: the same ERROR, and the handle is kept.
OpenRefused(p) ==
  /\ handle' = [handle EXCEPT ![p].pipeline = TRUE]
  /\ user' = [user EXCEPT ![p] = "erred"]
  /\ lost' = (lost \/ handle[p].pipeline) /\ failed' = TRUE
  /\ UNCHANGED <<state, thread, is_running>>

OpenDone(p) ==
  /\ \E built \in Outcomes :
       /\ built.ok
       /\ handle' = [handle EXCEPT ![p] = [mem |-> "live", pipeline |-> TRUE,
                                           pipeline_is_linked |-> TRUE,
                                           built |-> built]]
  /\ user' = [user EXCEPT ![p] = "in"]
  /\ state' = [state EXCEPT ![p] = "READY"]
  /\ thread' = [thread EXCEPT ![p] = "started"]
  /\ is_running' = [is_running EXCEPT ![p] = FALSE]
  /\ lost' = (lost \/ handle[p].pipeline)
  /\ UNCHANGED failed

NX_MPOpen(p) ==
  /\ user[p] \in {"in", "erred"} /\ handle[p].mem = "live"
  /\ ~handle[p].pipeline_is_linked
  /\ OpenFails(p) \/ OpenRefused(p) \/ OpenDone(p)
  /\ UNCHANGED <<eos, ready, call, wild>>

HasContext(p) == thread[p] \in {"check", "polling", "dispatching"}

\* mutant: a loop that waits for the context is not told
QuitOwner(p) == [is_running EXCEPT ![p] = @ /\ ~HasContext(p)]

Quit(p) == [is_running EXCEPT ![p] = FALSE]

\* mutant: the handle is freed without a wait for the thread
JoinedNever(p) == TRUE

Joined(p) == thread[p] = "ended"

\* A quit that comes before the thread's g_main_loop_run is lost.
CloseQuits(p) ==
  /\ user[p] = "in" /\ handle[p].pipeline_is_linked
  /\ is_running' = Quit(p)
  /\ user' = [user EXCEPT ![p] = IF thread[p] = "started" THEN "hung" ELSE "joining"]
  /\ UNCHANGED <<handle, state, eos, thread, ready, call, wild, lost, failed>>

\* On the way to NULL the bus drops its messages.
CloseFrees(p) ==
  /\ user[p] = "joining" /\ Joined(p)
  /\ handle' = [handle EXCEPT ![p] = [NoHandle EXCEPT !.mem = "freed"]]
  /\ user' = [user EXCEPT ![p] = "out"]
  /\ state' = [state EXCEPT ![p] = "NULL"] /\ eos' = [eos EXCEPT ![p] = "no"]
  /\ UNCHANGED <<loopVars, wild, lost, failed>>

\* The pipeline of an Open that was refused is not freed.
CloseUnlinked(p) ==
  /\ user[p] \in {"in", "erred"} /\ handle[p].mem = "live"
  /\ ~handle[p].pipeline_is_linked
  /\ handle' = [handle EXCEPT ![p] = [NoHandle EXCEPT !.mem = "freed"]]
  /\ user' = [user EXCEPT ![p] = "out"]
  /\ lost' = (lost \/ handle[p].pipeline)
  /\ UNCHANGED <<state, eos, loopVars, wild, failed>>

\* After an error the program calls nothing more for the handle.
GivesUp(p) ==
  /\ user[p] = "erred"
  /\ user' = [user EXCEPT ![p] = "out"]
  /\ lost' = (lost \/ handle[p].mem = "live")
  /\ UNCHANGED <<handle, state, eos, loopVars, wild, failed>>

\* Play, Pause and Stop.  From NULL on, all is read from the start.
SetState(p, new) ==
  /\ user[p] = "in" /\ handle[p].pipeline_is_linked
  /\ state[p] # new
  /\ state' = [state EXCEPT ![p] = new]
  /\ eos' = [eos EXCEPT ![p] = IF new = "NULL" THEN "no" ELSE @]
  /\ UNCHANGED <<handle, user, loopVars, wild, lost, failed>>

\* After a seek the stream may end once more.
NX_MPSeek(p) ==
  /\ user[p] = "in" /\ handle[p].pipeline_is_linked
  /\ state[p] \in {"PLAYING", "PAUSED"} /\ eos[p] = "taken"
  /\ eos' = [eos EXCEPT ![p] = "no"]
  /\ UNCHANGED <<handle, user, state, loopVars, wild, lost, failed>>

-----------------------------------------------------------------------------
(* The streaming threads, and the threads of the loops.                      *)

userVars == <<handle, user, state, wild, lost, failed>>

StreamEnds(p) ==
  /\ state[p] = "PLAYING" /\ eos[p] = "no"
  /\ eos' = [eos EXCEPT ![p] = "posted"]
  /\ UNCHANGED <<userVars, loopVars>>

\* g_main_loop_run.
LoopStarts(p) ==
  /\ thread[p] = "started"
  /\ thread' = [thread EXCEPT ![p] = "waiting"]
  /\ is_running' = [is_running EXCEPT ![p] = TRUE]
  /\ UNCHANGED <<userVars, eos, ready, call>>

LoopTakesContext(p) ==
  /\ thread[p] = "waiting" /\ is_running[p]
  /\ \A q \in Players : ~HasContext(q)
  /\ thread' = [thread EXCEPT ![p] = "check"]
  /\ UNCHANGED <<userVars, eos, is_running, ready, call>>

LoopChecks(p) ==
  /\ thread[p] \in {"check", "waiting"}
  /\ thread[p] = "waiting" => ~is_running[p]
  /\ thread' = [thread EXCEPT ![p] = IF is_running[p] THEN "polling" ELSE "ended"]
  /\ UNCHANGED <<userVars, eos, is_running, ready, call>>

\* It sleeps until there is a message, or a quit wakes it.
LoopPolls(p) ==
  LET posted == {q \in Players : eos[q] = "posted"}
  IN  /\ thread[p] = "polling"
      /\ posted # {} \/ ~is_running[p]
      /\ ready' = posted
      /\ thread' = [thread EXCEPT ![p] = "dispatching"]
      /\ UNCHANGED <<userVars, eos, is_running, call>>

\* The watch takes the message from the bus, if it is still there.
LoopPops(p) == \E q \in ready :
  /\ thread[p] = "dispatching" /\ call.of = None
  /\ ready' = ready \ {q}
  /\ IF eos[q] = "posted"
     THEN /\ eos' = [eos EXCEPT ![q] = "taken"]
          /\ call' = [of |-> q, at |-> "popped"]
     ELSE UNCHANGED <<eos, call>>
  /\ UNCHANGED <<userVars, thread, is_running>>

\* It reads the callback in the handle, and calls it.
bus_callback(p) ==
  /\ thread[p] = "dispatching" /\ call.at = "popped"
  /\ call' = [call EXCEPT !.at = "called"]
  /\ wild' = IF handle[call.of].mem = "live" THEN wild
             ELSE IF call.of = p THEN "own" ELSE "foreign"
  /\ UNCHANGED <<handle, user, state, eos, thread, is_running, ready, lost, failed>>

CallbackReturns(p) ==
  /\ thread[p] = "dispatching" /\ call.of # None /\ call.at = "called"
  /\ call' = NoCall
  /\ UNCHANGED <<userVars, eos, thread, is_running, ready>>

LoopIterates(p) ==
  /\ thread[p] = "dispatching" /\ ready = {} /\ call.of = None
  /\ thread' = [thread EXCEPT ![p] = "check"]
  /\ UNCHANGED <<userVars, eos, is_running, ready, call>>

Loop(p) ==
  \/ LoopStarts(p) \/ LoopTakesContext(p) \/ LoopChecks(p) \/ LoopPolls(p)
  \/ LoopPops(p) \/ bus_callback(p) \/ CallbackReturns(p) \/ LoopIterates(p)

User(p) ==
  \/ NX_MPSetFileName(p) \/ NX_MPOpen(p)
  \/ CloseQuits(p) \/ CloseUnlinked(p) \/ GivesUp(p)
  \/ \E new \in {"PLAYING", "PAUSED", "NULL"} : SetState(p, new)
  \/ NX_MPSeek(p)
  \/ user[p] = "erred" /\ Misuse(p)

Next ==
  /\ wild = "no"
  /\ \E p \in Players : User(p) \/ CloseFrees(p) \/ StreamEnds(p) \/ Loop(p)

\* The threads run, the program's callback returns, and so does a Close that need
\* not wait any more.
Fairness ==
  \A p \in Players :
    WF_vars(wild = "no" /\ Loop(p)) /\ WF_vars(wild = "no" /\ CloseFrees(p))

Spec == Init /\ [][Next]_vars /\ Fairness

-----------------------------------------------------------------------------
(* Properties.                                                               *)

(* A handle that is freed is not used again, and no handle or pipeline is    *)
(* lost, however the calls and the dispatching threads are interleaved.  The *)
(* code does not keep to it after an Open that failed, whose ERROR does not  *)
(* tell whether the handle was freed; nor when another player's thread has   *)
(* taken a message of the handle from its bus, as Close waits for the        *)
(* handle's own thread only.                                                 *)
HandleAccounted ==
  /\ wild # "own"
  /\ wild = "erred" \/ lost => failed

(* When Open reports success, every track of the content has its path to the *)
(* display or to the sound device, except for a sound of a type that needs a *)
(* parser.  The code does not keep to it when its factory cannot make that   *)
(* parser: gst_element_link_many stops there and reports success, even when  *)
(* the sound is all there is; nor beside a video, where the result is        *)
(* ignored, when the parser is not made (DTS) or not added (FLAC in a        *)
(* program stream), or the demuxer links another track's pad.                *)
OpenMeansPlayable == \A p \in Players :
  handle[p].pipeline_is_linked =>
    /\ handle[p].built.video
    /\ handle[p].built.audio \/ handle[p].built.mute

(* Close returns, whatever the loops are dispatching and whosever thread has *)
(* the context, unless it came before the thread had begun to run its loop:  *)
(* that quit is lost and Close hangs.                                        *)
CloseReturns == \A p \in Players :
  user[p] = "joining" ~> (user[p] = "out" \/ wild # "no")

=============================================================================
