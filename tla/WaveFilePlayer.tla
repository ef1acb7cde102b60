--------------------------- MODULE WaveFilePlayer ----------------------------
(***************************************************************************)
(* The audio player (nx_audio.cpp, CNX_WaveOutApi.cpp): a handle that      *)
(* plays one wave file at a time with a thread of its own.  The thread and *)
(* the calls meet in two flags, m_bStopPlay and m_bRunning, that both      *)
(* write and no mutex guards.                                              *)
(*                                                                         *)
(* m_Mutex is held by Start alone, which never blocks, so handles do not   *)
(* meet and one is enough.  Its program calls from one thread.  ALSA is    *)
(* external: a write lasts as long as the device likes.  What the file     *)
(* says is the number of blocks its data fills.  A program whose thread    *)
(* uses a handle that was deleted is not followed any further.             *)
(***************************************************************************)
EXTENDS Integers

CONSTANT MaxBlocks  \* the longest file

ASSUME SomeBlocks == MaxBlocks \in Nat \ {0}

VARIABLES
  player,      \* the fields of CNX_WaveFilePlayer
  caller,      \* where the program is in a call
  wave,        \* its thread
  waveLost,    \* history: an open sound device that no pointer leads to any more
  waveMarks,   \* history of the present playback
  surplus      \* history: blocks written since the stop was asked for

waveVars == <<player, caller, wave, waveLost, waveMarks, surplus>>

WaveHandle == [open : BOOLEAN, m_hFile : BOOLEAN,
               m_pWaveOut : {"null", "closed", "open"},
               m_ThreadId : {"none", "created", "failed"},
               m_bStopPlay : BOOLEAN, m_bRunning : BOOLEAN]
\* then: what the call does after its Stop
Calls == [at : {"out", "polling", "stop", "join", "then"},
          then : {"return", "start", "delete"}]
WaveThreads == [at : {"none", "created", "cleared", "read", "write", "check",
                      "over", "ended"},
                totalSize : 0 .. MaxBlocks]
WaveMarks == {"failed",  \* a pthread_create has failed
              "early",   \* the stop came before the thread had cleared its flag
              "waited",  \* the call waited for the end of the playback
              "unborn",  \* and found it not begun
              "torn"}    \* the handle was deleted under its thread

WaveTypeOK ==
  /\ player \in WaveHandle /\ caller \in Calls /\ wave \in WaveThreads
  /\ waveLost \in BOOLEAN /\ waveMarks \subseteq WaveMarks
  /\ surplus \in 0 .. MaxBlocks

NoPlayer == [open |-> FALSE, m_hFile |-> FALSE, m_pWaveOut |-> "null",
             m_ThreadId |-> "none", m_bStopPlay |-> FALSE, m_bRunning |-> FALSE]
NoWave == [at |-> "none", totalSize |-> 0]
Out == [at |-> "out", then |-> "return"]

WaveStart ==
  /\ player = NoPlayer /\ caller = Out /\ wave = NoWave
  /\ waveLost = FALSE /\ waveMarks = {} /\ surplus = 0

-----------------------------------------------------------------------------
(* The program's calls.                                                      *)

\* The constructor leaves the two flags as the memory is.
Constructed(new) ==
  \E stop, running \in BOOLEAN :
    new = [NoPlayer EXCEPT !.open = TRUE, !.m_bStopPlay = stop, !.m_bRunning = running]

NX_AudioInit ==
  /\ ~player.open
  /\ Constructed(player')
  /\ UNCHANGED <<caller, wave, waveLost, waveMarks, surplus>>

\* CNX_WaveFilePlayer::Start: what it leaves of the handle h when it returns ret.
\* The pointers are overwritten, whatever they point to.
Returns == {0, -2, -3, -4, -5}
AfterStart(h, ret) ==
  [h EXCEPT !.m_hFile = (ret # -2),
            !.m_pWaveOut = IF ret \in {-2, -3} THEN @ ELSE IF ret = -4 THEN "null" ELSE "open",
            !.m_ThreadId = IF ret = 0 THEN "created" ELSE IF ret = -5 THEN "failed" ELSE @]
StartLoses(h, ret) == h.m_pWaveOut = "open" /\ ret \notin {-2, -3}

\* The thread that Start creates will read m_WaveDataSize.
ThreadOf(ret, new) ==
  IF ret = 0 THEN \E size \in 1 .. MaxBlocks : new = [at |-> "created", totalSize |-> size]
             ELSE new = NoWave

PlayAsyncWaveFile ==
  /\ ~player.open
  /\ \E ret \in Returns, h \in WaveHandle :
       /\ Constructed(h)
       /\ player' = IF ret = 0 THEN AfterStart(h, ret) ELSE NoPlayer
       /\ ThreadOf(ret, wave')
  /\ UNCHANGED <<caller, waveLost, waveMarks, surplus>>

\* The calls begin; the three that stop the playback go on below.
Begins(at, then) ==
  /\ player.open /\ caller.at = "out"
  /\ caller' = [at |-> at, then |-> then]
  /\ waveMarks' = waveMarks \cap {"failed"} /\ surplus' = 0
  /\ UNCHANGED <<player, wave, waveLost>>

NX_AudioPlay == Begins("stop", "start")
NX_AudioStop(bImmediate) == Begins(IF bImmediate THEN "stop" ELSE "polling", "return")
StopWaveFile == Begins("stop", "delete")

\* The destructor closes what the handle still points to, and does not ask what the
\* thread is doing; one that is through is never joined.
NX_AudioDeinit ==
  /\ player.open /\ caller.at = "out"
  /\ player' = NoPlayer
  /\ IF wave.at \in {"none", "ended"} THEN wave' = NoWave /\ UNCHANGED waveMarks
     ELSE waveMarks' = waveMarks \cup {"torn"} /\ UNCHANGED wave
  /\ UNCHANGED <<caller, waveLost, surplus>>

PollEnds ==
  /\ caller.at = "polling" /\ ~player.m_bRunning
  /\ caller' = [caller EXCEPT !.at = "stop"]
  /\ waveMarks' = waveMarks \cup {"waited"}
       \cup (IF wave.at \in {"created", "cleared"} THEN {"unborn"} ELSE {})
  /\ UNCHANGED <<player, wave, waveLost, surplus>>

\* CNX_WaveFilePlayer::Stop.
SetStopPlay ==
  /\ caller.at = "stop"
  /\ player' = [player EXCEPT !.m_bStopPlay = TRUE]
  /\ caller' = [caller EXCEPT !.at = IF player.m_ThreadId = "created" THEN "join" ELSE "then"]
  /\ waveMarks' = waveMarks \cup (IF wave.at = "created" THEN {"early"} ELSE {})
  /\ UNCHANGED <<wave, waveLost, surplus>>

WaveJoinedNever == TRUE \* mutant: the thread is not joined
WaveJoined == wave.at = "ended"

JoinAndClose ==
  /\ caller.at = "join" /\ WaveJoined
  /\ wave' = IF wave.at = "ended" THEN NoWave ELSE wave
  /\ player' = [player EXCEPT !.m_ThreadId = "none", !.m_pWaveOut = "closed"]
  /\ caller' = [caller EXCEPT !.at = "then"]
  /\ UNCHANGED <<waveLost, waveMarks, surplus>>

\* What the call does after its Stop.
GoesOn ==
  /\ caller.at = "then" /\ caller' = Out
  /\ \/ caller.then = "return" /\ UNCHANGED <<player, wave, waveLost, waveMarks>>
     \/ /\ caller.then = "delete" /\ player' = NoPlayer
        /\ UNCHANGED <<wave, waveLost, waveMarks>>
     \/ /\ caller.then = "start"
        /\ \E ret \in Returns :
             /\ player' = AfterStart(player, ret) /\ ThreadOf(ret, wave')
             /\ waveLost' = (waveLost \/ StartLoses(player, ret))
             /\ waveMarks' = waveMarks \cup (IF ret = -5 THEN {"failed"} ELSE {})
  /\ UNCHANGED surplus

-----------------------------------------------------------------------------
(* ThreadProc.                                                               *)

threadOnly == <<caller, waveLost, waveMarks>>

ThreadClears ==
  /\ wave.at = "created"
  /\ wave' = [wave EXCEPT !.at = "cleared"]
  /\ player' = [player EXCEPT !.m_bStopPlay = FALSE]
  /\ UNCHANGED <<threadOnly, surplus>>

ThreadRuns ==
  /\ wave.at = "cleared"
  /\ wave' = [wave EXCEPT !.at = "read"]
  /\ player' = [player EXCEPT !.m_bRunning = TRUE]
  /\ UNCHANGED <<threadOnly, surplus>>

\* The file may be shorter than its header says.
ThreadReads ==
  /\ wave.at = "read"
  /\ \/ wave.totalSize > 0 /\ wave' = [wave EXCEPT !.at = "write"]
     \/ wave' = [wave EXCEPT !.at = "over"]
  /\ UNCHANGED <<player, threadOnly, surplus>>

ThreadWrites ==
  /\ wave.at = "write"
  /\ wave' = [at |-> "check", totalSize |-> wave.totalSize - 1]
  /\ surplus' = IF caller.at = "join" THEN surplus + 1 ELSE surplus
  /\ UNCHANGED <<player, threadOnly>>

StoppedNever == FALSE \* mutant: the loop only ends with the file
Stopped == player.m_bStopPlay

ThreadChecks ==
  /\ wave.at = "check"
  /\ wave' = [wave EXCEPT !.at = IF Stopped THEN "over" ELSE "read"]
  /\ UNCHANGED <<player, threadOnly, surplus>>

ThreadEnds ==
  /\ wave.at = "over"
  /\ wave' = [wave EXCEPT !.at = "ended"]
  /\ player' = [player EXCEPT !.m_bRunning = FALSE]
  /\ UNCHANGED <<threadOnly, surplus>>

-----------------------------------------------------------------------------

WaveNext ==
  /\ "torn" \notin waveMarks
  /\ \/ NX_AudioInit \/ PlayAsyncWaveFile \/ NX_AudioPlay \/ StopWaveFile \/ NX_AudioDeinit
     \/ \E bImmediate \in BOOLEAN : NX_AudioStop(bImmediate)
     \/ PollEnds \/ SetStopPlay \/ JoinAndClose \/ GoesOn
     \/ ThreadClears \/ ThreadRuns \/ ThreadReads \/ ThreadWrites \/ ThreadChecks
     \/ ThreadEnds

WaveSpec == WaveStart /\ [][WaveNext]_waveVars

-----------------------------------------------------------------------------
(* Properties.                                                               *)

(* A stop is heeded within one block, and a stop that waits for the end of   *)
(* the playback finds the thread through with its file.  The code does not   *)
(* keep to it while the new thread has not begun: it then clears the request *)
(* and plays the whole file, and the wait takes a playback that is not yet   *)
(* running for one that is over.                                             *)
StopsAndWaits ==
  /\ surplus > 1 => "early" \in waveMarks
  /\ "waited" \in waveMarks /\ caller.at = "join" =>
       wave.at = "ended" \/ "unborn" \in waveMarks

(* The thread plays from an open file to an open device, whatever is played  *)
(* and stopped meanwhile; between playbacks no device is kept open; and a    *)
(* device that nothing points to any more was opened by a Start whose        *)
(* pthread_create failed, which Stop does not close and the next Start       *)
(* forgets.  The code does not keep to it when NX_AudioDeinit is called with *)
(* no stop before: it closes both under the thread.                          *)
DevicesAccounted ==
  /\ wave.at \in {"read", "write", "check"} =>
       \/ player.m_pWaveOut = "open" /\ player.m_hFile
       \/ "torn" \in waveMarks
  /\ player.m_ThreadId = "none" => player.m_pWaveOut # "open"
  /\ waveLost => "failed" \in waveMarks

=============================================================================
