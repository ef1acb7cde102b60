---------------------------- MODULE PlayersProofs ----------------------------
(* Proofs about the two players, for files of any length and any number of   *)
(* movie handles.                                                            *)
EXTENDS MoviePlay, WaveFilePlayer, WellFoundedInduction, TLAPS

-----------------------------------------------------------------------------
(* WaveFilePlayer.                                                           *)

(* There is a thread from the Start that made it to the join, and for it an  *)
(* open file and an open device; no other device is open than one whose      *)
(* thread could not be made.  (The model ends with a handle that is deleted  *)
(* under its thread.)                                                        *)
DeviceInv ==
  /\ "torn" \notin waveMarks => (player.m_ThreadId = "created" <=> wave.at # "none")
  /\ "torn" \in waveMarks => caller.at = "out"
  /\ player.m_ThreadId = "created" => player.m_pWaveOut = "open" /\ player.m_hFile
  /\ player.m_ThreadId = "none" => player.m_pWaveOut # "open"
  /\ player.m_ThreadId = "failed" => "failed" \in waveMarks
  /\ waveLost => "failed" \in waveMarks
  /\ ~player.open => player.m_ThreadId = "none" /\ caller.at = "out"

(* Between its first and its last step the thread counts as running, so that *)
(* a wait ends on one that has not begun or is through.  The call that set   *)
(* m_bStopPlay keeps it set, unless the thread was still to clear it; what   *)
(* the thread writes from then on is its present block and no more.          *)
StopInv ==
  /\ wave.at \in {"read", "write", "check", "over"} /\ "torn" \notin waveMarks =>
       player.m_bRunning
  /\ wave.at = "write" => wave.totalSize > 0
  /\ caller.at = "join" => wave.at # "none"
  /\ caller.at = "then" => wave.at = "none"
  /\ caller.at \in {"stop", "join"} /\ "waited" \in waveMarks /\ "unborn" \notin waveMarks =>
       wave.at \in {"none", "ended"}
  /\ caller.at \in {"polling", "stop"} => surplus = 0
  /\ caller.at = "join" => surplus + wave.totalSize <= MaxBlocks
  /\ caller.at = "join" /\ "early" \notin waveMarks =>
       /\ player.m_bStopPlay /\ wave.at # "created"
       /\ surplus <= 1
       /\ surplus = 1 => wave.at \in {"check", "over", "ended"}

SurplusInv == surplus > 1 => "early" \in waveMarks

WaveInv == WaveTypeOK /\ DeviceInv /\ StopInv /\ SurplusInv

LEMMA WaveInit == WaveStart => WaveInv
<1> SUFFICES ASSUME WaveStart PROVE WaveInv
  OBVIOUS
<1> USE DEF WaveStart, NoPlayer, NoWave, Out
<1>1. WaveTypeOK
  <2>1. player \in WaveHandle
    BY DEF WaveHandle
  <2>2. caller \in Calls /\ wave \in WaveThreads /\ surplus \in 0 .. MaxBlocks
    BY SomeBlocks DEF Calls, WaveThreads
  <2>3. waveLost \in BOOLEAN /\ waveMarks \subseteq WaveMarks
    OBVIOUS
  <2>4. QED
    BY <2>1, <2>2, <2>3 DEF WaveTypeOK
<1>2. DeviceInv
  <2>1. player.m_ThreadId = "none" /\ player.m_pWaveOut = "null" /\ wave.at = "none"
    OBVIOUS
  <2>2. caller.at = "out" /\ ~waveLost
    OBVIOUS
  <2>3. QED
    BY <2>1, <2>2 DEF DeviceInv
<1>3. StopInv /\ SurplusInv
  BY DEF StopInv, SurplusInv
<1>4. QED
  BY <1>1, <1>2, <1>3 DEF WaveInv

(* What a constructor, and a Start, leave of a handle.                       *)
LEMMA ConstructedIs ==
  ASSUME NEW h, Constructed(h)
  PROVE  /\ h \in WaveHandle /\ h.open
         /\ h.m_ThreadId = "none" /\ h.m_pWaveOut = "null"
BY DEF Constructed, WaveHandle, NoPlayer

LEMMA AfterStartIs ==
  ASSUME NEW h \in WaveHandle, NEW ret \in Returns
  PROVE  LET a == AfterStart(h, ret)
         IN  /\ a \in WaveHandle /\ a.open = h.open
             /\ ret = 0 => a.m_ThreadId = "created" /\ a.m_pWaveOut = "open" /\ a.m_hFile
             /\ ret = -5 => a.m_ThreadId = "failed"
             /\ ret \in {-2, -3, -4} =>
                  a.m_ThreadId = h.m_ThreadId /\ a.m_pWaveOut \in {h.m_pWaveOut, "null"}
<1> DEFINE file == ret # -2
           out == IF ret \in {-2, -3} THEN h.m_pWaveOut ELSE IF ret = -4 THEN "null" ELSE "open"
           id == IF ret = 0 THEN "created" ELSE IF ret = -5 THEN "failed" ELSE h.m_ThreadId
<1>1. AfterStart(h, ret) = [h EXCEPT !.m_hFile = file, !.m_pWaveOut = out, !.m_ThreadId = id]
  BY DEF AfterStart
<1>2. file \in BOOLEAN /\ (ret = 0 => file)
  OBVIOUS
<1>3. /\ out \in {"null", "closed", "open"} /\ id \in {"none", "created", "failed"}
      /\ ret = 0 => out = "open" /\ id = "created"
      /\ ret = -5 => id = "failed"
      /\ ret \in {-2, -3, -4} => id = h.m_ThreadId /\ out \in {h.m_pWaveOut, "null"}
  BY DEF WaveHandle, Returns
<1> HIDE DEF file, out, id
<1>4. QED
  BY <1>1, <1>2, <1>3 DEF WaveHandle

LEMMA ThreadOfIs ==
  ASSUME NEW ret \in Returns, NEW new, ThreadOf(ret, new)
  PROVE  /\ new \in WaveThreads
         /\ ret = 0 => new.at = "created"
         /\ ret # 0 => new = NoWave
BY SomeBlocks DEF ThreadOf, WaveThreads, NoWave

\* The calls, but for the steps of a stop.
LEMMA WaveOpens ==
  ASSUME WaveInv, "torn" \notin waveMarks, NX_AudioInit \/ PlayAsyncWaveFile
  PROVE  WaveInv'
<1>1. /\ WaveTypeOK /\ DeviceInv /\ StopInv /\ SurplusInv
      /\ ~player.open /\ UNCHANGED <<caller, waveLost, waveMarks, surplus>>
  BY DEF WaveInv, NX_AudioInit, PlayAsyncWaveFile
<1>2. player.m_ThreadId = "none" /\ caller.at = "out" /\ wave.at = "none"
  BY <1>1 DEF DeviceInv, WaveTypeOK, WaveThreads
<1>3. /\ player' \in WaveHandle /\ wave' \in WaveThreads
      /\ \/ /\ player'.open /\ player'.m_ThreadId = "none" /\ player'.m_pWaveOut = "null"
            /\ wave'.at = "none"
         \/ /\ player'.open /\ player'.m_ThreadId = "created" /\ player'.m_pWaveOut = "open"
            /\ player'.m_hFile /\ wave'.at = "created"
         \/ player' = NoPlayer /\ wave'.at = "none"
  <2>1. CASE NX_AudioInit
    BY <1>1, <1>2, <2>1, ConstructedIs DEF NX_AudioInit, WaveTypeOK
  <2>2. CASE PlayAsyncWaveFile
    <3>1. PICK ret \in Returns, h \in WaveHandle :
            /\ Constructed(h) /\ ThreadOf(ret, wave')
            /\ player' = IF ret = 0 THEN AfterStart(h, ret) ELSE NoPlayer
      BY <2>2 DEF PlayAsyncWaveFile
    <3>2. CASE ret = 0
      BY <3>1, <3>2, ConstructedIs, AfterStartIs, ThreadOfIs
    <3>3. CASE ret # 0
      BY <3>1, <3>3, ThreadOfIs DEF NoPlayer, NoWave, WaveHandle
    <3>4. QED
      BY <3>2, <3>3
  <2>3. QED
    BY <2>1, <2>2
<1>4. WaveTypeOK'
  BY <1>1, <1>3 DEF WaveTypeOK
<1>5. DeviceInv'
  BY <1>1, <1>2, <1>3 DEF DeviceInv, NoPlayer
<1>6. StopInv' /\ SurplusInv'
  BY <1>1, <1>2, <1>3 DEF StopInv, SurplusInv
<1>7. QED
  BY <1>4, <1>5, <1>6 DEF WaveInv

LEMMA WaveCallsBegin ==
  ASSUME WaveInv, "torn" \notin waveMarks, NEW at \in {"polling", "stop"},
         NEW then \in {"return", "start", "delete"}, Begins(at, then)
  PROVE  WaveInv'
<1>1. /\ WaveTypeOK /\ DeviceInv /\ StopInv /\ SurplusInv
      /\ player.open /\ caller' = [at |-> at, then |-> then]
      /\ waveMarks' = waveMarks \cap {"failed"} /\ surplus' = 0
      /\ UNCHANGED <<player, wave, waveLost>>
  BY DEF WaveInv, Begins
<1>2. caller'.at = at /\ caller' \in Calls
  BY <1>1 DEF Calls
<1>3. WaveTypeOK'
  BY <1>1, <1>2, SomeBlocks DEF WaveTypeOK
<1>4. DeviceInv'
  BY <1>1, <1>2 DEF DeviceInv
<1>5. StopInv' /\ SurplusInv'
  BY <1>1, <1>2 DEF StopInv, SurplusInv
<1>6. QED
  BY <1>3, <1>4, <1>5 DEF WaveInv

LEMMA WaveDeinit ==
  ASSUME WaveInv, "torn" \notin waveMarks, NX_AudioDeinit
  PROVE  WaveInv'
<1>1. /\ WaveTypeOK /\ DeviceInv /\ StopInv /\ SurplusInv
      /\ caller.at = "out" /\ player' = NoPlayer
      /\ \/ wave' = NoWave /\ waveMarks' = waveMarks
         \/ wave' = wave /\ waveMarks' = waveMarks \cup {"torn"}
      /\ \A m : m # "torn" => (m \in waveMarks' <=> m \in waveMarks)
      /\ UNCHANGED <<caller, waveLost, surplus>>
  BY DEF WaveInv, NX_AudioDeinit
<1>2. /\ player' \in WaveHandle /\ player'.m_ThreadId = "none"
      /\ player'.m_pWaveOut = "null"
  BY <1>1 DEF NoPlayer, WaveHandle
<1>3. wave' \in WaveThreads /\ (wave' = wave \/ wave'.at = "none")
  BY <1>1, SomeBlocks DEF WaveTypeOK, WaveThreads, NoWave
<1>3a. waveMarks' \subseteq WaveMarks /\ ("torn" \in waveMarks' \/ wave'.at = "none")
  <2>1. CASE wave' = NoWave /\ waveMarks' = waveMarks
    BY <1>1, <2>1 DEF WaveTypeOK, NoWave
  <2>2. CASE wave' = wave /\ waveMarks' = waveMarks \cup {"torn"}
    BY <1>1, <2>2 DEF WaveTypeOK, WaveMarks
  <2>3. QED
    BY <1>1, <2>1, <2>2
<1>3b. WaveTypeOK'
  BY <1>1, <1>2, <1>3, <1>3a DEF WaveTypeOK
<1>4. DeviceInv'
  BY <1>1, <1>2, <1>3, <1>3a DEF DeviceInv, WaveMarks
<1>5. StopInv' /\ SurplusInv'
  BY <1>1, <1>2, <1>3, <1>3a DEF StopInv, SurplusInv, DeviceInv, WaveMarks
<1>6. QED
  BY <1>3b, <1>4, <1>5 DEF WaveInv

LEMMA WavePollEnds ==
  ASSUME WaveInv, "torn" \notin waveMarks, PollEnds
  PROVE  WaveInv'
<1>1. /\ WaveTypeOK /\ DeviceInv /\ StopInv /\ SurplusInv
      /\ caller.at = "polling" /\ ~player.m_bRunning
      /\ caller' = [caller EXCEPT !.at = "stop"]
      /\ UNCHANGED <<player, wave, waveLost, surplus>>
  BY DEF WaveInv, PollEnds
<1>2. /\ waveMarks \subseteq waveMarks' /\ waveMarks' \subseteq WaveMarks
      /\ wave.at \in {"created", "cleared"} => "unborn" \in waveMarks'
      /\ "early" \in waveMarks' => "early" \in waveMarks
      /\ "torn" \notin waveMarks'
  BY <1>1 DEF PollEnds, WaveTypeOK, WaveMarks
<1>3. caller'.at = "stop" /\ caller' \in Calls
  BY <1>1 DEF Calls, WaveTypeOK
<1>4. wave.at \in {"none", "created", "cleared", "ended"}
  BY <1>1 DEF StopInv, WaveTypeOK, WaveThreads
<1>5. WaveTypeOK'
  BY <1>1, <1>2, <1>3 DEF WaveTypeOK
<1>6. DeviceInv'
  BY <1>1, <1>2, <1>3 DEF DeviceInv
<1>7. StopInv' /\ SurplusInv'
  BY <1>1, <1>2, <1>3, <1>4 DEF StopInv, SurplusInv
<1>8. QED
  BY <1>5, <1>6, <1>7 DEF WaveInv

LEMMA WaveSetStopPlay ==
  ASSUME WaveInv, "torn" \notin waveMarks, SetStopPlay
  PROVE  WaveInv'
<1>1. /\ WaveTypeOK /\ DeviceInv /\ StopInv /\ SurplusInv
      /\ caller.at = "stop"
      /\ player' = [player EXCEPT !.m_bStopPlay = TRUE]
      /\ caller' = [caller EXCEPT !.at = IF player.m_ThreadId = "created" THEN "join" ELSE "then"]
      /\ UNCHANGED <<wave, waveLost, surplus>>
  BY DEF WaveInv, SetStopPlay
<1>2. /\ waveMarks \subseteq waveMarks' /\ waveMarks' \subseteq WaveMarks
      /\ wave.at = "created" => "early" \in waveMarks'
      /\ "waited" \in waveMarks' => "waited" \in waveMarks
      /\ "torn" \notin waveMarks'
  BY <1>1 DEF SetStopPlay, WaveTypeOK, WaveMarks
<1>3. /\ caller' \in Calls
      /\ \/ player.m_ThreadId = "created" /\ caller'.at = "join"
         \/ player.m_ThreadId # "created" /\ caller'.at = "then"
  BY <1>1 DEF Calls, WaveTypeOK
<1>4. /\ player' \in WaveHandle /\ player'.m_bStopPlay
      /\ player'.open = player.open /\ player'.m_hFile = player.m_hFile
      /\ player'.m_pWaveOut = player.m_pWaveOut /\ player'.m_ThreadId = player.m_ThreadId
      /\ player'.m_bRunning = player.m_bRunning
  BY <1>1 DEF WaveHandle, WaveTypeOK
<1>5. wave.totalSize \in 0 .. MaxBlocks /\ surplus = 0
  BY <1>1 DEF StopInv, WaveTypeOK, WaveThreads
<1>6. WaveTypeOK'
  BY <1>1, <1>2, <1>3, <1>4 DEF WaveTypeOK
<1>7. DeviceInv'
  BY <1>1, <1>2, <1>3, <1>4 DEF DeviceInv
<1>8. StopInv' /\ SurplusInv'
  <2>1. SurplusInv' /\ (caller'.at = "join" => surplus' + wave'.totalSize <= MaxBlocks)
    BY <1>1, <1>5, SomeBlocks DEF SurplusInv
  <2>2. QED
    BY <1>1, <1>2, <1>3, <1>4, <1>5, <2>1 DEF StopInv, DeviceInv
<1>9. QED
  BY <1>6, <1>7, <1>8 DEF WaveInv

LEMMA WaveJoin ==
  ASSUME WaveInv, "torn" \notin waveMarks, JoinAndClose
  PROVE  WaveInv'
<1>1. /\ WaveTypeOK /\ DeviceInv /\ StopInv /\ SurplusInv
      /\ caller.at = "join" /\ wave' = NoWave
      /\ player' = [player EXCEPT !.m_ThreadId = "none", !.m_pWaveOut = "closed"]
      /\ caller' = [caller EXCEPT !.at = "then"]
      /\ UNCHANGED <<waveLost, waveMarks, surplus>>
  BY DEF WaveInv, JoinAndClose, WaveJoined
<1>2. caller' \in Calls /\ caller'.at = "then" /\ wave' \in WaveThreads /\ wave'.at = "none"
  BY <1>1, SomeBlocks DEF Calls, WaveTypeOK, NoWave, WaveThreads
<1>3. /\ player' \in WaveHandle /\ player'.open = player.open
      /\ player'.m_ThreadId = "none" /\ player'.m_pWaveOut = "closed"
  BY <1>1 DEF WaveHandle, WaveTypeOK
<1>4. WaveTypeOK'
  BY <1>1, <1>2, <1>3 DEF WaveTypeOK
<1>5. DeviceInv'
  BY <1>1, <1>2, <1>3 DEF DeviceInv
<1>6. StopInv' /\ SurplusInv'
  BY <1>1, <1>2, <1>3 DEF StopInv, SurplusInv
<1>7. QED
  BY <1>4, <1>5, <1>6 DEF WaveInv

LEMMA WaveGoesOn ==
  ASSUME WaveInv, "torn" \notin waveMarks, GoesOn
  PROVE  WaveInv'
<1>1. /\ WaveTypeOK /\ DeviceInv /\ StopInv /\ SurplusInv
      /\ caller.at = "then" /\ caller' = Out /\ UNCHANGED surplus
  BY DEF WaveInv, GoesOn
<1>2. /\ caller' \in Calls /\ caller'.at = "out"
      /\ player.open /\ wave.at = "none" /\ player.m_ThreadId # "created"
  BY <1>1 DEF Out, Calls, StopInv, DeviceInv
<1>3. CASE UNCHANGED <<player, wave, waveLost, waveMarks>>
  <2>1. WaveTypeOK'
    BY <1>1, <1>2, <1>3 DEF WaveTypeOK
  <2>2. DeviceInv'
    BY <1>1, <1>2, <1>3 DEF DeviceInv
  <2>3. StopInv' /\ SurplusInv'
    BY <1>1, <1>2, <1>3 DEF StopInv, SurplusInv
  <2>4. QED
    BY <2>1, <2>2, <2>3 DEF WaveInv
<1>4. CASE player' = NoPlayer /\ UNCHANGED <<wave, waveLost, waveMarks>>
  <2>1. /\ player' \in WaveHandle /\ player'.m_ThreadId = "none"
        /\ player'.m_pWaveOut = "null"
    BY <1>4 DEF NoPlayer, WaveHandle
  <2>2. WaveTypeOK'
    BY <1>1, <1>2, <1>4, <2>1 DEF WaveTypeOK
  <2>3. DeviceInv'
    BY <1>1, <1>2, <1>4, <2>1 DEF DeviceInv
  <2>4. StopInv' /\ SurplusInv'
    BY <1>1, <1>2, <1>4 DEF StopInv, SurplusInv
  <2>5. QED
    BY <2>2, <2>3, <2>4 DEF WaveInv
<1>5. ASSUME NEW ret \in Returns,
             player' = AfterStart(player, ret), ThreadOf(ret, wave'),
             waveLost' = (waveLost \/ StartLoses(player, ret)),
             waveMarks' = waveMarks \cup (IF ret = -5 THEN {"failed"} ELSE {})
      PROVE  WaveInv'
  <2>1. player \in WaveHandle
    BY <1>1 DEF WaveTypeOK
  <2>2. /\ waveMarks \subseteq waveMarks' /\ waveMarks' \subseteq WaveMarks
        /\ ret = -5 => "failed" \in waveMarks'
        /\ "early" \in waveMarks => "early" \in waveMarks'
    BY <1>1, <1>5 DEF WaveTypeOK, WaveMarks
  <2>3. waveLost' => waveLost \/ player.m_pWaveOut = "open"
    BY <1>5 DEF StartLoses
  <2>4. waveLost' \in BOOLEAN
    BY <1>1, <1>5 DEF StartLoses, WaveTypeOK
  <2>5. player.m_ThreadId \in {"none", "failed"}
    BY <1>2, <2>1 DEF WaveHandle
  <2>6. /\ player' \in WaveHandle /\ player'.open = player.open
        /\ ret = 0 => player'.m_ThreadId = "created" /\ player'.m_pWaveOut = "open" /\ player'.m_hFile
        /\ ret = -5 => player'.m_ThreadId = "failed"
        /\ ret \in {-2, -3, -4} =>
             player'.m_ThreadId = player.m_ThreadId /\ player'.m_pWaveOut \in {player.m_pWaveOut, "null"}
    BY <1>5, <2>1, AfterStartIs
  <2>7. /\ wave' \in WaveThreads
        /\ ret = 0 => wave'.at = "created"
        /\ ret # 0 => wave'.at = "none"
    BY <1>5, ThreadOfIs DEF NoWave
  <2>8. WaveTypeOK'
    BY <1>1, <1>2, <2>2, <2>4, <2>6, <2>7 DEF WaveTypeOK
  <2>9. DeviceInv'
    BY <1>1, <1>2, <2>2, <2>3, <2>5, <2>6, <2>7 DEF DeviceInv, Returns
  <2>10. StopInv' /\ SurplusInv'
    BY <1>1, <1>2, <2>2, <2>7 DEF StopInv, SurplusInv
  <2>11. QED
    BY <2>8, <2>9, <2>10 DEF WaveInv
<1>6. QED
  BY <1>3, <1>4, <1>5 DEF GoesOn

\* The steps of the thread: they change the flags of the handle alone.
LEMMA WaveThreadStep ==
  ASSUME WaveInv, "torn" \notin waveMarks,
         ThreadClears \/ ThreadRuns \/ ThreadReads \/ ThreadWrites \/ ThreadChecks \/ ThreadEnds
  PROVE  WaveInv'
<1>1. /\ WaveTypeOK /\ DeviceInv /\ StopInv /\ SurplusInv /\ player \in WaveHandle
      /\ UNCHANGED <<caller, waveLost, waveMarks>>
  BY DEF WaveInv, WaveTypeOK, ThreadClears, ThreadRuns, ThreadReads, ThreadWrites,
         ThreadChecks, ThreadEnds, threadOnly
<1>2. /\ player' \in WaveHandle /\ player'.open = player.open
      /\ player'.m_hFile = player.m_hFile /\ player'.m_pWaveOut = player.m_pWaveOut
      /\ player'.m_ThreadId = player.m_ThreadId
  <2>1. \/ player' = player \/ player' = [player EXCEPT !.m_bStopPlay = FALSE]
        \/ player' = [player EXCEPT !.m_bRunning = TRUE]
        \/ player' = [player EXCEPT !.m_bRunning = FALSE]
    BY DEF ThreadClears, ThreadRuns, ThreadReads, ThreadWrites, ThreadChecks, ThreadEnds
  <2>2. QED
    BY <1>1, <2>1 DEF WaveHandle
<1>3. /\ wave.at # "none" /\ wave.totalSize \in 0 .. MaxBlocks
      /\ wave' \in WaveThreads /\ wave'.at # "none"
  <2>1. wave \in WaveThreads /\ wave.totalSize \in 0 .. MaxBlocks
    BY <1>1 DEF WaveTypeOK, WaveThreads
  <2>2. CASE ThreadWrites
    <3>1. wave.at = "write" /\ wave' = [at |-> "check", totalSize |-> wave.totalSize - 1]
      BY <2>2 DEF ThreadWrites
    <3>2. wave.totalSize - 1 \in 0 .. MaxBlocks
      BY <1>1, <2>1, <3>1, SomeBlocks DEF StopInv
    <3>3. QED
      BY <2>1, <3>1, <3>2 DEF WaveThreads
  <2>3. CASE ThreadClears \/ ThreadRuns \/ ThreadReads \/ ThreadChecks \/ ThreadEnds
    <3>1. /\ wave.at # "none"
          /\ \E at \in {"cleared", "read", "write", "over", "ended"} :
               wave' = [wave EXCEPT !.at = at]
      BY <2>3 DEF ThreadClears, ThreadRuns, ThreadReads, ThreadChecks, ThreadEnds
    <3>2. QED
      BY <2>1, <3>1 DEF WaveThreads
  <2>4. QED
    BY <2>2, <2>3
<1>4. DeviceInv'
  BY <1>1, <1>2, <1>3 DEF DeviceInv
<1>5. surplus' \in 0 .. MaxBlocks /\ StopInv' /\ SurplusInv'
  <2>1. CASE ThreadClears
    <3>1. wave.at = "created" /\ wave'.at = "cleared" /\ wave'.totalSize = wave.totalSize
      BY <1>1, <2>1 DEF ThreadClears, WaveTypeOK, WaveThreads
    <3>2. surplus' = surplus
      BY <2>1 DEF ThreadClears
    <3>3. QED
      BY <1>1, <3>1, <3>2 DEF WaveTypeOK, StopInv, SurplusInv
  <2>2. CASE ThreadRuns
    <3>1. /\ wave.at = "cleared" /\ wave'.at = "read" /\ wave'.totalSize = wave.totalSize
          /\ player'.m_bRunning /\ player'.m_bStopPlay = player.m_bStopPlay
      BY <1>1, <2>2 DEF ThreadRuns, WaveTypeOK, WaveThreads, WaveHandle
    <3>2. surplus' = surplus
      BY <2>2 DEF ThreadRuns
    <3>3. QED
      BY <1>1, <3>1, <3>2 DEF WaveTypeOK, StopInv, SurplusInv
  <2>3. CASE ThreadReads
    <3>1. /\ wave.at = "read" /\ wave'.at \in {"write", "over"}
          /\ wave'.totalSize = wave.totalSize
          /\ wave'.at = "write" => wave'.totalSize > 0
      BY <1>1, <2>3 DEF ThreadReads, WaveTypeOK, WaveThreads
    <3>2. surplus' = surplus /\ player' = player
      BY <2>3 DEF ThreadReads
    <3>3. QED
      BY <1>1, <3>1, <3>2 DEF WaveTypeOK, StopInv, SurplusInv
  <2>4. CASE ThreadWrites
    <3>1. /\ wave.at = "write" /\ wave'.at = "check"
          /\ wave'.totalSize = wave.totalSize - 1 /\ player' = player
          /\ surplus' = IF caller.at = "join" THEN surplus + 1 ELSE surplus
      BY <2>4 DEF ThreadWrites
    <3>2. wave'.totalSize \in 0 .. MaxBlocks
      BY <1>3 DEF WaveThreads
    <3>3. CASE caller.at = "join"
      <4>1. surplus + wave.totalSize <= MaxBlocks /\ surplus \in Nat
        BY <1>1, <3>3 DEF StopInv, WaveTypeOK
      <4>2. /\ surplus' \in 0 .. MaxBlocks
            /\ surplus' + wave'.totalSize <= MaxBlocks
        BY <1>3, <3>1, <3>2, <3>3, <4>1, SomeBlocks
      <4>3. "early" \notin waveMarks => surplus' = 1
        BY <1>1, <3>1, <3>3, <4>1 DEF StopInv
      <4>4. ~("waited" \in waveMarks /\ "unborn" \notin waveMarks)
        BY <1>1, <3>1, <3>3 DEF StopInv
      <4>5. QED
        BY <1>1, <3>1, <3>3, <4>2, <4>3, <4>4 DEF StopInv, SurplusInv
    <3>4. CASE caller.at # "join"
      BY <1>1, <3>1, <3>4 DEF WaveTypeOK, StopInv, SurplusInv
    <3>5. QED
      BY <3>3, <3>4
  <2>5. CASE ThreadChecks
    <3>1. /\ wave.at = "check" /\ wave'.totalSize = wave.totalSize
          /\ \/ player.m_bStopPlay /\ wave'.at = "over"
             \/ ~player.m_bStopPlay /\ wave'.at = "read"
      BY <1>1, <2>5 DEF ThreadChecks, Stopped, WaveTypeOK, WaveThreads
    <3>2. surplus' = surplus /\ player' = player
      BY <2>5 DEF ThreadChecks
    <3>3. QED
      BY <1>1, <3>1, <3>2 DEF WaveTypeOK, StopInv, SurplusInv
  <2>6. CASE ThreadEnds
    <3>1. /\ wave.at = "over" /\ wave'.at = "ended" /\ wave'.totalSize = wave.totalSize
          /\ player'.m_bStopPlay = player.m_bStopPlay
      BY <1>1, <2>6 DEF ThreadEnds, WaveTypeOK, WaveThreads, WaveHandle
    <3>2. surplus' = surplus
      BY <2>6 DEF ThreadEnds
    <3>3. QED
      BY <1>1, <3>1, <3>2 DEF WaveTypeOK, StopInv, SurplusInv
  <2>7. QED
    BY <2>1, <2>2, <2>3, <2>4, <2>5, <2>6
<1>6. WaveTypeOK'
  BY <1>1, <1>2, <1>3, <1>5 DEF WaveTypeOK
<1>7. QED
  BY <1>4, <1>5, <1>6 DEF WaveInv

LEMMA WaveInvStep == WaveInv /\ [WaveNext]_waveVars => WaveInv'
<1> SUFFICES ASSUME WaveInv, [WaveNext]_waveVars PROVE WaveInv'
  OBVIOUS
<1>0. WaveNext => "torn" \notin waveMarks
  BY DEF WaveNext
<1>1. CASE /\ "torn" \notin waveMarks
           /\ \/ NX_AudioPlay \/ StopWaveFile
              \/ \E bImmediate \in BOOLEAN : NX_AudioStop(bImmediate)
  BY <1>1, WaveCallsBegin DEF NX_AudioPlay, StopWaveFile, NX_AudioStop
<1>2. CASE UNCHANGED waveVars
  BY <1>2 DEF waveVars, WaveInv, WaveTypeOK, DeviceInv, StopInv, SurplusInv
<1>3. QED
  BY <1>0, <1>1, <1>2, WaveOpens, WaveDeinit, WavePollEnds, WaveSetStopPlay, WaveJoin,
     WaveGoesOn, WaveThreadStep DEF WaveNext

(* A stop is heeded within one block of the file, and a stop that waits for  *)
(* the end finds the thread through, however long the file is: m_bStopPlay   *)
(* and m_bRunning need no mutex for it, but for a stop or a wait that comes  *)
(* before the new thread has begun.                                          *)
THEOREM PlayerAlwaysStops == WaveSpec => []StopsAndWaits
<1>1. WaveInv => StopsAndWaits
  BY DEF WaveInv, SurplusInv, StopInv, StopsAndWaits
<1>2. QED
  BY <1>1, WaveInit, WaveInvStep, PTL DEF WaveSpec

(* The thread always has an open file and an open device, unless             *)
(* NX_AudioDeinit deletes the handle under it; no device stays open between  *)
(* playbacks, and none is lost but after a pthread_create that failed.       *)
THEOREM DevicesAlwaysAccounted == WaveSpec => []DevicesAccounted
<1>1. WaveInv => DevicesAccounted
  BY DEF WaveInv, DeviceInv, DevicesAccounted
<1>2. QED
  BY <1>1, WaveInit, WaveInvStep, PTL DEF WaveSpec

-----------------------------------------------------------------------------
(* MoviePlay: what Open builds.                                              *)

Elements == {"input_src", "demuxer", "video_parse", "video_queue", "video_decoder",
             "video_sink", "audio_parse", "audio_queue", "audio_decoder", "volume",
             "audio_convert", "audio_sink"}

(* A list of elements ends before the first that was not made.               *)
LEMMA UpToNullIs ==
  ASSUME NEW list \in Seq(Elements), NEW made
  PROVE  \E n \in 0 .. Len(list) :
           /\ UpToNull(list, made) = SubSeq(list, 1, n)
           /\ \A i \in 1 .. n : list[i] \in made
           /\ n < Len(list) => list[n + 1] \notin made
<1> DEFINE I == {i \in 1 .. Len(list) : list[i] \notin made}
           end == SelectInSeq(list, LAMBDA e : e \notin made)
<1>1. end = IF I # {} THEN Min(I) ELSE 0
  BY DEF SelectInSeq
<1>2. UpToNull(list, made) = IF end = 0 THEN list ELSE SubSeq(list, 1, end - 1)
  BY DEF UpToNull
<1>3. CASE I = {}
  <2>1. end = 0 /\ \A i \in 1 .. Len(list) : list[i] \in made
    BY <1>1, <1>3
  <2>2. UpToNull(list, made) = SubSeq(list, 1, Len(list))
    BY <1>2, <2>1
  <2>3. Len(list) \in 0 .. Len(list)
    OBVIOUS
  <2>4. QED
    BY <2>1, <2>2, <2>3
<1>4. CASE I # {}
  <2>1. PICK k \in I : TRUE
    BY <1>4
  <2>2. Min(I) \in I /\ \A i \in I : Min(I) <= i
    <3>1. I \in SUBSET Nat
      OBVIOUS
    <3>2. PICK n \in I : \A i \in I : ~(<<i, n>> \in OpToRel(<, Nat))
      <4> HIDE DEF I
      <4>1. QED
        BY <1>4, <3>1, WFMin, NatLessThanWellFounded, Zenon
    <3>3. \A i \in I : n <= i
      <4>1. \A a, b \in Nat : a < b => <<a, b>> \in OpToRel(<, Nat)
        BY DEF OpToRel
      <4>2. n \in Nat /\ \A i \in I : i \in Nat
        BY <3>1
      <4>3. \A i \in I : ~(i < n)
        <5> HIDE DEF I
        <5>1. QED
          BY <3>2, <4>1, <4>2, Zenon
      <4>4. QED
        BY <4>2, <4>3
    <3>4. QED
      BY <3>3 DEF Min
  <2>3. end \in 1 .. Len(list) /\ list[end] \notin made
    BY <1>1, <1>4, <2>2
  <2>4. ASSUME NEW i \in 1 .. end - 1, list[i] \notin made PROVE FALSE
    <3>1. i \in I /\ i < end
      BY <2>3, <2>4
    <3>2. end = Min(I) /\ end \in Int
      BY <1>1, <1>4, <2>3
    <3> HIDE DEF I, end
    <3>3. QED
      BY <2>2, <3>1, <3>2
  <2> HIDE DEF end
  <2>5. UpToNull(list, made) = SubSeq(list, 1, end - 1)
    BY <1>2, <2>3
  <2>6. end - 1 \in 0 .. Len(list) /\ end - 1 + 1 = end
    BY <2>3
  <2>7. QED
    BY <2>3, <2>4, <2>5, <2>6
<1>5. QED
  BY <1>3, <1>4

(* Of a list of elements only those that were made get into the bin, and all *)
(* of them do if all were made.                                              *)
LEMMA AddManyIs ==
  ASSUME NEW list \in Seq(Elements), NEW made
  PROVE  /\ AddMany(list, made) \subseteq made
         /\ ToSet(list) \subseteq made => AddMany(list, made) = ToSet(list)
<1>1. PICK n \in 0 .. Len(list) :
        /\ UpToNull(list, made) = SubSeq(list, 1, n)
        /\ \A i \in 1 .. n : list[i] \in made
        /\ n < Len(list) => list[n + 1] \notin made
  BY UpToNullIs
<1>2. AddMany(list, made) = ToSet(SubSeq(list, 1, n))
  BY <1>1 DEF AddMany
<1>3. AddMany(list, made) \subseteq made
  BY <1>1, <1>2 DEF ToSet
<1>4. ASSUME ToSet(list) \subseteq made PROVE AddMany(list, made) = ToSet(list)
  <2>1. n = Len(list)
    BY <1>1, <1>4 DEF ToSet
  <2>2. SubSeq(list, 1, n) = list
    BY <2>1
  <2>3. QED
    BY <1>2, <2>2
<1>5. QED
  BY <1>3, <1>4

(* What stands at the head of a list is added, if it was made.               *)
LEMMA HeadIsAdded ==
  ASSUME NEW s \in Seq(Elements), NEW t \in Seq(Elements), NEW made,
         ToSet(s) \subseteq made
  PROVE  ToSet(s) \subseteq AddMany(s \o t, made)
<1> DEFINE list == s \o t
<1>1. /\ list \in Seq(Elements) /\ Len(list) = Len(s) + Len(t)
      /\ \A i \in 1 .. Len(s) : list[i] = s[i]
  OBVIOUS
<1> HIDE DEF list
<1>2. PICK n \in 0 .. Len(list) :
        /\ UpToNull(list, made) = SubSeq(list, 1, n)
        /\ \A i \in 1 .. n : list[i] \in made
        /\ n < Len(list) => list[n + 1] \notin made
  BY <1>1, UpToNullIs
<1>3. n >= Len(s)
  <2>1. SUFFICES ASSUME n < Len(s) PROVE FALSE
    BY <1>2
  <2>2. n + 1 \in 1 .. Len(s) /\ n < Len(list)
    BY <1>1, <1>2, <2>1
  <2>3. list[n + 1] = s[n + 1]
    BY <1>1, <2>2
  <2>4. s[n + 1] \in ToSet(s)
    BY <2>2 DEF ToSet
  <2>5. QED
    BY <1>2, <2>2, <2>3, <2>4
<1>4. ASSUME NEW x \in ToSet(s) PROVE x \in ToSet(SubSeq(list, 1, n))
  <2>1. PICK i \in 1 .. Len(s) : x = s[i]
    BY DEF ToSet
  <2>2. /\ i \in 1 .. n /\ x = list[i]
        /\ DOMAIN SubSeq(list, 1, n) = 1 .. n
        /\ SubSeq(list, 1, n)[i] = list[i]
    BY <1>1, <1>2, <1>3, <2>1
  <2>3. QED
    BY <2>2 DEF ToSet
<1>5. QED
  BY <1>2, <1>4 DEF AddMany, list

(* gst_element_link_many reports no success without its second element.      *)
LEMMA LinkNeedsTwo ==
  ASSUME NEW list \in Seq(Elements), NEW made, NEW bin, LinkMany(list, made, bin),
         Len(list) >= 2
  PROVE  list[2] \in made
<1>1. PICK n \in 0 .. Len(list) :
        /\ UpToNull(list, made) = SubSeq(list, 1, n)
        /\ \A i \in 1 .. n : list[i] \in made
  BY UpToNullIs
<1>2. Len(SubSeq(list, 1, n)) = n
  OBVIOUS
<1>3. n >= 2
  BY <1>1, <1>2 DEF LinkMany
<1>4. QED
  BY <1>1, <1>3

\* The elements of a list that is made of two.
LEMMA ToSetOfTwo ==
  ASSUME NEW s \in Seq(Elements), NEW t \in Seq(Elements)
  PROVE  s \o t \in Seq(Elements) /\ ToSet(s \o t) = ToSet(s) \cup ToSet(t)
<1>1. /\ DOMAIN (s \o t) = 1 .. Len(s) + Len(t)
      /\ DOMAIN s = 1 .. Len(s) /\ DOMAIN t = 1 .. Len(t)
      /\ \A i \in 1 .. Len(s) : (s \o t)[i] = s[i]
      /\ \A i \in 1 .. Len(t) : (s \o t)[i + Len(s)] = t[i]
  OBVIOUS
<1>2. ASSUME NEW x \in ToSet(s \o t) PROVE x \in ToSet(s) \cup ToSet(t)
  <2>1. PICK i \in 1 .. Len(s) + Len(t) : x = (s \o t)[i]
    BY <1>1, <1>2 DEF ToSet
  <2>2. CASE i <= Len(s)
    BY <1>1, <2>1, <2>2 DEF ToSet
  <2>3. CASE i > Len(s)
    <3>1. i - Len(s) \in 1 .. Len(t) /\ x = t[i - Len(s)]
      BY <2>1, <2>3
    <3>2. QED
      BY <1>1, <3>1 DEF ToSet
  <2>4. QED
    BY <2>2, <2>3
<1>3. ASSUME NEW x \in ToSet(s) \cup ToSet(t) PROVE x \in ToSet(s \o t)
  <2>1. CASE x \in ToSet(s)
    BY <1>1, <2>1 DEF ToSet
  <2>2. CASE x \in ToSet(t)
    <3>1. PICK i \in 1 .. Len(t) : x = t[i]
      BY <1>1, <2>2 DEF ToSet
    <3>2. i + Len(s) \in DOMAIN (s \o t) /\ x = (s \o t)[i + Len(s)]
      BY <1>1, <3>1
    <3>3. QED
      BY <3>2 DEF ToSet
  <2>3. QED
    BY <1>3, <2>1, <2>2
<1>4. QED
  BY <1>2, <1>3

LEMMA ToSetOfThree ==
  ASSUME NEW s \in Seq(Elements), NEW t \in Seq(Elements), NEW u \in Seq(Elements)
  PROVE  s \o t \o u \in Seq(Elements) /\ ToSet(s \o t \o u) = ToSet(s) \cup ToSet(t) \cup ToSet(u)
<1> DEFINE st == s \o t
<1>1. st \in Seq(Elements) /\ ToSet(st) = ToSet(s) \cup ToSet(t)
  BY ToSetOfTwo
<1> HIDE DEF st
<1>2. st \o u \in Seq(Elements) /\ ToSet(st \o u) = ToSet(st) \cup ToSet(u)
  BY <1>1, ToSetOfTwo
<1>3. QED
  BY <1>1, <1>2 DEF st

\* A path of a track, in its parts.
LEMMA PathsAre ==
  ASSUME NEW c, NEW parse \in BOOLEAN
  PROVE  /\ VideoQueuePath(c) \in Seq(Elements) /\ Len(VideoQueuePath(c)) >= 2
         /\ Program(c) => VideoQueuePath(c)[2] = "video_parse"
         /\ VideoPath(c) \in Seq(Elements) /\ AudioTail(parse) \in Seq(Elements)
         /\ ToSet(VideoPath(c)) =
              (IF Program(c) THEN {"video_parse"} ELSE {})
                \cup {"input_src", "demuxer"} \cup VideoRequired
         /\ ToSet(AudioTail(parse)) =
              (IF parse THEN {"audio_parse"} ELSE {})
                \cup {"audio_decoder", "volume", "audio_convert", "audio_sink"}
<1> DEFINE a == <<"input_src", "demuxer">>
           q == VideoQueuePath(c)
           x == IF parse THEN <<"audio_parse">> ELSE <<>>
           y == <<"audio_decoder", "volume", "audio_convert", "audio_sink">>
<1>1. a \in Seq(Elements) /\ ToSet(a) = {"input_src", "demuxer"}
  <2>1. DOMAIN a = 1 .. 2
    OBVIOUS
  <2>2. QED
    BY <2>1 DEF Elements, ToSet
<1>2. /\ q \in Seq(Elements) /\ Len(q) >= 2
      /\ Program(c) => q[2] = "video_parse"
      /\ ToSet(q) = (IF Program(c) THEN {"video_parse"} ELSE {}) \cup VideoRequired
  <2>1. CASE Program(c)
    <3> DEFINE v == <<"video_queue", "video_parse", "video_decoder", "video_sink">>
    <3>1. v \in Seq(Elements) /\ Len(v) = 4 /\ v[2] = "video_parse"
      BY DEF Elements
    <3>2. ToSet(v) = {"video_parse"} \cup VideoRequired
      <4>1. DOMAIN v = 1 .. 4
        OBVIOUS
      <4>2. QED
        BY <4>1 DEF ToSet, VideoRequired
    <3>3. q = v
      BY <2>1 DEF VideoQueuePath
    <3> HIDE DEF v
    <3>4. QED
      BY <2>1, <3>1, <3>2, <3>3
  <2>2. CASE ~Program(c)
    <3> DEFINE v == <<"video_queue", "video_decoder", "video_sink">>
    <3>1. v \in Seq(Elements) /\ Len(v) = 3
      BY DEF Elements
    <3>2. ToSet(v) = VideoRequired
      <4>1. DOMAIN v = 1 .. 3
        OBVIOUS
      <4>2. QED
        BY <4>1 DEF ToSet, VideoRequired
    <3>3. q = v
      BY <2>2 DEF VideoQueuePath
    <3>4. (IF Program(c) THEN {"video_parse"} ELSE {}) \cup VideoRequired = VideoRequired
      BY <2>2
    <3> HIDE DEF v, q
    <3>5. Len(q) >= 2
      <4>1. Len(q) = 3
        BY <3>1, <3>3
      <4>2. QED
        BY <4>1
    <3>6. QED
      BY <2>2, <3>1, <3>2, <3>3, <3>4, <3>5
  <2>3. QED
    BY <2>1, <2>2
<1>3. y \in Seq(Elements)
  BY DEF Elements
<1>4. <<"audio_parse">> \in Seq(Elements) /\ <<>> \in Seq(Elements)
  BY DEF Elements
<1>5. x \in Seq(Elements)
  BY <1>4
<1>6. ToSet(<<"audio_parse">>) = {"audio_parse"} /\ ToSet(<<>>) = {}
  BY DEF ToSet
<1>7. ToSet(x) = (IF parse THEN {"audio_parse"} ELSE {})
  BY <1>6
<1>8. ToSet(y) = {"audio_decoder", "volume", "audio_convert", "audio_sink"}
  <2>1. DOMAIN y = 1 .. 4
    OBVIOUS
  <2>2. QED
    BY <2>1 DEF ToSet
<1>9. VideoPath(c) = a \o q /\ AudioTail(parse) = x \o y
  BY DEF VideoPath, AudioTail
<1> HIDE DEF a, q, x, y
<1>10. VideoPath(c) \in Seq(Elements) /\ ToSet(VideoPath(c)) = ToSet(a) \cup ToSet(q)
  BY <1>1, <1>2, <1>9, ToSetOfTwo
<1>11. AudioTail(parse) \in Seq(Elements) /\ ToSet(AudioTail(parse)) = ToSet(x) \cup ToSet(y)
  BY <1>3, <1>5, <1>9, ToSetOfTwo
<1>12. ToSet(VideoPath(c)) = (IF Program(c) THEN {"video_parse"} ELSE {})
                               \cup {"input_src", "demuxer"} \cup VideoRequired
  BY <1>1, <1>2, <1>10
<1>13. QED
  BY <1>2, <1>7, <1>8, <1>10, <1>11, <1>12 DEF q

\* What Open takes for a success can be played, or is the sound known to be mute.
LEMMA OkIsPlayable ==
  ASSUME NEW c \in Contents, NEW missing \in Missing, Built(c, missing).ok
  PROVE  Built(c, missing).video /\ (Built(c, missing).audio \/ Built(c, missing).mute)
<1> DEFINE made == Made(c, missing)
           bin == Bin(c, made)
           built == Built(c, missing)
           queue == <<"audio_queue">>
           source == <<"input_src">>
           none == <<>>
           parse == IF Program(c) THEN c.type = "ac3" ELSE Parsed(c)
<1>1. /\ Required(c) \subseteq made
      /\ c.video => VideoLinked(c, made, bin)
      /\ ~c.video => AudioOnlyLinked(c, made, bin)
  BY DEF Built, AudioOnly
<1>2. /\ built.video = (c.video => VideoWhole(c, bin))
      /\ built.audio = (c.audio => AudioWhole(c, bin) /\ PadFits(c))
      /\ built.mute = (/\ c.audio /\ Parsed(c)
                       /\ \/ missing = "audio_parse"
                          \/ /\ c.video
                             /\ \/ c.type = "dts" \/ (c.type = "flac" /\ Program(c))
                                \/ c.first # c.type)
  BY DEF Built
<1>3. c.video \in BOOLEAN /\ c.audio \in BOOLEAN /\ (c.video \/ c.audio) /\ c.type \in Audios
  BY DEF Contents
<1>4. queue \in Seq(Elements) /\ ToSet(queue) = {"audio_queue"}
  BY DEF Elements, ToSet
<1>5. source \in Seq(Elements) /\ ToSet(source) = {"input_src"}
  BY DEF Elements, ToSet
<1>6. none \in Seq(Elements) /\ ToSet(none) = {}
  BY DEF ToSet
<1>7. parse \in BOOLEAN /\ Parsed(c) \in BOOLEAN
  <2>1. Parsed(c) \in BOOLEAN
    BY DEF Parsed
  <2>2. CASE Program(c)
    BY <2>1, <2>2
  <2>3. CASE ~Program(c)
    BY <2>1, <2>3
  <2>4. QED
    BY <2>2, <2>3
<1> HIDE DEF bin, made, parse, queue, source, none
<1>8. ASSUME c.video PROVE VideoWhole(c, bin)
  <2>1. Program(c) => "video_parse" \in made
    BY <1>1, <1>8, LinkNeedsTwo, PathsAre DEF VideoLinked
  <2>2. /\ VideoPath(c) \in Seq(Elements) /\ ToSet(VideoPath(c)) \subseteq made
    BY <1>1, <1>8, <2>1, PathsAre DEF Required
  <2>3. CASE ~c.audio
    <3>1. bin = AddMany(VideoPath(c), made)
      BY <1>8, <2>3 DEF bin, Bin, AudioOnly, VideoOnly, VideoOnlyList
    <3>2. QED
      BY <2>2, <3>1, AddManyIs DEF VideoWhole, Whole
  <2>4. CASE c.audio
    <3> DEFINE head == VideoPath(c) \o queue
               tail == AudioTail(parse)
    <3>1. bin = AddMany(head \o tail, made)
      BY <1>8, <2>4 DEF bin, Bin, AudioOnly, VideoOnly, VideoAudioList, parse, queue
    <3>2. tail \in Seq(Elements)
      BY <1>7, PathsAre
    <3>3. head \in Seq(Elements) /\ ToSet(head) = ToSet(VideoPath(c)) \cup {"audio_queue"}
      BY <1>4, <2>2, ToSetOfTwo
    <3>4. "audio_queue" \in made
      BY <1>1, <2>4 DEF Required, AudioRequired
    <3> HIDE DEF head, tail
    <3>5. ToSet(head) \subseteq AddMany(head \o tail, made)
      BY <2>2, <3>2, <3>3, <3>4, HeadIsAdded
    <3>6. QED
      BY <3>1, <3>3, <3>5 DEF VideoWhole, Whole
  <2>5. QED
    BY <1>3, <2>3, <2>4
<1>9. ASSUME c.audio, ~c.video, ~built.mute PROVE AudioWhole(c, bin) /\ PadFits(c)
  <2> DEFINE tail == AudioTail(Parsed(c))
             head == <<"input_src", "audio_queue">>
             list == head \o tail
  <2>1. Parsed(c) => "audio_parse" \in made
    BY <1>2, <1>9 DEF Parsed, made, Made, ParsersMade, AudioOnly
  <2>2. /\ tail \in Seq(Elements)
        /\ ToSet(tail) = (IF Parsed(c) THEN {"audio_parse"} ELSE {})
             \cup {"audio_decoder", "volume", "audio_convert", "audio_sink"}
    BY <1>7, PathsAre
  <2>3. head \in Seq(Elements) /\ ToSet(head) = {"input_src", "audio_queue"}
    <3>1. DOMAIN head = 1 .. 2
      OBVIOUS
    <3>2. QED
      BY <3>1 DEF Elements, ToSet
  <2>4. bin = AddMany(list, made)
    BY <1>9 DEF bin, Bin, AudioOnly, AudioOnlyList
  <2>5. AudioWhole(c, bin) <=> ToSet(source \o queue \o tail) \subseteq bin
    BY <1>9 DEF AudioWhole, Whole, AudioOnly, source, queue
  <2> HIDE DEF tail, head
  <2>6. /\ list \in Seq(Elements)
        /\ ToSet(list) = {"input_src", "audio_queue"} \cup ToSet(tail)
        /\ ToSet(source \o queue \o tail) = {"input_src", "audio_queue"} \cup ToSet(tail)
    BY <1>4, <1>5, <2>2, <2>3, ToSetOfTwo, ToSetOfThree
  <2> HIDE DEF list
  <2>7. ToSet(list) \subseteq made
    BY <1>1, <1>9, <2>1, <2>2, <2>6 DEF Required, AudioRequired
  <2>8. QED
    BY <1>9, <2>4, <2>5, <2>6, <2>7, AddManyIs DEF PadFits, AudioOnly
<1>10. ASSUME c.video, c.audio, ~built.mute PROVE AudioWhole(c, bin) /\ PadFits(c)
  <2>1. \/ c.type = "other"
        \/ /\ c.type \in {"ac3", "flac"} /\ (c.type = "flac" => ~Program(c))
           /\ missing # "audio_parse" /\ c.first = c.type
    BY <1>2, <1>3, <1>10 DEF Parsed, Audios
  <2>2. PadFits(c) /\ parse = Parsed(c)
    <3>1. PadFits(c)
      BY <2>1 DEF PadFits
    <3>2. Parsed(c) <=> c.type # "other"
      BY <2>1 DEF Parsed
    <3>3. CASE Program(c)
      <4>1. c.type = "other" \/ c.type = "ac3"
        BY <2>1, <3>3
      <4>2. (c.type = "ac3") = Parsed(c)
        BY <1>7, <3>2, <4>1
      <4>3. QED
        BY <3>1, <3>3, <4>2 DEF parse
    <3>4. CASE ~Program(c)
      BY <3>1, <3>4 DEF parse
    <3>5. QED
      BY <3>3, <3>4
  <2>3. parse => "audio_parse" \in made
    BY <1>10, <2>1, <2>2 DEF Parsed, made, Made, ParsersMade
  <2> DEFINE tail == AudioTail(parse)
             list == VideoPath(c) \o queue \o tail
  <2>4. /\ VideoPath(c) \in Seq(Elements) /\ tail \in Seq(Elements)
        /\ ToSet(tail) = (IF parse THEN {"audio_parse"} ELSE {})
             \cup {"audio_decoder", "volume", "audio_convert", "audio_sink"}
    BY <1>7, PathsAre
  <2>5. /\ list \in Seq(Elements)
        /\ ToSet(list) = ToSet(VideoPath(c)) \cup {"audio_queue"} \cup ToSet(tail)
    <3> HIDE DEF tail
    <3>1. QED
      BY <1>4, <2>4, ToSetOfThree
  <2>6. bin = AddMany(list, made)
    BY <1>10 DEF bin, Bin, AudioOnly, VideoOnly, VideoAudioList, parse, queue
  <2>7. ToSet(none \o queue \o tail) = {"audio_queue"} \cup ToSet(tail)
    <3> HIDE DEF tail
    <3>1. QED
      BY <1>4, <1>6, <2>4, ToSetOfThree
  <2>8. AudioWhole(c, bin) <=> ToSet(none \o queue \o tail) \subseteq bin
    BY <1>10, <2>2 DEF AudioWhole, Whole, AudioOnly, none, queue
  <2> HIDE DEF list
  <2>9. ToSet(VideoPath(c)) \subseteq made
    <3>1. VideoWhole(c, bin)
      BY <1>8, <1>10
    <3>2. QED
      BY <2>5, <2>6, <3>1, AddManyIs DEF VideoWhole, Whole
  <2>10. ToSet(tail) \cup {"audio_queue"} \subseteq made
    BY <1>1, <1>10, <2>3, <2>4 DEF Required, AudioRequired
  <2>11. bin = ToSet(list)
    BY <2>5, <2>6, <2>9, <2>10, AddManyIs
  <2>12. QED
    BY <2>2, <2>5, <2>7, <2>8, <2>11
<1>11. QED
  BY <1>2, <1>3, <1>8, <1>9, <1>10

-----------------------------------------------------------------------------
(* MoviePlay: the handles.                                                   *)

(* A loop thread runs between an Open and the end of its Close, and the      *)
(* handle lives as long; the program is then in the middle of its calls.     *)
(* What is open can be played; what is left of an Open that failed is known. *)
PlayerInv(p) ==
  /\ thread[p] \notin {"none", "ended"} => handle[p].pipeline_is_linked
  /\ handle[p].pipeline_is_linked =>
       /\ handle[p].mem = "live" /\ user[p] \notin {"out", "erred"}
       /\ handle[p].built.video /\ (handle[p].built.audio \/ handle[p].built.mute)
  /\ user[p] = "erred" => failed
  /\ handle[p].pipeline /\ ~handle[p].pipeline_is_linked => failed

FaultInv ==
  /\ wild # "own"
  /\ wild = "erred" => failed
  /\ lost => failed

MovieInv == TypeOK /\ (\A p \in Players : PlayerInv(p)) /\ FaultInv

LEMMA MovieInit == Init => MovieInv
<1> SUFFICES ASSUME Init PROVE MovieInv
  OBVIOUS
<1>1. TypeOK
  <2>1. NoHandle \in Handle
    BY DEF NoHandle, Handle
  <2>2. handle \in [Players -> Handle]
    BY <2>1 DEF Init
  <2>3. /\ user \in [Players -> Users]
        /\ state \in [Players -> {"NULL", "READY", "PAUSED", "PLAYING"}]
        /\ eos \in [Players -> {"no", "posted", "taken"}]
        /\ thread \in [Players -> Threads]
        /\ is_running \in [Players -> BOOLEAN]
    BY DEF Init, Users, Threads
  <2>4. call \in [of : Players \cup {None}, at : {"popped", "called"}]
    BY DEF Init, NoCall
  <2>5. ready \subseteq Players /\ wild = "no" /\ ~lost /\ lost \in BOOLEAN /\ failed \in BOOLEAN
    BY DEF Init
  <2>6. QED
    BY <2>2, <2>3, <2>4, <2>5 DEF TypeOK
<1>2. ASSUME NEW p \in Players PROVE PlayerInv(p)
  <2>1. thread[p] = "none" /\ user[p] = "out" /\ handle[p] = NoHandle
    BY DEF Init
  <2>2. ~handle[p].pipeline_is_linked /\ ~handle[p].pipeline
    BY <2>1 DEF NoHandle
  <2>3. QED
    BY <2>1, <2>2 DEF PlayerInv
<1>3. FaultInv
  BY DEF Init, FaultInv
<1>4. QED
  BY <1>1, <1>2, <1>3 DEF MovieInv

\* A step of one handle leaves the others alone.
LEMMA OthersKeep ==
  ASSUME MovieInv, NEW p \in Players, TypeOK',
         \A q \in Players \ {p} :
           handle'[q] = handle[q] /\ user'[q] = user[q] /\ thread'[q] = thread[q],
         failed => failed', PlayerInv(p)', FaultInv'
  PROVE  MovieInv'
<1>1. ASSUME NEW q \in Players, q # p PROVE PlayerInv(q)'
  BY <1>1 DEF MovieInv, PlayerInv
<1>2. QED
  BY <1>1 DEF MovieInv

\* A handle that has no pipeline, live or freed.
LEMMA IdleHandle ==
  ASSUME NEW m \in {"none", "live", "freed"}
  PROVE  LET h == [NoHandle EXCEPT !.mem = m]
         IN  h \in Handle /\ h.pipeline_is_linked = FALSE /\ h.pipeline = FALSE
<1> DEFINE h == [NoHandle EXCEPT !.mem = m]
           bs == {Built(c, x) : c \in Contents, x \in Missing} \cup {None}
<1>1. h = [mem |-> m, pipeline |-> FALSE, pipeline_is_linked |-> FALSE, built |-> None]
  <2>1. ASSUME NEW no
        PROVE  [[mem |-> "none", pipeline |-> no, pipeline_is_linked |-> no,
                 built |-> None] EXCEPT !.mem = m]
                 = [mem |-> m, pipeline |-> no, pipeline_is_linked |-> no, built |-> None]
    OBVIOUS
  <2>2. QED
    BY <2>1, Zenon DEF NoHandle
<1>2. None \in bs
  OBVIOUS
<1>3. Handle = [mem : {"none", "live", "freed"}, pipeline : BOOLEAN,
                pipeline_is_linked : BOOLEAN, built : bs]
  BY DEF Handle
<1> HIDE DEF bs, h
<1>4. h \in Handle
  BY <1>1, <1>2, <1>3
<1>5. h.pipeline_is_linked = FALSE /\ h.pipeline = FALSE
  BY <1>1
<1>6. QED
  BY <1>4, <1>5 DEF h

LEMMA MovieSetFileName ==
  ASSUME MovieInv, NEW p \in Players, NX_MPSetFileName(p)
  PROVE  MovieInv'
<1> DEFINE h == [NoHandle EXCEPT !.mem = "live"]
<1>1. /\ TypeOK /\ PlayerInv(p) /\ FaultInv
      /\ user[p] = "out" /\ handle' = [handle EXCEPT ![p] = h]
      /\ user' = [user EXCEPT ![p] = "in"]
      /\ state' = [state EXCEPT ![p] = "NULL"] /\ eos' = [eos EXCEPT ![p] = "no"]
      /\ UNCHANGED <<thread, is_running, ready, call, wild, lost, failed>>
  BY DEF MovieInv, NX_MPSetFileName, loopVars
<1>2. h \in Handle /\ h.pipeline_is_linked = FALSE /\ h.pipeline = FALSE
  BY IdleHandle
<1> HIDE DEF h
<1>3. /\ handle'[p] = h /\ user'[p] = "in" /\ thread'[p] = thread[p]
      /\ thread[p] \in {"none", "ended"}
  BY <1>1 DEF TypeOK, PlayerInv
<1>4. TypeOK'
  BY <1>1, <1>2 DEF TypeOK, Users
<1>5. PlayerInv(p)'
  BY <1>2, <1>3 DEF PlayerInv
<1>6. FaultInv'
  BY <1>1 DEF FaultInv
<1>7. QED
  BY <1>1, <1>4, <1>5, <1>6, OthersKeep DEF TypeOK

LEMMA MovieOpen ==
  ASSUME MovieInv, NEW p \in Players, NX_MPOpen(p)
  PROVE  MovieInv'
<1>1. /\ TypeOK /\ PlayerInv(p) /\ FaultInv
      /\ handle[p] \in Handle /\ handle[p].mem = "live" /\ ~handle[p].pipeline_is_linked
      /\ UNCHANGED <<eos, ready, call, wild>>
  BY DEF MovieInv, TypeOK, NX_MPOpen
<1>2. thread[p] \in {"none", "ended"}
  BY <1>1 DEF PlayerInv
<1>3. CASE OpenFails(p)
  <2> DEFINE h == [NoHandle EXCEPT !.mem = "freed"]
  <2>1. /\ handle' = [handle EXCEPT ![p] = h] /\ user' = [user EXCEPT ![p] = "erred"]
        /\ lost' = TRUE /\ failed' = TRUE /\ UNCHANGED <<state, thread, is_running>>
    BY <1>3 DEF OpenFails
  <2>2. h \in Handle /\ h.pipeline_is_linked = FALSE /\ h.pipeline = FALSE
    BY IdleHandle
  <2> HIDE DEF h
  <2>3. handle'[p] = h /\ user'[p] = "erred" /\ thread'[p] \in {"none", "ended"}
    BY <1>1, <1>2, <2>1 DEF TypeOK
  <2>4. failed' /\ failed' \in BOOLEAN /\ lost' \in BOOLEAN
    BY <2>1
  <2>5. TypeOK'
    BY <1>1, <2>1, <2>2, <2>4 DEF TypeOK, Users
  <2>6. PlayerInv(p)' /\ FaultInv'
    BY <1>1, <2>2, <2>3, <2>4 DEF PlayerInv, FaultInv
  <2>7. QED
    BY <1>1, <2>1, <2>4, <2>5, <2>6, OthersKeep DEF TypeOK
<1>4. CASE OpenRefused(p)
  <2> DEFINE h == [handle[p] EXCEPT !.pipeline = TRUE]
  <2>1. /\ handle' = [handle EXCEPT ![p] = h] /\ user' = [user EXCEPT ![p] = "erred"]
        /\ lost' = (lost \/ handle[p].pipeline) /\ failed' = TRUE
        /\ UNCHANGED <<state, thread, is_running>>
    BY <1>1, <1>4 DEF OpenRefused, TypeOK
  <2>2. h \in Handle /\ ~h.pipeline_is_linked
    <3> DEFINE bs == {Built(c, x) : c \in Contents, x \in Missing} \cup {None}
    <3>1. Handle = [mem : {"none", "live", "freed"}, pipeline : BOOLEAN,
                    pipeline_is_linked : BOOLEAN, built : bs]
      BY DEF Handle
    <3> HIDE DEF bs
    <3>2. QED
      BY <1>1, <3>1
  <2> HIDE DEF h
  <2>3. handle'[p] = h /\ user'[p] = "erred" /\ thread'[p] \in {"none", "ended"}
    BY <1>1, <1>2, <2>1 DEF TypeOK
  <2>4. failed' /\ failed' \in BOOLEAN
    BY <2>1
  <2>5. lost' \in BOOLEAN
    BY <1>1, <2>1 DEF TypeOK, Handle
  <2>6. TypeOK'
    BY <1>1, <2>1, <2>2, <2>4, <2>5 DEF TypeOK, Users
  <2>7. PlayerInv(p)' /\ FaultInv'
    BY <1>1, <2>2, <2>3, <2>4 DEF PlayerInv, FaultInv
  <2>8. QED
    BY <1>1, <2>1, <2>4, <2>6, <2>7, OthersKeep DEF TypeOK
<1>5. CASE OpenDone(p)
  <2>1. PICK built \in Outcomes :
          /\ built.ok
          /\ handle' = [handle EXCEPT ![p] = [mem |-> "live", pipeline |-> TRUE,
                                              pipeline_is_linked |-> TRUE,
                                              built |-> built]]
    BY <1>5 DEF OpenDone
  <2> DEFINE h == [mem |-> "live", pipeline |-> TRUE, pipeline_is_linked |-> TRUE,
                   built |-> built]
  <2>2. /\ user' = [user EXCEPT ![p] = "in"]
        /\ state' = [state EXCEPT ![p] = "READY"]
        /\ thread' = [thread EXCEPT ![p] = "started"]
        /\ is_running' = [is_running EXCEPT ![p] = FALSE]
        /\ lost' = (lost \/ handle[p].pipeline) /\ failed' = failed
    BY <1>5 DEF OpenDone
  <2>3. built.video /\ (built.audio \/ built.mute)
    <3>1. PICK c \in Contents, missing \in Missing : built = Built(c, missing)
      BY DEF Outcomes
    <3>2. QED
      BY <2>1, <3>1, OkIsPlayable
  <2>4. /\ h \in Handle /\ h.mem = "live" /\ h.pipeline_is_linked /\ h.built = built
    BY DEF Handle, Outcomes
  <2> HIDE DEF h
  <2>5. handle' = [handle EXCEPT ![p] = h]
    BY <2>1 DEF h
  <2>6. handle'[p] = h /\ user'[p] = "in" /\ thread'[p] = "started"
    BY <1>1, <2>2, <2>5 DEF TypeOK
  <2>7. lost' \in BOOLEAN /\ (lost' => failed)
    BY <1>1, <2>2 DEF TypeOK, Handle, PlayerInv, FaultInv
  <2>8. TypeOK'
    BY <1>1, <2>2, <2>4, <2>5, <2>7 DEF TypeOK, Users, Threads
  <2>9. PlayerInv(p)' /\ FaultInv'
    BY <1>1, <2>2, <2>3, <2>4, <2>6, <2>7 DEF PlayerInv, FaultInv
  <2>10. QED
    BY <1>1, <2>2, <2>5, <2>8, <2>9, OthersKeep DEF TypeOK
<1>6. QED
  BY <1>3, <1>4, <1>5 DEF NX_MPOpen

LEMMA MovieCloseQuits ==
  ASSUME MovieInv, NEW p \in Players, CloseQuits(p)
  PROVE  MovieInv'
<1> DEFINE u == IF thread[p] = "started" THEN "hung" ELSE "joining"
<1>1. /\ TypeOK /\ PlayerInv(p) /\ FaultInv
      /\ user' = [user EXCEPT ![p] = u]
      /\ is_running' = [is_running EXCEPT ![p] = FALSE]
      /\ UNCHANGED <<handle, state, eos, thread, ready, call, wild, lost, failed>>
  BY DEF MovieInv, CloseQuits, Quit
<1>2. u \in {"hung", "joining"}
  OBVIOUS
<1> HIDE DEF u
<1>3. TypeOK'
  BY <1>1, <1>2 DEF TypeOK, Users
<1>4. user'[p] \in {"hung", "joining"}
  BY <1>1, <1>2 DEF TypeOK
<1>5. PlayerInv(p)' /\ FaultInv'
  BY <1>1, <1>4 DEF PlayerInv, FaultInv
<1>6. QED
  BY <1>1, <1>3, <1>5, OthersKeep DEF TypeOK

LEMMA MovieCloseFrees ==
  ASSUME MovieInv, NEW p \in Players, CloseFrees(p)
  PROVE  MovieInv'
<1> DEFINE h == [NoHandle EXCEPT !.mem = "freed"]
<1>1. /\ TypeOK /\ FaultInv /\ thread[p] = "ended"
      /\ handle' = [handle EXCEPT ![p] = h] /\ user' = [user EXCEPT ![p] = "out"]
      /\ state' = [state EXCEPT ![p] = "NULL"] /\ eos' = [eos EXCEPT ![p] = "no"]
      /\ UNCHANGED <<thread, is_running, ready, call, wild, lost, failed>>
  BY DEF MovieInv, CloseFrees, Joined, loopVars
<1>2. h \in Handle /\ h.pipeline_is_linked = FALSE /\ h.pipeline = FALSE
  BY IdleHandle
<1> HIDE DEF h
<1>3. handle'[p] = h /\ user'[p] = "out" /\ thread'[p] = "ended"
  BY <1>1 DEF TypeOK
<1>4. TypeOK'
  BY <1>1, <1>2 DEF TypeOK, Users
<1>5. PlayerInv(p)' /\ FaultInv'
  BY <1>1, <1>2, <1>3 DEF PlayerInv, FaultInv
<1>6. QED
  BY <1>1, <1>4, <1>5, OthersKeep DEF TypeOK

LEMMA MovieCloseUnlinked ==
  ASSUME MovieInv, NEW p \in Players, CloseUnlinked(p)
  PROVE  MovieInv'
<1> DEFINE h == [NoHandle EXCEPT !.mem = "freed"]
<1>1. /\ TypeOK /\ PlayerInv(p) /\ FaultInv /\ ~handle[p].pipeline_is_linked
      /\ handle' = [handle EXCEPT ![p] = h] /\ user' = [user EXCEPT ![p] = "out"]
      /\ lost' = (lost \/ handle[p].pipeline)
      /\ UNCHANGED <<state, eos, thread, is_running, ready, call, wild, failed>>
  BY DEF MovieInv, CloseUnlinked, loopVars
<1>2. h \in Handle /\ h.pipeline_is_linked = FALSE /\ h.pipeline = FALSE
  BY IdleHandle
<1> HIDE DEF h
<1>3. handle'[p] = h /\ user'[p] = "out" /\ thread'[p] \in {"none", "ended"}
  BY <1>1 DEF TypeOK, PlayerInv
<1>4. lost' \in BOOLEAN /\ (lost' => failed)
  BY <1>1 DEF TypeOK, Handle, PlayerInv, FaultInv
<1>5. TypeOK'
  BY <1>1, <1>2, <1>4 DEF TypeOK, Users
<1>6. PlayerInv(p)' /\ FaultInv'
  BY <1>1, <1>2, <1>3, <1>4 DEF PlayerInv, FaultInv
<1>7. QED
  BY <1>1, <1>5, <1>6, OthersKeep DEF TypeOK

LEMMA MovieGivesUp ==
  ASSUME MovieInv, NEW p \in Players, GivesUp(p)
  PROVE  MovieInv'
<1>1. /\ TypeOK /\ PlayerInv(p) /\ FaultInv
      /\ user[p] = "erred" /\ user' = [user EXCEPT ![p] = "out"]
      /\ lost' = (lost \/ handle[p].mem = "live")
      /\ UNCHANGED <<handle, state, eos, thread, is_running, ready, call, wild, failed>>
  BY DEF MovieInv, GivesUp, loopVars
<1>2. failed /\ ~handle[p].pipeline_is_linked /\ user'[p] = "out"
  BY <1>1 DEF TypeOK, PlayerInv
<1>3. lost' \in BOOLEAN
  BY <1>1 DEF TypeOK
<1>4. TypeOK'
  BY <1>1, <1>3 DEF TypeOK, Users
<1>5. PlayerInv(p)' /\ FaultInv'
  BY <1>1, <1>2 DEF PlayerInv, FaultInv
<1>6. QED
  BY <1>1, <1>4, <1>5, OthersKeep DEF TypeOK

\* Steps that change nothing of a handle, nor of where its calls and its thread are.
LEMMA HandlesKeep ==
  ASSUME MovieInv, TypeOK', UNCHANGED <<handle, user, thread, failed>>, FaultInv'
  PROVE  MovieInv'
<1>1. ASSUME NEW p \in Players PROVE PlayerInv(p)'
  BY <1>1 DEF MovieInv, PlayerInv
<1>2. QED
  BY <1>1 DEF MovieInv

LEMMA MovieStates ==
  ASSUME MovieInv, NEW p \in Players,
         \/ \E new \in {"PLAYING", "PAUSED", "NULL"} : SetState(p, new)
         \/ NX_MPSeek(p) \/ StreamEnds(p)
  PROVE  MovieInv'
<1>1. /\ TypeOK /\ FaultInv
      /\ UNCHANGED <<handle, user, thread, is_running, ready, call, wild, lost, failed>>
  BY DEF MovieInv, SetState, NX_MPSeek, StreamEnds, loopVars, userVars
<1>2. /\ state' \in [Players -> {"NULL", "READY", "PAUSED", "PLAYING"}]
      /\ eos' \in [Players -> {"no", "posted", "taken"}]
  BY <1>1 DEF TypeOK, SetState, NX_MPSeek, StreamEnds, userVars
<1>3. TypeOK' /\ FaultInv'
  BY <1>1, <1>2 DEF TypeOK, FaultInv
<1>4. QED
  BY <1>1, <1>3, HandlesKeep

LEMMA MovieMisuse ==
  ASSUME MovieInv, NEW p \in Players, user[p] = "erred", Misuse(p)
  PROVE  MovieInv'
<1>1. /\ TypeOK /\ PlayerInv(p) /\ FaultInv /\ wild' = "erred"
      /\ UNCHANGED <<handle, user, state, eos, thread, is_running, ready, call, lost, failed>>
  BY DEF MovieInv, Misuse, loopVars
<1>2. TypeOK' /\ FaultInv'
  BY <1>1 DEF TypeOK, FaultInv, PlayerInv
<1>3. QED
  BY <1>1, <1>2, HandlesKeep

\* Steps of a thread that is in its loop change where it is.
LEMMA ThreadMoves ==
  ASSUME MovieInv, NEW p \in Players, NEW t \in Threads,
         thread[p] \notin {"none", "ended"}, thread' = [thread EXCEPT ![p] = t],
         TypeOK', UNCHANGED <<handle, user, wild, lost, failed>>
  PROVE  MovieInv'
<1>1. TypeOK /\ PlayerInv(p) /\ FaultInv
  BY DEF MovieInv
<1>2. handle[p].pipeline_is_linked
  BY <1>1 DEF PlayerInv
<1>3. PlayerInv(p)' /\ FaultInv'
  BY <1>1, <1>2 DEF PlayerInv, FaultInv
<1>4. \A q \in Players \ {p} :
        handle'[q] = handle[q] /\ user'[q] = user[q] /\ thread'[q] = thread[q]
  BY <1>1 DEF TypeOK
<1>5. QED
  BY <1>3, <1>4, OthersKeep

LEMMA MovieLoopStarts ==
  ASSUME MovieInv, NEW p \in Players, LoopStarts(p)
  PROVE  MovieInv'
<1>1. /\ TypeOK /\ thread[p] = "started"
      /\ thread' = [thread EXCEPT ![p] = "waiting"]
      /\ is_running' = [is_running EXCEPT ![p] = TRUE]
      /\ UNCHANGED <<handle, user, state, wild, lost, failed, eos, ready, call>>
  BY DEF MovieInv, LoopStarts, userVars
<1>2. TypeOK'
  BY <1>1 DEF TypeOK, Threads
<1>3. QED
  BY <1>1, <1>2, ThreadMoves DEF Threads

LEMMA MovieLoopMoves ==
  ASSUME MovieInv, NEW p \in Players,
         LoopTakesContext(p) \/ LoopChecks(p) \/ LoopPolls(p) \/ LoopIterates(p)
  PROVE  MovieInv'
<1>1. /\ TypeOK
      /\ UNCHANGED <<handle, user, state, wild, lost, failed, eos, is_running, call>>
  BY DEF MovieInv, LoopTakesContext, LoopChecks, LoopPolls, LoopIterates, userVars
<1>2. ready' \subseteq Players
  BY <1>1 DEF TypeOK, LoopTakesContext, LoopChecks, LoopPolls, LoopIterates
<1>3. PICK t \in Threads : thread' = [thread EXCEPT ![p] = t]
  BY DEF LoopTakesContext, LoopChecks, LoopPolls, LoopIterates, Threads
<1>4. thread[p] \notin {"none", "ended"}
  BY DEF LoopTakesContext, LoopChecks, LoopPolls, LoopIterates
<1>5. TypeOK'
  BY <1>1, <1>2, <1>3 DEF TypeOK
<1>6. QED
  BY <1>1, <1>3, <1>4, <1>5, ThreadMoves

LEMMA MovieLoopPops ==
  ASSUME MovieInv, NEW p \in Players, LoopPops(p)
  PROVE  MovieInv'
<1>1. PICK q \in ready :
        /\ ready' = ready \ {q}
        /\ IF eos[q] = "posted"
           THEN /\ eos' = [eos EXCEPT ![q] = "taken"]
                /\ call' = [of |-> q, at |-> "popped"]
           ELSE UNCHANGED <<eos, call>>
        /\ UNCHANGED <<handle, user, state, wild, lost, failed, thread, is_running>>
  BY DEF LoopPops, userVars
<1>2. TypeOK /\ FaultInv /\ q \in Players
  BY <1>1 DEF MovieInv, TypeOK
<1>3. call' \in [of : Players \cup {None}, at : {"popped", "called"}]
  BY <1>1, <1>2 DEF TypeOK
<1>4. eos' \in [Players -> {"no", "posted", "taken"}]
  BY <1>1, <1>2 DEF TypeOK
<1>5. TypeOK' /\ FaultInv'
  BY <1>1, <1>2, <1>3, <1>4 DEF TypeOK, FaultInv
<1>6. QED
  BY <1>1, <1>5, HandlesKeep

\* The thread that dispatches runs the loop of a handle that lives, so what it finds
\* freed is the handle of another.
LEMMA MovieBusCallback ==
  ASSUME MovieInv, NEW p \in Players, bus_callback(p)
  PROVE  MovieInv'
<1>1. /\ TypeOK /\ PlayerInv(p) /\ FaultInv /\ thread[p] = "dispatching"
      /\ call' = [call EXCEPT !.at = "called"]
      /\ wild' = IF handle[call.of].mem = "live" THEN wild
                 ELSE IF call.of = p THEN "own" ELSE "foreign"
      /\ UNCHANGED <<handle, user, state, eos, thread, is_running, ready, lost, failed>>
  BY DEF MovieInv, bus_callback
<1>2. handle[p].mem = "live"
  BY <1>1 DEF PlayerInv
<1>3. wild' = wild \/ wild' = "foreign"
  BY <1>1, <1>2
<1>4. call' \in [of : Players \cup {None}, at : {"popped", "called"}]
  BY <1>1 DEF TypeOK
<1>5. TypeOK' /\ FaultInv'
  BY <1>1, <1>3, <1>4 DEF TypeOK, FaultInv
<1>6. QED
  BY <1>1, <1>5, HandlesKeep

LEMMA MovieCallbackReturns ==
  ASSUME MovieInv, NEW p \in Players, CallbackReturns(p)
  PROVE  MovieInv'
<1>1. /\ TypeOK /\ FaultInv /\ call' = NoCall
      /\ UNCHANGED <<handle, user, state, wild, lost, failed, eos, thread, is_running, ready>>
  BY DEF MovieInv, CallbackReturns, userVars
<1>2. call' \in [of : Players \cup {None}, at : {"popped", "called"}]
  BY <1>1 DEF NoCall
<1>3. TypeOK' /\ FaultInv'
  BY <1>1, <1>2 DEF TypeOK, FaultInv
<1>4. QED
  BY <1>1, <1>3, HandlesKeep

LEMMA MovieInvStep == MovieInv /\ [Next]_vars => MovieInv'
<1> SUFFICES ASSUME MovieInv, [Next]_vars PROVE MovieInv'
  OBVIOUS
<1>1. CASE Next
  <2>1. PICK p \in Players : User(p) \/ CloseFrees(p) \/ StreamEnds(p) \/ Loop(p)
    BY <1>1 DEF Next
  <2>2. CASE Loop(p)
    BY <2>2, MovieLoopStarts, MovieLoopMoves, MovieLoopPops, MovieBusCallback,
       MovieCallbackReturns DEF Loop
  <2>3. CASE User(p)
    BY <2>3, MovieSetFileName, MovieOpen, MovieCloseQuits, MovieCloseUnlinked,
       MovieGivesUp, MovieStates, MovieMisuse DEF User
  <2>4. QED
    BY <2>1, <2>2, <2>3, MovieCloseFrees, MovieStates
<1>2. CASE UNCHANGED vars
  <2>1. TypeOK' /\ FaultInv'
    BY <1>2 DEF MovieInv, TypeOK, FaultInv, vars
  <2>2. QED
    BY <1>2, <2>1, HandlesKeep DEF vars
<1>3. QED
  BY <1>1, <1>2

LEMMA MovieAlways == Spec => []MovieInv
<1>1. QED
  BY MovieInit, MovieInvStep, PTL DEF Spec

(* Every variable of the player keeps to its type.                           *)
THEOREM MovieTypeCorrect == Spec => []TypeOK
<1>1. MovieInv => TypeOK
  BY DEF MovieInv
<1>2. QED
  BY <1>1, MovieAlways, PTL

(* However the calls of any number of handles and their dispatching threads  *)
(* interleave (NX_MPOpen, NX_MPClose and the loops' bus callbacks), a thread *)
(* uses no freed handle of its own, and nothing is lost or misused unless an *)
(* Open has failed.                                                          *)
THEOREM HandlesAlwaysAccounted == Spec => []HandleAccounted
<1>1. MovieInv => HandleAccounted
  BY DEF MovieInv, FaultInv, HandleAccounted
<1>2. QED
  BY <1>1, MovieAlways, PTL

(* For every content and every part that may be missing, an Open that        *)
(* reports success (NX_MPOpen) leaves a pipeline that plays each track, but  *)
(* for the sound that is known to be mute.                                   *)
THEOREM OpenAlwaysMeansPlayable == Spec => []OpenMeansPlayable
<1>1. MovieInv => OpenMeansPlayable
  BY DEF MovieInv, PlayerInv, OpenMeansPlayable
<1>2. QED
  BY <1>1, MovieAlways, PTL

=============================================================================
