------------------------------ MODULE MCPlayers ------------------------------
(* The instance of MoviePlay and WaveFilePlayer that TLC checks: a process   *)
(* that plays movies, or one that plays wave files.  The two libraries share *)
(* nothing, so their interleavings add nothing.                              *)
EXTENDS MoviePlay, WaveFilePlayer

VARIABLE plays

PlayersInit ==
  /\ Init /\ WaveStart
  /\ plays \in {"movie", "wave"}

PlayersNext ==
  \/ plays = "movie" /\ Next /\ UNCHANGED <<waveVars, plays>>
  \/ plays = "wave" /\ WaveNext /\ UNCHANGED <<vars, plays>>

PlayersSpec == PlayersInit /\ [][PlayersNext]_<<vars, waveVars, plays>> /\ Fairness

=============================================================================
