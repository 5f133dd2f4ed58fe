---------------------------- MODULE SoundSession ----------------------------
(***************************************************************************)
(* What the orbiter promises about a stimulus that is asked for with the   *)
(* reserved duration: it is a session that begins while the speaker is     *)
(* busy moving (a movement is under way or waiting) and ends when it is    *)
(* not, and the session's sound never outlives it.                         *)
(***************************************************************************)
VARIABLES
  busy,      \* a movement is under way or waiting
  session,   \* a session is in progress
  sounding   \* its sound is heard

sessionVars == <<busy, session, sounding>>

SessionInit == busy = FALSE /\ session = FALSE /\ sounding = FALSE

\* Movements begin and end as the host, the remote control and the motor like.
Movements ==
  /\ busy' \in BOOLEAN
  /\ UNCHANGED <<session, sounding>>

\* A session begins, silent if its stimulus is not to be triggered.
Begin ==
  /\ busy /\ ~ session
  /\ session' = TRUE
  /\ sounding' \in BOOLEAN
  /\ UNCHANGED busy

\* The end set for a stimulus of before silences everything that sounds.
Silence ==
  /\ sounding
  /\ sounding' = FALSE
  /\ UNCHANGED <<busy, session>>

End ==
  /\ session /\ ~ busy
  /\ session' = FALSE
  /\ sounding' = FALSE
  /\ UNCHANGED busy

SessionNext == Movements \/ Begin \/ Silence \/ End

SessionSpec ==
  /\ SessionInit
  /\ [][SessionNext]_sessionVars
  /\ WF_sessionVars(End)
=============================================================================
