----------------------------- MODULE MCOrbiter ------------------------------
(***************************************************************************)
(* A small instance of Orbiter: the host sends at most MaxTexts of the     *)
(* texts in MCTexts, and the remote control at most MaxKeys of MCKeys.     *)
(***************************************************************************)
EXTENDS Orbiter

CONSTANTS MaxTexts, MaxKeys, MCKeys

VARIABLES texts, presses

MCFileLength == <<2, 1, 1>>

\* A text that asks for a movement (queued or instant, 0 meaning queued) and a
\* stimulus of a duration.
Text(direction, queuedMov, duration, queuedStim) ==
  [len |-> 28, bad |-> {}, speaker |-> 0, direction |-> direction, speed |-> 1,
   speedDiv100 |-> 0, angle |-> 1, angleDiv100 |-> 0, queuedMov |-> queuedMov,
   stimulus |-> 1, duration |-> duration, tbt |-> 1, queuedStim |-> queuedStim]

\* Queued and instant movements, the reserved duration, a short stimulus, no
\* movement at all, a text cut short, and no text.
MCTexts ==
  {Text(1, 0, PLAY_STIMULUS_AS_LONG_AS_MOVEMENT_PENDING, 0),
   Text(1, 0, 1, 0),
   Text(2, 1, 1, 1),
   Text(0, 0, PLAY_STIMULUS_AS_LONG_AS_MOVEMENT_PENDING, 1),
   [Text(1, 0, 1, 0) EXCEPT !.len = 16],
   EmptyText}

MCInit == OrbiterInit /\ texts = 0 /\ presses = 0

MCNext ==
  \/ /\ presses < MaxKeys
     /\ \E key \in MCKeys : IrPush(key)
     /\ presses' = presses + 1
     /\ UNCHANGED texts
  \/ /\ texts < MaxTexts
     /\ \E raw \in MCTexts : TcpPush(raw)
     /\ texts' = texts + 1
     /\ UNCHANGED presses
  \/ /\ TimerLoop \/ MotorStep \/ AudioStep
     /\ UNCHANGED <<texts, presses>>

MCSpec ==
  /\ MCInit
  /\ [][MCNext]_<<orbiterVars, texts, presses>>
  /\ OrbiterFairness
=============================================================================
