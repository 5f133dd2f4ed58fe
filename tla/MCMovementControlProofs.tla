----------------------- MODULE MCMovementControlProofs ----------------------
(***************************************************************************)
(* How often a queued movement may interrupt another, for any data of the  *)
(* host and any number of messages and keys.                               *)
(***************************************************************************)
EXTENDS MCMovementControl, TLAPS

\* The inductive invariant: as long as the flag is set, no queued movement has
\* interrupted another one.
InterruptionInv ==
  /\ bIsFirstCall \in BOOLEAN
  /\ interruptions \in {0, 1}
  /\ bIsFirstCall => interruptions = 0

\* Whatever the next step is, the flag is never set again, and a movement is
\* counted only when the step takes the flag back.
LEMMA InterruptionStep ==
  ASSUME InterruptionInv, [MCNext]_<<movementVars, messages, keys, interruptions>>
  PROVE  InterruptionInv'
<1> USE DEF InterruptionInv
<1>1. CASE \E d \in Data : QueueMovement(d) /\ UNCHANGED interruptions
  BY <1>1 DEF QueueMovement
<1>2. CASE \E key \in Keys : KeyPressed(key) /\ UNCHANGED interruptions
  BY <1>2 DEF KeyPressed, Play, Stop, SetAngle, MoveOn, movementVars
<1>3. CASE MotorArrive /\ UNCHANGED interruptions
  BY <1>3 DEF MotorArrive
<1>4. CASE UNCHANGED <<movementVars, messages, keys, interruptions>>
  BY <1>4 DEF movementVars
<1>5. ASSUME MovementStep,
             interruptions' =
               IF movement_queue' # movement_queue /\ Interrupts
                  /\ Head(movement_queue).mov_queued /\ ~ movement_skip
               THEN interruptions + 1 ELSE interruptions
      PROVE  InterruptionInv'
  <2>1. CASE NoMovementPending \/ WaitForMovement
    BY <1>5, <2>1 DEF NoMovementPending, WaitForMovement, movementVars
  <2>2. CASE ProcessNextMovement
    <3>1. ~ (Interrupts /\ ~ movement_skip)
      BY <2>2 DEF ProcessNextMovement, Interrupts
    <3> QED
      BY <1>5, <2>2, <3>1 DEF ProcessNextMovement
  <2>3. CASE ProcessOnFirstCall
    <3>1. interruptions = 0 /\ bIsFirstCall' = FALSE
      BY <2>3 DEF ProcessOnFirstCall
    <3>2. interruptions' \in {0, 1}
      BY <1>5, <3>1
    <3> QED
      BY <3>1, <3>2
  <2> QED
    BY <1>5, <2>1, <2>2, <2>3 DEF MovementStep
<1> QED
  BY <1>1, <1>2, <1>3, <1>4, <1>5 DEF MCNext

\* A queued movement takes the place of one under way at most once in the life
\* of the program: bRef, which TimerFunc resets through its reference, outlives
\* the rounds.
THEOREM InterruptsOnce == MCSpec => []OneInterruptionByQueued
<1>1. MCInit => InterruptionInv
  BY DEF MCInit, MovementInit, InterruptionInv
<1>2. InterruptionInv => OneInterruptionByQueued
  BY DEF InterruptionInv, OneInterruptionByQueued
<1> QED
  BY <1>1, <1>2, InterruptionStep, PTL DEF MCSpec
=============================================================================
