------------------------- MODULE MCMovementControl --------------------------
(***************************************************************************)
(* MovementControl with at most MaxMessages messages, with data from a set *)
(* (MCHostData is the small one that is checked), and MaxKeys keys.  The   *)
(* variable interruptions counts how often a queued movement took the      *)
(* place of one under way.                                                 *)
(***************************************************************************)
EXTENDS MovementControl

CONSTANTS Data, MaxMessages, MaxKeys

ASSUME DataAssumption == Data \subseteq HostData

VARIABLES messages, keys, interruptions

MCHostData ==
  {ZeroHostData} \cup
  {[direction |-> a[1], speed |-> 100, angularDistance |-> a[2],
    stimulus_nr |-> 1, stimulusDuration |-> 1, toBeTriggerd |-> TRUE,
    mov_queued |-> q, stim_queued |-> TRUE] :
      a \in {<<0, 0>>, <<1, 250>>, <<2, 100>>, <<3, 100>>}, q \in BOOLEAN}

MCInit ==
  MovementInit /\ messages = 0 /\ keys = 0 /\ interruptions = 0

\* A movement takes the place of another one.
Interrupts ==
  motor.moving /\ movement_queue # << >> /\ Head(movement_queue).direction # 0

MCNext ==
  \/ /\ messages < MaxMessages
     /\ \E d \in Data : QueueMovement(d)
     /\ messages' = messages + 1
     /\ UNCHANGED <<keys, interruptions>>
  \/ /\ MovementStep
     /\ interruptions' =
          IF movement_queue' # movement_queue /\ Interrupts
             /\ Head(movement_queue).mov_queued /\ ~ movement_skip
          THEN interruptions + 1 ELSE interruptions
     /\ UNCHANGED <<messages, keys>>
  \/ /\ keys < MaxKeys
     /\ \E key \in Keys : KeyPressed(key)
     /\ keys' = keys + 1
     /\ UNCHANGED <<messages, interruptions>>
  \/ /\ MotorArrive
     /\ UNCHANGED <<messages, keys, interruptions>>

MCSpec ==
  MCInit /\ [][MCNext]_<<movementVars, messages, keys, interruptions>>

\* bIsFirstCall lets a queued movement interrupt one under way once in the life
\* of the program and never again: main keeps bRef, which TimerFunc resets
\* through its reference, outside the loop.
OneInterruptionByQueued == interruptions <= 1
=============================================================================
