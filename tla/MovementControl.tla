-------------------------- MODULE MovementControl ---------------------------
(***************************************************************************)
(* The movements of the speaker (main.cpp): the queue of movements the     *)
(* host asked for, the choice whether the next one is carried out, and the *)
(* keys of the infrared remote control that set and start a movement by    *)
(* hand.  The motor itself, behind the EPOS2 library, is external: a       *)
(* movement is under way until MotorArrive.                                *)
(***************************************************************************)
EXTENDS HostProtocol, Sequences

VARIABLES
  movement_queue,    \* the movements asked for and not started
  movement_skip,     \* the message interpreted last asked for an instant one
  bIsFirstCall,      \* no queued movement has interrupted another one yet
  iAngle,            \* in degrees, negative for counterclockwise
  iTargetPosition,   \* the distance to move, in steps of the motor
  motor              \* the EPOS2 controller

movementVars ==
  <<movement_queue, movement_skip, bIsFirstCall, iAngle, iTargetPosition, motor>>

\* moving is the negation of reachedTarget; steps and velocity are those of
\* the last movement commanded.
Motor == [moving : BOOLEAN, steps : Int, velocity : Int]

Digits == {"KEY_0", "KEY_1", "KEY_2", "KEY_3", "KEY_4", "KEY_5", "KEY_6",
           "KEY_7", "KEY_8", "KEY_9"}

\* The keys of eTasten that TimerFunc sets cTaste to.
Keys == Digits \cup
  {"PLAY", "STOP", "PREV", "NEXT", "SUB_10", "CHECK", "KEY_VOLUMEUP",
   "KEY_VOLUMEDOWN", "KEY_FORWARD", "KEY_BACKWARD"}

-----------------------------------------------------------------------------
\* The conversion of a float to an int cuts the fraction off.
Truncate(a, b) == IF a < 0 THEN - ((- a) \div b) ELSE a \div b

\* calcTargetPosition: the wheel (diameter 0.029) makes a turn in 65536 steps
\* and runs along a rail of diameter 2.2; 65536 / 360 * 2.2 / 0.029 is
\* 3604480 / 261 steps for a degree.
StepsOfAngle(angle) == Truncate(angle * 3604480, 261)

\* The angle a movement asks for, in whole degrees; a direction that is neither
\* clockwise (1) nor counterclockwise (2) leaves the angle as it was.
AngleOf(d, angle) ==
  CASE d.direction = 1       -> Truncate(d.angularDistance, 100)
    [] d.direction = 2       -> Truncate(- d.angularDistance, 100)
    [] d.direction \notin {1, 2} -> angle

\* setSpeed and Move: 200 rpm for every degree per second.
Moved(m, steps, speed) ==
  [m EXCEPT !.moving = TRUE, !.steps = steps, !.velocity = 2 * speed]

-----------------------------------------------------------------------------
MovementInit ==
  /\ movement_queue = << >>
  /\ movement_skip = FALSE
  /\ bIsFirstCall = TRUE
  /\ iAngle = 0
  /\ iTargetPosition = 0
  /\ motor = [moving |-> FALSE, steps |-> 0, velocity |-> 10000]

\* Fault: an instant movement does not clear the queue.
QueueMovement_KeepsQueue(d) ==
  /\ movement_queue' = Append(movement_queue, d)
  /\ movement_skip' = ~ d.mov_queued
  /\ UNCHANGED <<bIsFirstCall, iAngle, iTargetPosition, motor>>

\* Fault: movement_skip is not taken back by a queued movement.
QueueMovement_SkipStays(d) ==
  /\ movement_queue' = IF d.mov_queued THEN Append(movement_queue, d) ELSE <<d>>
  /\ movement_skip' = (movement_skip \/ ~ d.mov_queued)
  /\ UNCHANGED <<bIsFirstCall, iAngle, iTargetPosition, motor>>

QueueMovement(d) ==
  /\ movement_queue' = IF d.mov_queued THEN Append(movement_queue, d) ELSE <<d>>
  /\ movement_skip' = ~ d.mov_queued
  /\ UNCHANGED <<bIsFirstCall, iAngle, iTargetPosition, motor>>

\* Fault: the position is computed before the angle is set.
vProcessMovement_OldAngle ==
  LET d == Head(movement_queue)
  IN  /\ movement_queue' = Tail(movement_queue)
      /\ iAngle' = AngleOf(d, iAngle)
      /\ IF d.direction # 0
         THEN /\ iTargetPosition' = StepsOfAngle(iAngle)
              /\ motor' = Moved(motor, StepsOfAngle(iAngle), d.speed)
         ELSE UNCHANGED <<iTargetPosition, motor>>

\* Fault: the movement stays at the front of the queue.
vProcessMovement_NoPop ==
  LET d == Head(movement_queue)
  IN  /\ iAngle' = AngleOf(d, iAngle)
      /\ IF d.direction # 0
         THEN /\ iTargetPosition' = StepsOfAngle(AngleOf(d, iAngle))
              /\ motor' = Moved(motor, StepsOfAngle(AngleOf(d, iAngle)), d.speed)
         ELSE UNCHANGED <<iTargetPosition, motor>>
      /\ UNCHANGED movement_queue

\* Takes the movement at the front off the queue and, unless its direction is
\* 0, commands it.
vProcessMovement ==
  LET d == Head(movement_queue)
  IN  /\ movement_queue' = Tail(movement_queue)
      /\ iAngle' = AngleOf(d, iAngle)
      /\ IF d.direction # 0
         THEN /\ iTargetPosition' = StepsOfAngle(AngleOf(d, iAngle))
              /\ motor' = Moved(motor, StepsOfAngle(AngleOf(d, iAngle)), d.speed)
         ELSE UNCHANGED <<iTargetPosition, motor>>

NoMovementPending ==
  /\ movement_queue = << >>
  /\ UNCHANGED movementVars

ProcessNextMovement ==
  /\ movement_queue # << >>
  /\ ~ motor.moving \/ movement_skip
  /\ vProcessMovement
  /\ UNCHANGED <<movement_skip, bIsFirstCall>>

\* Fault: bIsFirstCall is passed by value, so its reset is lost.
ProcessOnFirstCall_ByValue ==
  /\ movement_queue # << >>
  /\ motor.moving /\ ~ movement_skip
  /\ bIsFirstCall
  /\ vProcessMovement
  /\ UNCHANGED <<movement_skip, bIsFirstCall>>

ProcessOnFirstCall ==
  /\ movement_queue # << >>
  /\ motor.moving /\ ~ movement_skip
  /\ bIsFirstCall
  /\ bIsFirstCall' = FALSE
  /\ vProcessMovement
  /\ UNCHANGED movement_skip

WaitForMovement ==
  /\ movement_queue # << >>
  /\ motor.moving /\ ~ movement_skip
  /\ ~ bIsFirstCall
  /\ UNCHANGED movementVars

\* The movement processing of one round of the timer loop.
MovementStep ==
  \/ NoMovementPending
  \/ ProcessNextMovement
  \/ ProcessOnFirstCall
  \/ WaitForMovement

-----------------------------------------------------------------------------
(***************************************************************************)
(* The keys of the remote control.                                         *)
(***************************************************************************)
Play ==
  /\ motor' = [motor EXCEPT !.moving = TRUE, !.steps = iTargetPosition]
  /\ UNCHANGED <<movement_queue, movement_skip, bIsFirstCall, iAngle, iTargetPosition>>

\* Halt: the motor stands still and reports its target as reached.
Stop ==
  /\ motor' = [motor EXCEPT !.moving = FALSE]
  /\ UNCHANGED <<movement_queue, movement_skip, bIsFirstCall, iAngle, iTargetPosition>>

\* PREV and NEXT turn the angle, a digit computes the position anew from it.
SetAngle(angle) ==
  /\ iAngle' = angle
  /\ iTargetPosition' = StepsOfAngle(angle)
  /\ UNCHANGED <<movement_queue, movement_skip, bIsFirstCall, motor>>

MoveOn ==
  /\ iTargetPosition' = iTargetPosition + 100000
  /\ UNCHANGED <<movement_queue, movement_skip, bIsFirstCall, iAngle, motor>>

\* What TimerFunc does for a key that is new in this round.
KeyPressed(key) ==
  \/ key = "PLAY" /\ Play
  \/ key = "STOP" /\ Stop
  \/ key = "PREV" /\ SetAngle(iAngle - 15)
  \/ key = "NEXT" /\ SetAngle(iAngle + 15)
  \/ key \in Digits /\ SetAngle(iAngle)
  \/ key = "SUB_10" /\ MoveOn
  \/ /\ key \notin Digits \cup {"PLAY", "STOP", "PREV", "NEXT", "SUB_10"}
     /\ UNCHANGED movementVars

\* The motor reaches the target it was commanded to.
MotorArrive ==
  /\ motor.moving
  /\ motor' = [motor EXCEPT !.moving = FALSE]
  /\ UNCHANGED <<movement_queue, movement_skip, bIsFirstCall, iAngle, iTargetPosition>>

-----------------------------------------------------------------------------
(***************************************************************************)
(* The movements on their own: messages and keys in any order.             *)
(***************************************************************************)
MovementNext ==
  \/ \E d \in HostData : QueueMovement(d)
  \/ MovementStep
  \/ \E key \in Keys : KeyPressed(key)
  \/ MotorArrive

MovementSpec == MovementInit /\ [][MovementNext]_movementVars

\* A movement under way or waiting: what a hijacked stimulus lasts as long as.
MovementsPending == movement_queue # << >> \/ motor.moving

-----------------------------------------------------------------------------
(***************************************************************************)
(* Properties.                                                             *)
(***************************************************************************)
MovementTypeOK ==
  /\ movement_queue \in Seq(HostData)
  /\ movement_skip \in BOOLEAN
  /\ bIsFirstCall \in BOOLEAN
  /\ iAngle \in Int
  /\ iTargetPosition \in Int
  /\ motor \in Motor

\* The position the remote control's PLAY will move to is that of the angle,
\* plus what SUB_10 has added to it since the angle was set, although both are
\* written by the movements of the host and by the keys.
PositionFollowsAngle ==
  /\ iTargetPosition >= StepsOfAngle(iAngle)
  /\ (iTargetPosition - StepsOfAngle(iAngle)) % 100000 = 0
=============================================================================
