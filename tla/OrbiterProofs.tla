--------------------------- MODULE OrbiterProofs ----------------------------
(***************************************************************************)
(* The safety properties of the whole program, for every sequence of texts *)
(* and keys and every interleaving of the threads with the timer loop.     *)
(***************************************************************************)
EXTENDS Orbiter, StimuliLibraryProofs

-----------------------------------------------------------------------------
(***************************************************************************)
(* The movements on their own, for all messages and keys in any order.     *)
(***************************************************************************)

\* Data of the host has its fields in their types.
LEMMA MovementDataType ==
  ASSUME NEW d \in HostData
  PROVE  /\ d.direction \in 0 .. 9
         /\ d.speed \in Int /\ d.angularDistance \in Int
         /\ d.mov_queued \in BOOLEAN
  BY DEF HostData, HostDataFields

\* The conversion to int returns one.
LEMMA TruncateType ==
  ASSUME NEW a \in Int, NEW b \in Nat \ {0}
  PROVE  Truncate(a, b) \in Int
  BY DEF Truncate

\* The angle and the position of a movement are integers.
LEMMA AngleType ==
  ASSUME NEW d \in HostData, NEW angle \in Int
  PROVE  AngleOf(d, angle) \in Int
<1>1. /\ Truncate(d.angularDistance, 100) \in Int
      /\ Truncate(- d.angularDistance, 100) \in Int
  BY MovementDataType, TruncateType
<1> QED
  BY <1>1 DEF AngleOf

\* The position of an angle is an integer.
LEMMA StepsType ==
  ASSUME NEW angle \in Int
  PROVE  StepsOfAngle(angle) \in Int
  BY TruncateType DEF StepsOfAngle

\* A commanded movement is one of the motor.
LEMMA MovedType ==
  ASSUME NEW m \in Motor, NEW steps \in Int, NEW speed \in Int
  PROVE  Moved(m, steps, speed) \in Motor
<1>1. 2 * speed \in Int
  OBVIOUS
<1> QED
  BY <1>1 DEF Moved, Motor

\* The inductive invariant.
MovementInv == MovementTypeOK /\ PositionFollowsAngle

\* The position is that of the angle if it has been computed from it.
LEMMA PositionOfAngle ==
  ASSUME NEW angle \in Int, NEW position, position = StepsOfAngle(angle)
  PROVE  /\ position >= StepsOfAngle(angle)
         /\ (position - StepsOfAngle(angle)) % 100000 = 0
<1>1. position \in Int
  BY StepsType
<1> QED
  BY <1>1

\* A message's data is queued.
LEMMA QueueMovementInv ==
  ASSUME MovementInv, NEW d \in HostData, QueueMovement(d)
  PROVE  MovementInv'
<1>1. movement_queue' \in Seq(HostData) /\ movement_skip' \in BOOLEAN
  BY MovementDataType DEF MovementInv, MovementTypeOK, QueueMovement
<1> QED
  BY <1>1 DEF MovementInv, MovementTypeOK, PositionFollowsAngle, QueueMovement

\* The movement at the front of the queue is taken off it and commanded.
LEMMA ProcessMovementInv ==
  ASSUME MovementInv, movement_queue # << >>, vProcessMovement,
         movement_skip' \in BOOLEAN, bIsFirstCall' \in BOOLEAN
  PROVE  MovementInv'
<1> DEFINE d     == Head(movement_queue)
           angle == AngleOf(d, iAngle)
<1>1. d \in HostData /\ Tail(movement_queue) \in Seq(HostData)
  BY HeadTailProperties DEF MovementInv, MovementTypeOK
<1>2. angle \in Int /\ d.speed \in Int
  BY <1>1, AngleType, MovementDataType DEF MovementInv, MovementTypeOK
<1>3. movement_queue' \in Seq(HostData) /\ iAngle' = angle
  BY <1>1 DEF vProcessMovement
<1>4. CASE d.direction # 0
  <2>1. iTargetPosition' = StepsOfAngle(angle)
        /\ motor' = Moved(motor, StepsOfAngle(angle), d.speed)
    BY <1>4 DEF vProcessMovement
  <2>2. iTargetPosition' \in Int /\ motor' \in Motor
    BY <1>2, <2>1, StepsType, MovedType DEF MovementInv, MovementTypeOK
  <2>3. PositionFollowsAngle'
    BY <1>2, <1>3, <2>1, PositionOfAngle DEF PositionFollowsAngle
  <2> QED
    BY <1>2, <1>3, <2>2, <2>3 DEF MovementInv, MovementTypeOK
<1>5. CASE d.direction = 0
  <2>1. angle = iAngle
    BY <1>5 DEF AngleOf
  <2>2. UNCHANGED <<iTargetPosition, motor>>
    BY <1>5 DEF vProcessMovement
  <2> QED
    BY <1>3, <2>1, <2>2 DEF MovementInv, MovementTypeOK, PositionFollowsAngle
<1> QED
  BY <1>4, <1>5

\* The movement processing of a round.
LEMMA MovementStepInv ==
  ASSUME MovementInv, MovementStep
  PROVE  MovementInv'
<1>1. CASE NoMovementPending \/ WaitForMovement
  BY <1>1 DEF NoMovementPending, WaitForMovement, movementVars,
              MovementInv, MovementTypeOK, PositionFollowsAngle
<1>2. CASE ProcessNextMovement
  BY <1>2, ProcessMovementInv DEF ProcessNextMovement, MovementInv, MovementTypeOK
<1>3. CASE ProcessOnFirstCall
  BY <1>3, ProcessMovementInv DEF ProcessOnFirstCall, MovementInv, MovementTypeOK
<1> QED
  BY <1>1, <1>2, <1>3 DEF MovementStep

\* A key sets the angle, and the position with it.
LEMMA SetAngleInv ==
  ASSUME MovementInv, NEW angle \in Int, SetAngle(angle)
  PROVE  MovementInv'
<1>1. iTargetPosition' = StepsOfAngle(angle) /\ iTargetPosition' \in Int
  BY StepsType DEF SetAngle
<1>2. PositionFollowsAngle'
  BY <1>1, PositionOfAngle DEF SetAngle, PositionFollowsAngle
<1> QED
  BY <1>1, <1>2 DEF SetAngle, MovementInv, MovementTypeOK

\* SUB_10 adds to the position.
LEMMA MoveOnInv ==
  ASSUME MovementInv, MoveOn
  PROVE  MovementInv'
<1> DEFINE a == StepsOfAngle(iAngle)
<1>1. a \in Int /\ iTargetPosition \in Int
  BY StepsType DEF MovementInv, MovementTypeOK
<1>2. iTargetPosition >= a /\ (iTargetPosition - a) % 100000 = 0
  BY DEF MovementInv, PositionFollowsAngle
<1>3. iTargetPosition' = iTargetPosition + 100000 /\ iAngle' = iAngle
  BY DEF MoveOn
<1> HIDE DEF a
<1>4. /\ iTargetPosition' \in Int
      /\ iTargetPosition' >= a /\ (iTargetPosition' - a) % 100000 = 0
  BY <1>1, <1>2, <1>3
<1>5. PositionFollowsAngle'
  BY <1>3, <1>4 DEF PositionFollowsAngle, a
<1> QED
  BY <1>4, <1>5 DEF MoveOn, MovementInv, MovementTypeOK

\* The keys.
LEMMA KeyPressedInv ==
  ASSUME MovementInv, NEW key, KeyPressed(key)
  PROVE  MovementInv'
<1>1. iAngle \in Int /\ motor \in Motor
  BY DEF MovementInv, MovementTypeOK
<1>2. CASE Play \/ Stop
  <2>1. motor' \in Motor
    BY <1>1, <1>2 DEF Play, Stop, Motor, MovementInv, MovementTypeOK
  <2> QED
    BY <1>2, <2>1 DEF Play, Stop, MovementInv, MovementTypeOK, PositionFollowsAngle
<1>3. CASE SetAngle(iAngle - 15) \/ SetAngle(iAngle + 15) \/ SetAngle(iAngle)
  <2>1. iAngle - 15 \in Int /\ iAngle + 15 \in Int
    BY <1>1
  <2> QED
    BY <1>1, <1>3, <2>1, SetAngleInv
<1>4. CASE MoveOn
  BY <1>4, MoveOnInv
<1>5. CASE UNCHANGED movementVars
  BY <1>5 DEF movementVars, MovementInv, MovementTypeOK, PositionFollowsAngle
<1> QED
  BY <1>2, <1>3, <1>4, <1>5 DEF KeyPressed

\* The motor arrives.
LEMMA MotorArriveInv ==
  ASSUME MovementInv, MotorArrive
  PROVE  MovementInv'
<1>1. motor' \in Motor
  BY DEF MotorArrive, Motor, MovementInv, MovementTypeOK
<1> QED
  BY <1>1 DEF MotorArrive, MovementInv, MovementTypeOK, PositionFollowsAngle

\* Nothing has been asked for.
LEMMA MovementInitInv == MovementInit => MovementInv
<1> SUFFICES ASSUME MovementInit PROVE MovementInv
  OBVIOUS
<1>1. 0 * 3604480 = 0 /\ 0 \div 261 = 0
  OBVIOUS
<1>2. StepsOfAngle(0) = 0
  BY <1>1 DEF StepsOfAngle, Truncate
<1>3. MovementTypeOK
  <2>1. [moving |-> FALSE, steps |-> 0, velocity |-> 10000] \in Motor
    BY DEF Motor
  <2>2. movement_queue \in Seq(HostData)
    <3>1. movement_queue = << >>
      BY DEF MovementInit
    <3> QED
      BY <3>1
  <2>3. movement_skip \in BOOLEAN /\ bIsFirstCall \in BOOLEAN
    <3>1. movement_skip = FALSE /\ bIsFirstCall = TRUE
      BY DEF MovementInit
    <3> QED
      BY <3>1
  <2>4. iAngle \in Int /\ iTargetPosition \in Int /\ motor \in Motor
    BY <2>1 DEF MovementInit
  <2> QED
    BY <2>2, <2>3, <2>4 DEF MovementTypeOK
<1>4. PositionFollowsAngle
  BY <1>2 DEF MovementInit, PositionFollowsAngle
<1> QED
  BY <1>3, <1>4 DEF MovementInv

\* The invariant holds in every state.
THEOREM MovementInvariant == MovementSpec => []MovementInv
<1>1. MovementInv /\ [MovementNext]_movementVars => MovementInv'
  <2> SUFFICES ASSUME MovementInv, [MovementNext]_movementVars PROVE MovementInv'
    OBVIOUS
  <2>1. CASE \E d \in HostData : QueueMovement(d)
    BY <2>1, QueueMovementInv
  <2>2. CASE MovementStep
    BY <2>2, MovementStepInv
  <2>3. CASE \E key \in Keys : KeyPressed(key)
    BY <2>3, KeyPressedInv
  <2>4. CASE MotorArrive
    BY <2>4, MotorArriveInv
  <2>5. CASE UNCHANGED movementVars
    BY <2>5 DEF movementVars, MovementInv, MovementTypeOK, PositionFollowsAngle
  <2> QED
    BY <2>1, <2>2, <2>3, <2>4, <2>5 DEF MovementNext
<1> QED
  BY <1>1, MovementInitInv, PTL DEF MovementSpec

\* The variables of the movements have their types.
THEOREM MovementTypeCorrect == MovementSpec => []MovementTypeOK
<1>1. MovementInv => MovementTypeOK
  BY DEF MovementInv
<1> QED
  BY <1>1, MovementInvariant, PTL

\* The position PLAY will move to is that of the angle plus what SUB_10 added,
\* whatever the host and the remote control did before.
THEOREM PositionIsOfAngle == MovementSpec => []PositionFollowsAngle
<1>1. MovementInv => PositionFollowsAngle
  BY DEF MovementInv
<1> QED
  BY <1>1, MovementInvariant, PTL

-----------------------------------------------------------------------------
(***************************************************************************)
(* The whole program.                                                      *)
(***************************************************************************)

\* The types of what the threads and the timer loop share, and of the loop's
\* own variables.
LoopTypeOK ==
  /\ ir_queue \in Seq(Keys \cup {UnknownKey})
  /\ tcp_queue \in Seq(RawMessage)
  /\ pc \in Parts
  /\ host_data_raw \in RawMessage
  /\ szTxt2 \in Keys \cup {NoKey, UnknownKey}
  /\ cTaste \in Keys \cup {NoKey}
  /\ old_cTaste \in Keys \cup {NoKey}

AllQueued(queue) == \A i \in DOMAIN queue : queue[i].mov_queued

\* Between interpreting a message and processing the movements, an instant
\* movement may wait, alone in the queue.
InstantIsAlone == \E d \in HostData : ~ d.mov_queued /\ movement_queue = <<d>>

\* movement_skip speaks of the front of the queue, if there is one.
WaitingOK ==
  IF movement_skip /\ movement_queue # << >>
  THEN pc = "movement" /\ InstantIsAlone
  ELSE AllQueued(movement_queue)

\* The inductive invariant.
OrbiterInv ==
  /\ MovementInv
  /\ StimuliInv
  /\ LoopTypeOK
  /\ WaitingOK
  /\ old_cTaste = cTaste

-----------------------------------------------------------------------------
\* A queue of queued movements stays one when its front is taken off, or
\* another queued one is put at its end.
LEMMA AllQueuedTail ==
  ASSUME NEW queue \in Seq(HostData), queue # << >>, AllQueued(queue)
  PROVE  AllQueued(Tail(queue))
<1>1. /\ Tail(queue) \in Seq(HostData) /\ Len(Tail(queue)) = Len(queue) - 1
      /\ \A i \in 1 .. Len(Tail(queue)) : Tail(queue)[i] = queue[i + 1]
  BY HeadTailProperties
<1>2. \A i \in 1 .. Len(Tail(queue)) : i + 1 \in 1 .. Len(queue)
  BY <1>1, LenProperties
<1>3. DOMAIN queue = 1 .. Len(queue) /\ DOMAIN Tail(queue) = 1 .. Len(Tail(queue))
  BY <1>1, LenProperties
<1> QED
  BY <1>1, <1>2, <1>3 DEF AllQueued

\* A queued movement behind queued ones leaves all of them queued.
LEMMA AllQueuedAppend ==
  ASSUME NEW queue \in Seq(HostData), AllQueued(queue),
         NEW d \in HostData, d.mov_queued
  PROVE  AllQueued(Append(queue, d))
<1> DEFINE longer == Append(queue, d)
<1>1. /\ longer \in Seq(HostData) /\ Len(longer) = Len(queue) + 1
      /\ \A i \in 1 .. Len(queue) : longer[i] = queue[i]
      /\ longer[Len(queue) + 1] = d
  BY AppendProperties
<1>2. DOMAIN queue = 1 .. Len(queue) /\ DOMAIN longer = 1 .. Len(longer)
      /\ Len(queue) \in Nat
  BY <1>1, LenProperties
<1> HIDE DEF longer
<1>3. ASSUME NEW i \in DOMAIN longer
      PROVE  longer[i].mov_queued
  <2>1. i \in 1 .. Len(queue) \/ i = Len(queue) + 1
    BY <1>1, <1>2
  <2> QED
    BY <1>1, <1>2, <2>1 DEF AllQueued
<1> QED
  BY <1>3 DEF AllQueued, longer

-----------------------------------------------------------------------------
(***************************************************************************)
(* Every step preserves the invariant.                                     *)
(***************************************************************************)

\* A step that leaves the movements alone, from a part of TimerFunc other than
\* the movements, to one that is not.
LEMMA MovementsLeftAlone ==
  ASSUME OrbiterInv, UNCHANGED movementVars, pc # "movement" \/ pc' = pc
  PROVE  MovementInv' /\ WaitingOK'
<1>1. MovementInv'
  BY DEF OrbiterInv, MovementInv, MovementTypeOK, PositionFollowsAngle, movementVars
<1>2. WaitingOK'
  BY DEF OrbiterInv, WaitingOK, AllQueued, InstantIsAlone, movementVars
<1> QED
  BY <1>1, <1>2

\* A step that leaves the player alone.
LEMMA PlayerLeftAlone ==
  ASSUME OrbiterInv, UNCHANGED lib
  PROVE  StimuliInv'
  BY DEF OrbiterInv, StimuliInv

\* ir_func pushes a code.
LEMMA IrPushInv ==
  ASSUME OrbiterInv, NEW key \in Keys \cup {UnknownKey}, IrPush(key)
  PROVE  OrbiterInv'
<1>1. MovementInv' /\ WaitingOK' /\ StimuliInv'
  BY MovementsLeftAlone, PlayerLeftAlone DEF IrPush, loopVars
<1>2. ir_queue' \in Seq(Keys \cup {UnknownKey})
  BY AppendProperties DEF OrbiterInv, LoopTypeOK, IrPush
<1> QED
  BY <1>1, <1>2 DEF OrbiterInv, LoopTypeOK, IrPush, loopVars

\* tcp_func pushes a text.
LEMMA TcpPushInv ==
  ASSUME OrbiterInv, NEW raw \in RawMessage, TcpPush(raw)
  PROVE  OrbiterInv'
<1>1. MovementInv' /\ WaitingOK' /\ StimuliInv'
  BY MovementsLeftAlone, PlayerLeftAlone DEF TcpPush, loopVars
<1>2. tcp_queue' \in Seq(RawMessage)
  BY AppendProperties DEF OrbiterInv, LoopTypeOK, TcpPush
<1> QED
  BY <1>1, <1>2 DEF OrbiterInv, LoopTypeOK, TcpPush, loopVars

\* No text is a text too.
LEMMA EmptyTextType == EmptyText \in RawMessage
  BY DEF EmptyText, RawMessage

\* The codes of the round are taken off their queue.
LEMMA IrDrainInv ==
  ASSUME OrbiterInv, IrDrain
  PROVE  OrbiterInv'
<1>1. MovementInv' /\ WaitingOK' /\ StimuliInv'
  BY MovementsLeftAlone, PlayerLeftAlone DEF IrDrain
<1>2. szTxt2' \in Keys \cup {NoKey, UnknownKey}
  <2>1. CASE ir_queue = << >>
    BY <2>1 DEF IrDrain
  <2>2. CASE ir_queue # << >>
    <3>1. ir_queue \in Seq(Keys \cup {UnknownKey})
      BY DEF OrbiterInv, LoopTypeOK
    <3>2. Len(ir_queue) \in 1 .. Len(ir_queue)
      BY <2>2, <3>1, EmptySeq, LenProperties
    <3>3. ir_queue[Len(ir_queue)] \in Keys \cup {UnknownKey}
      BY <3>1, <3>2, ElementOfSeq
    <3> QED
      BY <2>2, <3>3 DEF IrDrain
  <2> QED
    BY <2>1, <2>2
<1>3. ir_queue' \in Seq(Keys \cup {UnknownKey})
  BY DEF IrDrain
<1>4. host_data_raw' \in RawMessage /\ pc' \in Parts
  BY EmptyTextType DEF IrDrain, Parts
<1> QED
  BY <1>1, <1>2, <1>3, <1>4 DEF OrbiterInv, LoopTypeOK, IrDrain

\* A text is taken off its queue.
LEMMA TcpPopInv ==
  ASSUME OrbiterInv, TcpPop
  PROVE  OrbiterInv'
<1>1. MovementInv' /\ WaitingOK' /\ StimuliInv'
  BY MovementsLeftAlone, PlayerLeftAlone DEF TcpPop
<1>2. tcp_queue' \in Seq(RawMessage) /\ host_data_raw' \in RawMessage
  BY HeadTailProperties DEF OrbiterInv, LoopTypeOK, TcpPop
<1> QED
  BY <1>1, <1>2 DEF OrbiterInv, LoopTypeOK, TcpPop

\* There is no text left.
LEMMA TcpEmptyInv ==
  ASSUME OrbiterInv, TcpEmpty
  PROVE  OrbiterInv'
<1>1. MovementInv' /\ WaitingOK' /\ StimuliInv'
  BY MovementsLeftAlone, PlayerLeftAlone DEF TcpEmpty
<1> QED
  BY <1>1 DEF OrbiterInv, LoopTypeOK, TcpEmpty, Parts

\* The text becomes data of the host, which is queued or alone in the queue.
LEMMA InterpretInv ==
  ASSUME OrbiterInv, Interpret
  PROVE  OrbiterInv'
<1> DEFINE d == decodeHostData(host_data_raw)
<1>1. d \in HostData /\ d.mov_queued \in BOOLEAN
  BY DecodeType, MovementDataType DEF OrbiterInv, LoopTypeOK
<1>2. AllQueued(movement_queue) /\ movement_queue \in Seq(HostData)
  BY DEF OrbiterInv, WaitingOK, MovementInv, MovementTypeOK, Interpret
<1>3. MovementInv' /\ WaitingOK' /\ StimuliInv'
  <2>1. CASE host_data_raw.len = 0
    BY <2>1, MovementsLeftAlone, PlayerLeftAlone DEF Interpret
  <2>2. CASE host_data_raw.len # 0
    <3>1. QueueMovement(d) /\ QueueStimulus(d)
      BY <2>2 DEF Interpret
    <3> HIDE DEF d
    <3>2. MovementInv' /\ StimuliInv'
      BY <1>1, <3>1, QueueMovementInv, QueueStimulusInv DEF OrbiterInv
    <3>3. CASE d.mov_queued
      <4>1. movement_queue' = Append(movement_queue, d) /\ ~ movement_skip'
        BY <3>1, <3>3 DEF QueueMovement
      <4>2. AllQueued(Append(movement_queue, d))
        BY <1>1, <1>2, <3>3, AllQueuedAppend
      <4>3. AllQueued(movement_queue')
        BY <4>1, <4>2
      <4> QED
        BY <3>2, <4>1, <4>3 DEF WaitingOK, AllQueued
    <3>4. CASE ~ d.mov_queued
      <4>1. movement_queue' = <<d>> /\ movement_skip'
        BY <3>1, <3>4 DEF QueueMovement
      <4>2. pc' = "movement"
        BY DEF Interpret
      <4> QED
        BY <1>1, <3>2, <3>4, <4>1, <4>2 DEF WaitingOK, InstantIsAlone
    <3> QED
      BY <3>3, <3>4
  <2> QED
    BY <2>1, <2>2
<1> QED
  BY <1>3 DEF OrbiterInv, LoopTypeOK, Interpret, Parts

\* An instant movement is taken off the queue; of the queued ones none or the
\* first is.
LEMMA ProcessMovementsInv ==
  ASSUME OrbiterInv, ProcessMovements
  PROVE  OrbiterInv'
<1>1. MovementInv' /\ StimuliInv'
  BY MovementStepInv, PlayerLeftAlone DEF OrbiterInv, ProcessMovements
<1>2. movement_queue \in Seq(HostData)
  BY DEF OrbiterInv, MovementInv, MovementTypeOK
<1>3. movement_skip' = movement_skip
  BY DEF ProcessMovements, MovementStep, NoMovementPending, WaitForMovement,
         ProcessNextMovement, ProcessOnFirstCall, movementVars
<1>4. WaitingOK'
  <2>1. CASE movement_skip /\ movement_queue # << >>
    <3>1. PICK d \in HostData : movement_queue = <<d>>
      BY <2>1 DEF OrbiterInv, WaitingOK, InstantIsAlone
    <3>2. movement_queue' = Tail(movement_queue)
      BY <2>1 DEF ProcessMovements, MovementStep, NoMovementPending, WaitForMovement,
                  ProcessNextMovement, ProcessOnFirstCall, vProcessMovement
    <3>3. movement_queue' = << >>
      BY <3>1, <3>2
    <3> QED
      BY <3>3 DEF WaitingOK, AllQueued
  <2>2. CASE ~ movement_skip \/ movement_queue = << >>
    <3>1. AllQueued(movement_queue)
      BY <2>2 DEF OrbiterInv, WaitingOK
    <3>2. movement_queue' = movement_queue
          \/ (movement_queue # << >> /\ movement_queue' = Tail(movement_queue))
      BY DEF ProcessMovements, MovementStep, NoMovementPending, WaitForMovement,
             ProcessNextMovement, ProcessOnFirstCall, vProcessMovement, movementVars
    <3>3. AllQueued(movement_queue')
      BY <1>2, <3>1, <3>2, AllQueuedTail
    <3>4. ~ (movement_skip' /\ movement_queue' # << >>)
      BY <1>3, <2>2, <3>2
    <3> QED
      BY <3>3, <3>4 DEF WaitingOK, AllQueued
  <2> QED
    BY <2>1, <2>2
<1> QED
  BY <1>1, <1>4 DEF OrbiterInv, LoopTypeOK, ProcessMovements, Parts

\* The stimuli of the round.
LEMMA ProcessStimuliInv ==
  ASSUME OrbiterInv, ProcessStimuli
  PROVE  OrbiterInv'
<1>1. MovementInv' /\ WaitingOK'
  BY MovementsLeftAlone DEF ProcessStimuli
<1>2. MovementsPending \in BOOLEAN /\ (~ motor.moving) \in BOOLEAN
  BY DEF MovementsPending
<1>3. StimuliInv'
  BY <1>2, StimuliStepInv DEF OrbiterInv, ProcessStimuli
<1> QED
  BY <1>1, <1>3 DEF OrbiterInv, LoopTypeOK, ProcessStimuli, Parts

\* A key does not touch the queue of movements.
LEMMA ProcessKeysInv ==
  ASSUME OrbiterInv, ProcessKeys
  PROVE  OrbiterInv'
<1>1. cTaste' \in Keys \cup {NoKey} /\ old_cTaste' = cTaste'
  BY DEF OrbiterInv, LoopTypeOK, ProcessKeys
<1>2. KeyPressed(cTaste') \/ UNCHANGED movementVars
  BY DEF ProcessKeys
<1>3. CASE KeyPressed(cTaste')
  <2>1. MovementInv'
    BY <1>3, KeyPressedInv DEF OrbiterInv
  <2>2. movement_queue' = movement_queue /\ movement_skip' = movement_skip
    BY <1>3 DEF KeyPressed, Play, Stop, SetAngle, MoveOn, movementVars
  <2>3. AllQueued(movement_queue) /\ ~ (movement_skip /\ movement_queue # << >>)
    BY DEF OrbiterInv, WaitingOK, ProcessKeys
  <2>4. WaitingOK'
    BY <2>2, <2>3 DEF WaitingOK, AllQueued
  <2> QED
    BY <1>1, <2>1, <2>4, PlayerLeftAlone
       DEF OrbiterInv, LoopTypeOK, ProcessKeys, Parts
<1>4. CASE UNCHANGED movementVars
  <2>1. MovementInv' /\ WaitingOK' /\ StimuliInv'
    BY <1>4, MovementsLeftAlone, PlayerLeftAlone DEF ProcessKeys
  <2> QED
    BY <1>1, <2>1 DEF OrbiterInv, LoopTypeOK, ProcessKeys, Parts
<1> QED
  BY <1>2, <1>3, <1>4

\* The end of the round.
LEMMA IdleInv ==
  ASSUME OrbiterInv, Idle
  PROVE  OrbiterInv'
<1>1. MovementInv' /\ WaitingOK' /\ StimuliInv'
  BY MovementsLeftAlone, PlayerLeftAlone DEF Idle
<1> QED
  BY <1>1 DEF OrbiterInv, LoopTypeOK, Idle, Parts

\* The motor arrives.
LEMMA MotorStepInv ==
  ASSUME OrbiterInv, MotorStep
  PROVE  OrbiterInv'
<1>1. MovementInv' /\ StimuliInv'
  BY MotorArriveInv, PlayerLeftAlone DEF OrbiterInv, MotorStep
<1>2. WaitingOK'
  BY DEF OrbiterInv, WaitingOK, AllQueued, InstantIsAlone, MotorStep, MotorArrive, loopVars
<1> QED
  BY <1>1, <1>2 DEF OrbiterInv, LoopTypeOK, MotorStep, loopVars

\* Time passes for the sound.
LEMMA AudioStepInv ==
  ASSUME OrbiterInv, AudioStep
  PROVE  OrbiterInv'
<1>1. MovementInv' /\ WaitingOK' /\ StimuliInv'
  BY MovementsLeftAlone, AudioAdvanceInv DEF OrbiterInv, AudioStep, loopVars
<1> QED
  BY <1>1 DEF OrbiterInv, LoopTypeOK, AudioStep, loopVars

\* Nothing happens.
LEMMA StutterInv ==
  ASSUME OrbiterInv, UNCHANGED orbiterVars
  PROVE  OrbiterInv'
<1>1. MovementInv' /\ WaitingOK' /\ StimuliInv'
  BY MovementsLeftAlone, PlayerLeftAlone DEF orbiterVars, loopVars
<1> QED
  BY <1>1 DEF OrbiterInv, LoopTypeOK, orbiterVars, loopVars

\* Every step keeps the invariant.
LEMMA OrbiterNextInv ==
  ASSUME OrbiterInv, [OrbiterNext]_orbiterVars
  PROVE  OrbiterInv'
<1>1. CASE \E key \in Keys \cup {UnknownKey} : IrPush(key)
  BY <1>1, IrPushInv
<1>2. CASE \E raw \in RawMessage : TcpPush(raw)
  BY <1>2, TcpPushInv
<1>3. CASE TimerLoop
  BY <1>3, IrDrainInv, TcpPopInv, TcpEmptyInv, InterpretInv, ProcessMovementsInv,
     ProcessStimuliInv, ProcessKeysInv, IdleInv DEF TimerLoop
<1>4. CASE MotorStep
  BY <1>4, MotorStepInv
<1>5. CASE AudioStep
  BY <1>5, AudioStepInv
<1>6. CASE UNCHANGED orbiterVars
  BY <1>6, StutterInv
<1> QED
  BY <1>1, <1>2, <1>3, <1>4, <1>5, <1>6 DEF OrbiterNext

\* The program has just started.
LEMMA OrbiterInitInv == OrbiterInit => OrbiterInv
<1> SUFFICES ASSUME OrbiterInit PROVE OrbiterInv
  OBVIOUS
<1>1. MovementInv
  BY MovementInitInv DEF OrbiterInit
<1>2. StimuliInv
  BY NewLibraryOK DEF OrbiterInit, StimuliInit, StimuliInv
<1>3. WaitingOK
  BY DEF OrbiterInit, MovementInit, WaitingOK, AllQueued
<1>4. LoopTypeOK
  BY EmptyTextType DEF OrbiterInit, LoopTypeOK, Parts
<1> QED
  BY <1>1, <1>2, <1>3, <1>4 DEF OrbiterInit, OrbiterInv

-----------------------------------------------------------------------------
(***************************************************************************)
(* The theorems.                                                           *)
(***************************************************************************)

\* The invariant holds in every state of the program.
THEOREM OrbiterInvariant == OrbiterSpec => []OrbiterInv
<1>1. OrbiterInv /\ [OrbiterNext]_orbiterVars => OrbiterInv'
  BY OrbiterNextInv
<1> QED
  BY <1>1, OrbiterInitInv, PTL DEF OrbiterSpec

\* Every variable of the program has its type: whatever the host sends, only
\* data with an audio file, or zero, gets into the queues.
THEOREM OrbiterTypeCorrect == OrbiterSpec => []OrbiterTypeOK
<1>1. OrbiterInv => OrbiterTypeOK
  BY InvImpliesProperties DEF OrbiterInv, MovementInv, LoopTypeOK, OrbiterTypeOK
<1> QED
  BY <1>1, OrbiterInvariant, PTL

\* An instant movement is commanded in the round that interprets its message.
THEOREM InstantIsInstant == OrbiterSpec => []InstantMovementIsInstant
<1>1. OrbiterInv => InstantMovementIsInstant
  BY DEF OrbiterInv, WaitingOK, AllQueued, InstantMovementIsInstant
<1> QED
  BY <1>1, OrbiterInvariant, PTL

\* A key whose code comes again in the round after the one it was taken in does
\* not act a second time, whatever the host and the motor do in between.
THEOREM RepeatedKeyIsIdle == OrbiterSpec => RepeatedKeyDoesNotAct
<1>1. OrbiterInv /\ [OrbiterNext]_orbiterVars =>
        [ (ProcessKeys /\ szTxt2 = cTaste) => UNCHANGED movementVars ]_orbiterVars
  <2> SUFFICES ASSUME OrbiterInv, ProcessKeys, szTxt2 = cTaste
               PROVE  UNCHANGED movementVars
    OBVIOUS
  <2>1. cTaste' = old_cTaste
    BY DEF OrbiterInv, ProcessKeys
  <2> QED
    BY <2>1 DEF ProcessKeys
<1> QED
  BY <1>1, OrbiterInvariant, PTL DEF OrbiterSpec, RepeatedKeyDoesNotAct

-----------------------------------------------------------------------------
(***************************************************************************)
(* The program implements SoundSession, liveness aside.                    *)
(***************************************************************************)
session  == bCurrentlyAHijackedProtcolIsProcessed(lib)
sounding == lib.endless > 0

\* A step that leaves the player alone is one of the movements.
LEMMA MovementsAreMovements ==
  ASSUME lib' = lib
  PROVE  [Session!SessionNext]_Session!sessionVars
<1>1. MovementsPending' \in BOOLEAN
  BY DEF MovementsPending
<1>2. UNCHANGED <<session, sounding>>
  BY DEF session, sounding, bCurrentlyAHijackedProtcolIsProcessed
<1> QED
  BY <1>1, <1>2 DEF Session!SessionNext, Session!Movements, session, sounding

\* The two questions to the controller have one answer here, so that a round
\* that takes a stimulus with the reserved duration starts it or ends it.
LEMMA StartedNext ==
  ASSUME OrbiterInv, StartedOK(lib), [OrbiterNext]_orbiterVars
  PROVE  StartedOK(lib')
<1>1. CASE ProcessStimuli
  <2>1. StimuliInv /\ StimuliStep(MovementsPending, ~ motor.moving)
    BY <1>1 DEF OrbiterInv, ProcessStimuli
  <2>2. MovementsPending \in BOOLEAN /\ (~ motor.moving) \in BOOLEAN
    BY DEF MovementsPending
  <2>3. CASE HijackGoesOn(MovementsPending)
    BY <2>1, <2>2, <2>3, HijackGoesOnInv
  <2>4. CASE HijackEnds(MovementsPending, ~ motor.moving)
    BY <2>1, <2>2, <2>4, HijackEndsInv DEF StartedOK
  <2>5. ~ HijackStays(MovementsPending, ~ motor.moving)
    BY DEF HijackStays, MovementsPending
  <2>6. CASE PlayRest \/ PlayNext \/ NothingToPlay
    BY <2>1, <2>6, PlayRestInv, PlayNextInv, NothingToPlayInv DEF StartedOK
  <2> QED
    BY <2>1, <2>3, <2>4, <2>5, <2>6 DEF StimuliStep
<1>2. CASE AudioStep
  BY <1>2, AudioAdvanceInv DEF OrbiterInv, AudioStep, StartedOK
<1>3. CASE Interpret
  <2>1. PICK d \in HostData : lib' = lib \/ QueueStimulus(d)
    BY <1>3, DecodeType DEF Interpret, OrbiterInv, LoopTypeOK
  <2> QED
    BY <2>1, QueueStimulusInv DEF OrbiterInv
<1>4. CASE UNCHANGED lib
  BY <1>4
<1> QED
  BY <1>1, <1>2, <1>3, <1>4
     DEF OrbiterNext, TimerLoop, IrPush, TcpPush, IrDrain, TcpPop, TcpEmpty,
         ProcessMovements, ProcessKeys, Idle, MotorStep, orbiterVars

\* What the stimuli processing of a round is to the session.
LEMMA StimuliAreSession ==
  ASSUME OrbiterInv, StartedOK(lib), ProcessStimuli
  PROVE  [Session!SessionNext]_Session!sessionVars
<1>1. UNCHANGED MovementsPending /\ MovementsPending \in BOOLEAN
  BY DEF ProcessStimuli, movementVars, MovementsPending
<1>2. StimuliInv /\ StimuliStep(MovementsPending, ~ motor.moving)
  BY DEF OrbiterInv, ProcessStimuli
<1>a. (~ motor.moving) \in BOOLEAN
  OBVIOUS
<1>b. ~ HijackStays(MovementsPending, ~ motor.moving)
  BY DEF HijackStays, MovementsPending
<1>3. sounding' \in BOOLEAN
  BY DEF sounding
<1>4. CASE HijackGoesOn(MovementsPending)
  <2>1. session' /\ MovementsPending
    BY <1>1, <1>2, <1>4, HijackGoesOnInv
       DEF HijackGoesOn, session, bCurrentlyAHijackedProtcolIsProcessed
  <2>2. CASE session
    <3>1. lib'.endless = lib.endless
      BY <1>1, <1>2, <1>4, <2>2, HijackGoesOnInv DEF session
    <3> QED
      BY <1>1, <2>1, <2>2, <3>1 DEF Session!sessionVars, session, sounding
  <2>3. CASE ~ session
    BY <1>1, <1>3, <2>1, <2>3
       DEF Session!SessionNext, Session!Begin, session, sounding
  <2> QED
    BY <2>2, <2>3
<1>5. CASE HijackEnds(MovementsPending, ~ motor.moving)
  <2>a. ~ MovementsPending
    BY <1>5 DEF HijackEnds
  <2>b. lib'.endless = 0 /\ lib'.hostDataOfHijackedProtocol = NoData
    BY <1>1, <1>2, <1>5, <1>a, HijackEndsInv
  <2>1. ~ session' /\ ~ sounding' /\ ~ MovementsPending
    BY <2>a, <2>b DEF session, sounding, bCurrentlyAHijackedProtcolIsProcessed
  <2>2. CASE session
    BY <1>1, <1>3, <2>1, <2>2
       DEF Session!SessionNext, Session!End, session, sounding
  <2>3. CASE ~ session
    <3>1. ~ sounding
      BY <1>2, <2>3, ObjectFields
         DEF StimuliInv, ObjectOK, HijackOK, session, sounding,
             bCurrentlyAHijackedProtcolIsProcessed
    <3>2. session' = session /\ sounding' = sounding
      BY <2>1, <2>3, <3>1 DEF session, sounding, bCurrentlyAHijackedProtcolIsProcessed
    <3> QED
      BY <1>1, <3>2 DEF Session!sessionVars, session, sounding
  <2> QED
    BY <2>2, <2>3
<1>6. CASE PlayRest \/ PlayNext \/ NothingToPlay
  <2>1. ~ session /\ ~ sounding
    BY <1>2, <1>6, NotHijacked
       DEF PlayRest, PlayNext, NothingToPlay, session, sounding,
           bCurrentlyAHijackedProtcolIsProcessed
  <2>2. ~ session' /\ ~ sounding'
    BY <1>2, <1>6, <2>1, PlayRestInv, PlayNextInv, NothingToPlayInv
       DEF session, sounding, bCurrentlyAHijackedProtcolIsProcessed
  <2>3. session' = session /\ sounding' = sounding
    BY <2>1, <2>2 DEF session, sounding, bCurrentlyAHijackedProtcolIsProcessed
  <2> QED
    BY <1>1, <2>3 DEF Session!sessionVars, session, sounding
<1> QED
  BY <1>2, <1>4, <1>5, <1>6, <1>b DEF StimuliStep

\* FMOD may silence the session's sound, and does nothing else to it.
LEMMA AudioIsSilence ==
  ASSUME OrbiterInv, AudioStep
  PROVE  [Session!SessionNext]_Session!sessionVars
<1>1. UNCHANGED <<MovementsPending, session>> /\ lib'.endless \in {0, lib.endless}
  BY AudioAdvanceInv DEF OrbiterInv, AudioStep, movementVars, MovementsPending,
     session, bCurrentlyAHijackedProtcolIsProcessed
<1>2. lib.endless \in Nat
  BY ObjectFields DEF OrbiterInv, StimuliInv, ObjectOK
<1>3. CASE lib'.endless = lib.endless
  BY <1>1, <1>3 DEF Session!sessionVars, session, sounding
<1>4. CASE lib'.endless = 0 /\ lib.endless > 0
  BY <1>1, <1>4 DEF Session!SessionNext, Session!Silence, session, sounding
<1> QED
  BY <1>1, <1>2, <1>3, <1>4

\* Every step is one of the session, or leaves the session alone.
LEMMA NextIsSessionNext ==
  ASSUME OrbiterInv, StartedOK(lib), [OrbiterNext]_orbiterVars
  PROVE  [Session!SessionNext]_Session!sessionVars
<1>1. CASE ProcessStimuli
  BY <1>1, StimuliAreSession
<1>2. CASE AudioStep
  BY <1>2, AudioIsSilence
<1>3. CASE Interpret
  <2>1. PICK d \in HostData : lib' = lib \/ QueueStimulus(d)
    BY <1>3, DecodeType DEF Interpret, OrbiterInv, LoopTypeOK
  <2>2. CASE lib' = lib
    BY <2>2, MovementsAreMovements
  <2>3. CASE QueueStimulus(d)
    <3>1. lib \in StimuliLibraryObject
      BY DEF OrbiterInv, StimuliInv, ObjectOK
    <3>2. lib'.hostDataOfHijackedProtocol = lib.hostDataOfHijackedProtocol
          /\ lib'.endless = lib.endless
      BY <2>3, <3>1 DEF QueueStimulus, StimuliLibraryObject
    <3>3. MovementsPending' \in BOOLEAN
      BY DEF MovementsPending
    <3> QED
      BY <3>2, <3>3
         DEF Session!SessionNext, Session!Movements, bCurrentlyAHijackedProtcolIsProcessed
  <2> QED
    BY <2>1, <2>2, <2>3
<1>4. CASE UNCHANGED lib
  BY <1>4, MovementsAreMovements
<1> QED
  BY <1>1, <1>2, <1>3, <1>4
     DEF OrbiterNext, TimerLoop, IrPush, TcpPush, IrDrain, TcpPop, TcpEmpty,
         ProcessMovements, ProcessKeys, Idle, MotorStep, orbiterVars

\* A stimulus with the reserved duration begins only while movements are
\* pending, ends only when they are not, and its sound never outlives it:
\* every step of the program is a step of SoundSession or changes none of what
\* SoundSession speaks of.
THEOREM SessionIsSafe ==
  OrbiterSpec => Session!SessionInit /\ [][Session!SessionNext]_Session!sessionVars
<1>1. OrbiterInit => Session!SessionInit
  BY DEF OrbiterInit, MovementInit, StimuliInit, NewStimuliLibrary, MovementsPending,
     Session!SessionInit, bCurrentlyAHijackedProtcolIsProcessed
<1>2. OrbiterInit => StartedOK(lib)
  BY DEF OrbiterInit, StimuliInit, NewStimuliLibrary, StartedOK
<1>3. OrbiterInv /\ StartedOK(lib) /\ [OrbiterNext]_orbiterVars => StartedOK(lib)'
  BY StartedNext DEF StartedOK
<1>4. OrbiterInv /\ StartedOK(lib) /\ [OrbiterNext]_orbiterVars
        => [Session!SessionNext]_Session!sessionVars
  BY NextIsSessionNext
<1> QED
  BY <1>1, <1>2, <1>3, <1>4, OrbiterInvariant, PTL DEF OrbiterSpec

-----------------------------------------------------------------------------
(***************************************************************************)
(* The program implements MovementPlan, liveness aside.                    *)
(***************************************************************************)

\* The flag is of the movement at the front of the queue.
LEMMA SkipIsOfTheFront ==
  ASSUME OrbiterInv, movement_queue # << >>
  PROVE  Head(movement_queue).mov_queued <=> ~ movement_skip
<1>1. movement_queue \in Seq(HostData)
  BY DEF OrbiterInv, MovementInv, MovementTypeOK
<1>2. CASE movement_skip
  <2>1. PICK d \in HostData : ~ d.mov_queued /\ movement_queue = <<d>>
    BY <1>2 DEF OrbiterInv, WaitingOK, InstantIsAlone
  <2> QED
    BY <1>2, <2>1
<1>3. CASE ~ movement_skip
  <2>1. AllQueued(movement_queue)
    BY <1>3 DEF OrbiterInv, WaitingOK
  <2>2. 1 \in DOMAIN movement_queue /\ Head(movement_queue) = movement_queue[1]
    BY <1>1, HeadTailProperties, LenProperties, EmptySeq
  <2> QED
    BY <1>3, <2>1, <2>2 DEF AllQueued
<1> QED
  BY <1>2, <1>3

\* A movement is asked for.
LEMMA QueueIsAsk ==
  ASSUME OrbiterInv, NEW d \in HostData, QueueMovement(d)
  PROVE  Plan!Ask
<1>1. movement_queue \in Seq(HostData) /\ d.mov_queued \in BOOLEAN
  BY MovementDataType DEF OrbiterInv, MovementInv, MovementTypeOK
<1>2. UNCHANGED <<motor, bIsFirstCall>>
  BY DEF QueueMovement
<1>3. CASE d.mov_queued
  <2>1. movement_queue' = Append(movement_queue, d)
    BY <1>3 DEF QueueMovement
  <2>2. /\ Append(movement_queue, d) # << >>
        /\ Append(movement_queue, d)[Len(Append(movement_queue, d))] = d
    BY <1>1, AppendProperties
  <2> QED
    BY <1>2, <1>3, <2>1, <2>2 DEF Plan!Ask
<1>4. CASE ~ d.mov_queued
  <2>1. movement_queue' = <<d>>
    BY <1>4 DEF QueueMovement
  <2>2. movement_queue' # << >> /\ movement_queue'[Len(movement_queue')] = d
    BY <2>1
  <2> QED
    BY <1>2, <1>4, <2>1, <2>2 DEF Plan!Ask
<1> QED
  BY <1>1, <1>3, <1>4

\* vProcessMovement moves the speaker unless the direction is 0.
LEMMA ProcessedMoves ==
  ASSUME OrbiterInv, movement_queue # << >>, vProcessMovement
  PROVE  motor'.moving = (motor.moving \/ Head(movement_queue).direction # 0)
<1>1. motor \in Motor
  BY DEF OrbiterInv, MovementInv, MovementTypeOK
<1>2. CASE Head(movement_queue).direction # 0
  <2>1. PICK steps, speed : motor' = Moved(motor, steps, speed)
    BY <1>2 DEF vProcessMovement
  <2>2. motor'.moving = TRUE
    BY <1>1, <2>1 DEF Moved, Motor
  <2> QED
    BY <1>2, <2>2
<1>3. CASE Head(movement_queue).direction = 0
  <2>1. motor' = motor /\ motor.moving \in BOOLEAN
    BY <1>1, <1>3 DEF vProcessMovement, Motor
  <2> QED
    BY <1>3, <2>1
<1> QED
  BY <1>2, <1>3

\* What the movement processing of a round is to the plan.
LEMMA MovementsArePlanned ==
  ASSUME OrbiterInv, MovementStep
  PROVE  [Plan!PlanNext]_Plan!planVars
<1>1. CASE NoMovementPending \/ WaitForMovement
  BY <1>1 DEF NoMovementPending, WaitForMovement, movementVars, Plan!planVars
<1>2. CASE ProcessNextMovement
  <2>1. movement_queue # << >> /\ vProcessMovement
    BY <1>2 DEF ProcessNextMovement
  <2>2. /\ ~ (motor.moving /\ Head(movement_queue).mov_queued)
        /\ bIsFirstCall' = bIsFirstCall /\ bIsFirstCall \in BOOLEAN
    BY <1>2, <2>1, SkipIsOfTheFront
       DEF ProcessNextMovement, OrbiterInv, MovementInv, MovementTypeOK
  <2>3. bIsFirstCall' = (bIsFirstCall /\ ~ (motor.moving /\ Head(movement_queue).mov_queued))
    BY <2>2
  <2>4. movement_queue' = Tail(movement_queue)
    BY <2>1 DEF vProcessMovement
  <2>5. Plan!Start
    BY <2>1, <2>2, <2>3, <2>4, ProcessedMoves DEF Plan!Start
  <2> QED
    BY <2>5 DEF Plan!PlanNext
<1>3. CASE ProcessOnFirstCall
  <2>1. movement_queue # << >> /\ vProcessMovement
    BY <1>3 DEF ProcessOnFirstCall
  <2>2. motor.moving /\ Head(movement_queue).mov_queued /\ bIsFirstCall /\ bIsFirstCall' = FALSE
    BY <1>3, <2>1, SkipIsOfTheFront DEF ProcessOnFirstCall
  <2>3. bIsFirstCall' = (bIsFirstCall /\ ~ (motor.moving /\ Head(movement_queue).mov_queued))
    BY <2>2
  <2>4. movement_queue' = Tail(movement_queue)
    BY <2>1 DEF vProcessMovement
  <2>5. Plan!Start
    BY <2>1, <2>2, <2>3, <2>4, ProcessedMoves DEF Plan!Start
  <2> QED
    BY <2>5 DEF Plan!PlanNext
<1> QED
  BY <1>1, <1>2, <1>3 DEF MovementStep

\* The remote control and the motor change nothing but whether the speaker moves.
LEMMA OthersAreOtherwise ==
  ASSUME OrbiterInv, (\E key : KeyPressed(key)) \/ MotorArrive
  PROVE  Plan!Otherwise
<1>1. MovementInv'
  BY KeyPressedInv, MotorArriveInv DEF OrbiterInv
<1>2. motor'.moving \in BOOLEAN
  BY <1>1 DEF MovementInv, MovementTypeOK, Motor
<1>3. UNCHANGED <<movement_queue, bIsFirstCall>>
  BY DEF KeyPressed, Play, Stop, SetAngle, MoveOn, MotorArrive, movementVars
<1> QED
  BY <1>2, <1>3 DEF Plan!Otherwise

\* Every step is one of the components, or leaves the component alone: the timer
\* loop calls them with data it has decoded and with whether movements are
\* pending.
LEMMA StepsOfTheComponents ==
  ASSUME OrbiterInv, [OrbiterNext]_orbiterVars
  PROVE  /\ \/ UNCHANGED movementVars
            \/ \E d \in HostData : QueueMovement(d)
            \/ MovementStep
            \/ \E key \in Keys : KeyPressed(key)
            \/ MotorArrive
         /\ \/ UNCHANGED lib
            \/ \E d \in HostData : QueueStimulus(d)
            \/ \E movementsPending, reachedTarget \in BOOLEAN :
                 StimuliStep(movementsPending, reachedTarget)
            \/ AudioAdvance
<1>1. CASE Interpret
  <2>1. decodeHostData(host_data_raw) \in HostData
    BY DecodeType DEF OrbiterInv, LoopTypeOK
  <2> QED
    BY <1>1, <2>1 DEF Interpret
<1>2. CASE ProcessMovements
  BY <1>2 DEF ProcessMovements
<1>3. CASE ProcessStimuli
  <2>1. MovementsPending \in BOOLEAN /\ (~ motor.moving) \in BOOLEAN
    BY DEF MovementsPending
  <2> QED
    BY <1>3, <2>1 DEF ProcessStimuli
<1>4. CASE ProcessKeys
  <2>1. cTaste' # NoKey => cTaste' \in Keys
    BY <1>4 DEF OrbiterInv, LoopTypeOK, ProcessKeys
  <2>2. UNCHANGED movementVars \/ \E key \in Keys : KeyPressed(key)
    BY <1>4, <2>1 DEF ProcessKeys
  <2> QED
    BY <1>4, <2>2 DEF ProcessKeys
<1>5. CASE MotorStep \/ AudioStep
  BY <1>5 DEF MotorStep, AudioStep
<1>6. CASE \/ \E key \in Keys \cup {UnknownKey} : IrPush(key)
           \/ \E raw \in RawMessage : TcpPush(raw)
           \/ IrDrain \/ TcpPop \/ TcpEmpty \/ Idle
           \/ UNCHANGED orbiterVars
  BY <1>6 DEF IrPush, TcpPush, IrDrain, TcpPop, TcpEmpty, Idle, orbiterVars
<1> QED
  BY <1>1, <1>2, <1>3, <1>4, <1>5, <1>6 DEF OrbiterNext, TimerLoop

\* The movements of the whole program are carried out in the order they were
\* asked for; a queued one starts while another is under way at most once, and
\* an instant one always: every step of the program is a step of MovementPlan or
\* changes none of what MovementPlan speaks of.
THEOREM MovementsArePlannedSafely ==
  OrbiterSpec => Plan!PlanInit /\ [][Plan!PlanNext]_Plan!planVars
<1>1. OrbiterInit => Plan!PlanInit
  BY DEF OrbiterInit, MovementInit, Plan!PlanInit
<1>2. ASSUME OrbiterInv, [OrbiterNext]_orbiterVars
      PROVE  [Plan!PlanNext]_Plan!planVars
  <2>1. CASE UNCHANGED movementVars
    BY <2>1 DEF movementVars, Plan!planVars
  <2>2. CASE \E d \in HostData : QueueMovement(d)
    BY <1>2, <2>2, QueueIsAsk DEF Plan!PlanNext
  <2>3. CASE MovementStep
    BY <1>2, <2>3, MovementsArePlanned
  <2>4. CASE (\E key \in Keys : KeyPressed(key)) \/ MotorArrive
    BY <1>2, <2>4, OthersAreOtherwise DEF Plan!PlanNext
  <2> QED
    BY <1>2, <2>1, <2>2, <2>3, <2>4, StepsOfTheComponents
<1> QED
  BY <1>1, <1>2, OrbiterInvariant, PTL DEF OrbiterSpec

\* The whole program is a run of the movements and a run of the player: what
\* their specifications allow, taken alone and with any data, covers every way
\* in which the timer loop calls them.
THEOREM ComponentsComposed == OrbiterSpec => MovementSpec /\ StimuliSpec
<1>1. OrbiterInit => MovementInit /\ StimuliInit
  BY DEF OrbiterInit
<1>2. OrbiterInv /\ [OrbiterNext]_orbiterVars => [MovementNext]_movementVars
  BY StepsOfTheComponents DEF MovementNext
<1>3. OrbiterInv /\ [OrbiterNext]_orbiterVars => [StimuliNext]_lib
  BY StepsOfTheComponents DEF StimuliNext
<1> QED
  BY <1>1, <1>2, <1>3, OrbiterInvariant, PTL DEF OrbiterSpec, MovementSpec, StimuliSpec

\* So the whole program has the properties of its components, among them that
\* PLAY moves to the position of the angle, that a hijacked stimulus is started
\* once and holds the queue, and that a rest is shorter than its audio file and
\* played once.
THEOREM ComponentsKeepTheirPromises ==
  OrbiterSpec => /\ []PositionFollowsAngle
                 /\ []EndlessOnlyWhileHijacked
                 /\ []HijackIsForMovements
                 /\ []StartedOnce
                 /\ []RestShorterThanFile
                 /\ RestPlayedOnce
                 /\ HijackHoldsTheQueue
  BY ComponentsComposed, PositionIsOfAngle, EndlessIsHijacked, HijackHasDuration,
     HijackStartedOnce, RestIsShort, RestOnce, QueueIsHeld, PTL
=============================================================================
