------------------------------ MODULE Orbiter -------------------------------
(***************************************************************************)
(* The orbiter program (main.cpp): the timer loop, which takes what the    *)
(* infrared thread and the tcp thread have put into their queues, turns a  *)
(* message of the host into a movement and a stimulus, and then sees to    *)
(* the movements, the stimuli and the keys, one after the other.           *)
(*                                                                         *)
(* pc is the part of TimerFunc the main thread is about to do.  Each part  *)
(* is one step; the two threads, the motor and FMOD take theirs in between.*)
(***************************************************************************)
EXTENDS MovementControl, StimuliLibrary

CONSTANTS
  NoKey,        \* TimerFunc found no code of the remote control ("xx")
  UnknownKey    \* a code with none of the names TimerFunc looks for

ASSUME KeyAssumption == NoKey \notin Keys /\ UnknownKey \notin Keys /\ NoKey # UnknownKey

VARIABLES
  ir_queue,       \* guarded by ir_mutex
  tcp_queue,      \* guarded by tcp_mutex, except that empty() is not
  pc,
  host_data_raw,  \* the text taken from tcp_queue in this round
  szTxt2,         \* the code taken from ir_queue in this round
  cTaste, old_cTaste

loopVars == <<pc, host_data_raw, szTxt2, cTaste, old_cTaste>>
orbiterVars == <<movementVars, lib, ir_queue, tcp_queue, loopVars>>

\* The text of length 0; recv returns it when the connection is lost.
EmptyText ==
  [len |-> 0, bad |-> {}, speaker |-> 0, direction |-> 0, speed |-> 0,
   speedDiv100 |-> 0, angle |-> 0, angleDiv100 |-> 0, queuedMov |-> 0,
   stimulus |-> 0, duration |-> 0, tbt |-> 0, queuedStim |-> 0]

Parts == {"ir", "tcp", "interpret", "movement", "stimuli", "keys", "idle"}

OrbiterInit ==
  /\ MovementInit
  /\ StimuliInit
  /\ ir_queue = << >> /\ tcp_queue = << >>
  /\ pc = "ir"
  /\ host_data_raw = EmptyText
  /\ szTxt2 = NoKey
  /\ cTaste = NoKey /\ old_cTaste = NoKey

-----------------------------------------------------------------------------
(***************************************************************************)
(* The threads.                                                            *)
(***************************************************************************)

\* ir_func: a code of the remote control.
IrPush(key) ==
  /\ ir_queue' = Append(ir_queue, key)
  /\ UNCHANGED <<movementVars, lib, tcp_queue, loopVars>>

\* tcp_func: what receive returned, which is pushed even if it is empty.
TcpPush(raw) ==
  /\ tcp_queue' = Append(tcp_queue, raw)
  /\ UNCHANGED <<movementVars, lib, ir_queue, loopVars>>

-----------------------------------------------------------------------------
(***************************************************************************)
(* The parts of TimerFunc.                                                 *)
(***************************************************************************)

\* Every code is taken off the queue under one lock; only the last one counts.
IrDrain ==
  /\ pc = "ir"
  /\ szTxt2' = IF ir_queue = << >> THEN NoKey ELSE ir_queue[Len(ir_queue)]
  /\ ir_queue' = << >>
  /\ pc' = "tcp"
  /\ host_data_raw' = EmptyText
  /\ UNCHANGED <<movementVars, lib, tcp_queue, cTaste, old_cTaste>>

\* One turn of the loop that empties tcp_queue: a lock for every text.
TcpPop ==
  /\ pc = "tcp"
  /\ tcp_queue # << >>
  /\ host_data_raw' = Head(tcp_queue)
  /\ tcp_queue' = Tail(tcp_queue)
  /\ UNCHANGED <<movementVars, lib, ir_queue, pc, szTxt2, cTaste, old_cTaste>>

TcpEmpty ==
  /\ pc = "tcp"
  /\ tcp_queue = << >>
  /\ pc' = "interpret"
  /\ UNCHANGED <<movementVars, lib, ir_queue, tcp_queue, host_data_raw, szTxt2, cTaste, old_cTaste>>

\* The last text of the round becomes a movement and a stimulus.
Interpret ==
  /\ pc = "interpret"
  /\ IF host_data_raw.len # 0
     THEN /\ QueueMovement(decodeHostData(host_data_raw))
          /\ QueueStimulus(decodeHostData(host_data_raw))
     ELSE UNCHANGED <<movementVars, lib>>
  /\ pc' = "movement"
  /\ UNCHANGED <<ir_queue, tcp_queue, host_data_raw, szTxt2, cTaste, old_cTaste>>

ProcessMovements ==
  /\ pc = "movement"
  /\ MovementStep
  /\ pc' = "stimuli"
  /\ UNCHANGED <<lib, ir_queue, tcp_queue, host_data_raw, szTxt2, cTaste, old_cTaste>>

ProcessStimuli ==
  /\ pc = "stimuli"
  /\ StimuliStep(MovementsPending, ~ motor.moving)
  /\ pc' = "keys"
  /\ UNCHANGED <<movementVars, ir_queue, tcp_queue, host_data_raw, szTxt2, cTaste, old_cTaste>>

\* Fault: the key of this round is not remembered.
ProcessKeys_NoDebounce ==
  /\ pc = "keys"
  /\ cTaste' = IF szTxt2 = UnknownKey THEN cTaste ELSE szTxt2
  /\ IF cTaste' # old_cTaste /\ cTaste' # NoKey
     THEN KeyPressed(cTaste')
     ELSE UNCHANGED movementVars
  /\ pc' = "idle"
  /\ UNCHANGED <<lib, ir_queue, tcp_queue, host_data_raw, szTxt2, old_cTaste>>

\* A code without a known name leaves the key of the round before in place; a
\* key acts when it differs from the one before.
ProcessKeys ==
  /\ pc = "keys"
  /\ cTaste' = IF szTxt2 = UnknownKey THEN cTaste ELSE szTxt2
  /\ IF cTaste' # old_cTaste /\ cTaste' # NoKey
     THEN KeyPressed(cTaste')
     ELSE UNCHANGED movementVars
  /\ old_cTaste' = cTaste'
  /\ pc' = "idle"
  /\ UNCHANGED <<lib, ir_queue, tcp_queue, host_data_raw, szTxt2>>

\* DisplayFunc and IdleFunc look at the controller, which has no error here,
\* and the main thread sleeps.
Idle ==
  /\ pc = "idle"
  /\ pc' = "ir"
  /\ UNCHANGED <<movementVars, lib, ir_queue, tcp_queue, host_data_raw, szTxt2, cTaste, old_cTaste>>

TimerLoop ==
  \/ IrDrain
  \/ TcpPop
  \/ TcpEmpty
  \/ Interpret
  \/ ProcessMovements
  \/ ProcessStimuli
  \/ ProcessKeys
  \/ Idle

MotorStep ==
  /\ MotorArrive
  /\ UNCHANGED <<lib, ir_queue, tcp_queue, loopVars>>

AudioStep ==
  /\ AudioAdvance
  /\ UNCHANGED <<movementVars, ir_queue, tcp_queue, loopVars>>

OrbiterNext ==
  \/ \E key \in Keys \cup {UnknownKey} : IrPush(key)
  \/ \E raw \in RawMessage : TcpPush(raw)
  \/ TimerLoop
  \/ MotorStep
  \/ AudioStep

\* The main thread is never blocked for good: it holds a mutex only for the
\* turn of a loop, and so do the threads.  A movement reaches its target.
OrbiterFairness ==
  /\ WF_orbiterVars(TimerLoop)
  /\ WF_orbiterVars(MotorStep)

OrbiterSpec == OrbiterInit /\ [][OrbiterNext]_orbiterVars /\ OrbiterFairness

-----------------------------------------------------------------------------
(***************************************************************************)
(* Properties.                                                             *)
(***************************************************************************)
OrbiterTypeOK ==
  /\ MovementTypeOK
  /\ StimuliTypeOK
  /\ ir_queue \in Seq(Keys \cup {UnknownKey})
  /\ tcp_queue \in Seq(RawMessage)
  /\ pc \in Parts
  /\ host_data_raw \in RawMessage
  /\ szTxt2 \in Keys \cup {NoKey, UnknownKey}
  /\ cTaste \in Keys \cup {NoKey}
  /\ old_cTaste \in Keys \cup {NoKey}

\* A movement that is to start instantly is commanded in the round in which
\* its message is interpreted: only queued movements ever wait.  The code
\* has no check for it; it rests on the order of the parts of TimerFunc, on
\* movement_skip and on the one message interpreted in a round.
InstantMovementIsInstant ==
  pc # "movement" =>
    \A i \in DOMAIN movement_queue : movement_queue[i].mov_queued

\* A key whose code comes again in the round after the one it was taken in does
\* not act a second time (the debouncing of cTaste against old_cTaste).
RepeatedKeyDoesNotAct ==
  [][ (ProcessKeys /\ szTxt2 = cTaste) => UNCHANGED movementVars ]_orbiterVars

\* A stimulus with the reserved duration keeps the promises of SoundSession:
\* its session begins and ends with the movements, and its sound with it.
Session == INSTANCE SoundSession
  WITH busy <- MovementsPending,
       session <- bCurrentlyAHijackedProtcolIsProcessed(lib),
       sounding <- lib.endless > 0

SessionRefined == Session!SessionSpec

\* The movements keep the promises of MovementPlan.  movement_skip, which is of
\* the message interpreted last, then always speaks of the movement at the front
\* of the queue, although rounds without a message leave it as it was.
Plan == INSTANCE MovementPlan
  WITH waiting <- movement_queue,
       moving <- motor.moving,
       spare <- bIsFirstCall

MovementsRefined == Plan!PlanSpec

\* When the host and the remote control ask for nothing more, the queues are
\* worked off, and then the speaker is still and no stimulus is left.
ComesToRest ==
  <>[](/\ ~ MovementsPending
       /\ lib.stimuli_queue = << >>
       /\ tcp_queue = << >>
       /\ ~ bCurrentlyAHijackedProtcolIsProcessed(lib)
       /\ lib.endless = 0)

(***************************************************************************)
(* Promises of the comments that the code does not keep.                   *)
(***************************************************************************)

\* main.cpp, TimerFunc: a text that has arrived is interpreted.  The next one
\* is not taken while one waits to be.
EveryTextIsInterpreted ==
  [][TcpPop => host_data_raw.len = 0]_orbiterVars

\* Toolbox.cpp: a text that is not valid is nothing to process for the motor
\* and the audio control.  What waits in their queues goes on waiting.
KeepsWaiting(queue, after) == SubSeq(after, 1, Len(queue)) = queue

InvalidTextIsNothing ==
  [][ (/\ Interpret
       /\ host_data_raw.len # 0
       /\ decodeHostData(host_data_raw) = ZeroHostData)
      => /\ KeepsWaiting(movement_queue, movement_queue')
         /\ KeepsWaiting(lib.stimuli_queue, lib'.stimuli_queue)
    ]_orbiterVars
=============================================================================
