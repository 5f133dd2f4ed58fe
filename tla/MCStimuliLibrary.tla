-------------------------- MODULE MCStimuliLibrary --------------------------
(***************************************************************************)
(* A small instance of StimuliLibrary: sounds of two and three units and   *)
(* an empty one, and durations that are shorter, equal, longer with a rest *)
(* and the reserved one.  The queue has at most MaxQueue entries.          *)
(***************************************************************************)
EXTENDS StimuliLibrary

CONSTANT MaxQueue

MCFileLength == <<2, 3, 0>>

\* What IEEE doubles make of the durations below on a file of three units, with
\* a third as the limit: 4 and 8 lose one unit of the rest, and of 4 and 7,
\* which leave exactly a third, only 7 is rounded to more than the limit.
MCRestFallsShort == {<<4, 3>>, <<8, 3>>}
MCLimitIsExceeded == {<<7, 3>>}

\* The messages of the host, as far as the player can tell them apart:
\* stimulus, duration and whether it is to be triggered.
Asked ==
  {<<1, 1, TRUE>>, <<1, 2, TRUE>>, <<2, 4, TRUE>>,
   <<2, 7, TRUE>>, <<2, 8, TRUE>>,
   <<3, 1, TRUE>>, <<1, 2, FALSE>>,
   <<1, PLAY_STIMULUS_AS_LONG_AS_MOVEMENT_PENDING, TRUE>>,
   <<1, PLAY_STIMULUS_AS_LONG_AS_MOVEMENT_PENDING, FALSE>>}

MCHostData ==
  {ZeroHostData} \cup
  {[direction |-> 1, speed |-> 100, angularDistance |-> 100,
    stimulus_nr |-> a[1], stimulusDuration |-> a[2],
    toBeTriggerd |-> a[3], mov_queued |-> TRUE, stim_queued |-> q] :
     a \in Asked, q \in BOOLEAN}

MCNext ==
  \/ \E d \in MCHostData :
       /\ ~ d.stim_queued \/ Len(lib.stimuli_queue) < MaxQueue
       /\ QueueStimulus(d)
  \/ \E movementsPending, reachedTarget \in BOOLEAN :
       StimuliStep(movementsPending, reachedTarget)
  \/ AudioAdvance

MCSpec == StimuliInit /\ [][MCNext]_lib
=============================================================================
