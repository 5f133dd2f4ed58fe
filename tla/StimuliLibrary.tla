--------------------------- MODULE StimuliLibrary ---------------------------
(***************************************************************************)
(* The stimulus player (StimuliLibrary.cpp): the queue of stimuli asked    *)
(* for by the host, the fields playStimuli works with, the "hijacked"      *)
(* stimulus that sounds as long as movements are pending, and what FMOD is *)
(* playing.                                                                *)
(*                                                                         *)
(* The player is one record, lib, the StimuliLibrary object.  The methods  *)
(* are operators that take the object and return the object as the method  *)
(* leaves it; the actions are the calls the timer loop makes.  Times are   *)
(* natural numbers of one unit, which AudioAdvance lets pass.              *)
(***************************************************************************)
EXTENDS HostProtocol, Sequences

CONSTANTS
  FileLength,       \* the length of the audio file of every stimulus
  NoData,           \* the null pointer
  FractionLimit,    \* a fraction of 1 / FractionLimit is too small to be played
  RestFallsShort,   \* where the double arithmetic of playStimuli ...
  LimitIsExceeded   \* ... differs from the exact one

ASSUME FileLengthAssumption == FileLength \in [Stimuli -> Nat]
ASSUME NoDataAssumption == NoData \notin HostData

(***************************************************************************)
(* playStimuli divides the desired duration by the length of the file as   *)
(* doubles.  For 32-bit numbers the quotient's integral part is exact, its *)
(* fraction is 0 if nothing is left, and it is rounded otherwise.  The     *)
(* pairs <<desired, length>> in RestFallsShort are those whose fraction    *)
(* times the length is a little less than the rest, so that the conversion *)
(* to an integer gives one less (8 over 3: 1).  Those in LimitIsExceeded   *)
(* have a fraction that is exactly the limit and is rounded to a little    *)
(* more.                                                                   *)
(***************************************************************************)
ASSUME FractionLimitAssumption == FractionLimit \in Nat \ {0}
ASSUME RestFallsShortAssumption ==
  \A p \in RestFallsShort :
    p[1] \in Nat /\ p[2] \in Nat \ {0} /\ p[1] % p[2] > 0
ASSUME LimitIsExceededAssumption ==
  \A p \in LimitIsExceeded :
    p[1] \in Nat /\ p[2] \in Nat \ {0} /\ FractionLimit * (p[1] % p[2]) = p[2]

VARIABLE lib

\* No end is set for the master channel group.
NoEnd == -1

(***************************************************************************)
(* A sounding channel with an end: the audio file it plays and the time it *)
(* has left.  FMOD gives no meaning to two of them that are equal, so they *)
(* are a set; the channels looping for ever are counted.                   *)
(***************************************************************************)
Voice == [nr : Stimuli, left : Nat]

StimuliLibraryObject ==
  [stimuli_queue : Seq(HostData),
   hostDataOfHijackedProtocol : HostData \cup {NoData},
   uiDesiredDuration_ms : Nat,
   audioFileLength_ms : Nat,
   fractionLeft : BOOLEAN,      \* dFractionOfAudioFileLeftToPlay > 0.0001
   audio : Stimuli \cup {0},    \* the stimulus loaded last, 0 for none
   voices : SUBSET Voice,
   endless : Nat,
   groupEnd : Nat \cup {NoEnd}] \* setDelay on the master channel group

NewStimuliLibrary ==
  [stimuli_queue |-> << >>, hostDataOfHijackedProtocol |-> NoData,
   uiDesiredDuration_ms |-> 0, audioFileLength_ms |-> 0, fractionLeft |-> FALSE,
   audio |-> 0, voices |-> {}, endless |-> 0, groupEnd |-> NoEnd]

-----------------------------------------------------------------------------
(***************************************************************************)
(* The methods.                                                            *)
(***************************************************************************)

\* Fault: the fraction is not reset.
bLoadStimuli_KeepsFraction(s, d) ==
  LET t == [s EXCEPT !.uiDesiredDuration_ms = d.stimulusDuration]
  IN  IF d.stimulus_nr \in Stimuli
      THEN [t EXCEPT !.audio = d.stimulus_nr,
                     !.audioFileLength_ms = FileLength[d.stimulus_nr]]
      ELSE t

\* The fraction is reset whatever the number is; an unknown number leaves
\* the audio file loaded before in place.
bLoadStimuli(s, d) ==
  LET t == [s EXCEPT !.uiDesiredDuration_ms = d.stimulusDuration,
                     !.fractionLeft = FALSE]
  IN  IF d.stimulus_nr \in Stimuli
      THEN [t EXCEPT !.audio = d.stimulus_nr,
                     !.audioFileLength_ms = FileLength[d.stimulus_nr]]
      ELSE t

\* The FMOD system is released, every channel with it, and made anew.
stopStimuli(s) ==
  [s EXCEPT !.voices = {}, !.endless = 0, !.groupEnd = NoEnd]

\* The channel that was loaded last starts to sound.
Unpause(s, time) ==
  [s EXCEPT !.voices = @ \cup {[nr |-> s.audio, left |-> time]}]

\* The rest of a duration that the file does not fill by being looped, as the
\* doubles give it, and whether there is enough of it to be played.
Rest(desired, length) ==
  (desired % length) - (IF <<desired, length>> \in RestFallsShort THEN 1 ELSE 0)

FractionIsLeft(desired, length) ==
  \/ FractionLimit * (desired % length) > length
  \/ <<desired, length>> \in LimitIsExceeded

\* Faults seeded to test the properties: one loop too many is counted, so that
\* the rest is what is missing (RoundsUp); the fraction is not reset when a
\* file is cut (KeepsFraction).
playStimuli_RoundsUp(s) ==
  LET length  == s.audioFileLength_ms
      desired == s.uiDesiredDuration_ms
      loops   == (desired \div length) + 1
  IN  IF 0 < length /\ length < desired
      THEN [Unpause(s, loops * length) EXCEPT
              !.fractionLeft = TRUE,
              !.uiDesiredDuration_ms = desired - loops * length]
      ELSE Unpause(s, length)

playStimuli_KeepsFraction(s) ==
  LET length  == s.audioFileLength_ms
      desired == s.uiDesiredDuration_ms
  IN  IF 0 < length /\ length < desired
      THEN [Unpause(s, desired - (desired % length)) EXCEPT
              !.fractionLeft = FractionIsLeft(desired, length),
              !.uiDesiredDuration_ms = Rest(desired, length)]
      ELSE [Unpause(s, length) EXCEPT !.groupEnd = desired]

\* A file shorter than asked is looped as often as it fits, and the rest is
\* remembered; a longer one is cut by giving the channel group an end.
playStimuli(s) ==
  LET length  == s.audioFileLength_ms
      desired == s.uiDesiredDuration_ms
  IN  CASE length = 0      -> stopStimuli(s)
        [] length > 0 /\ length < desired ->
             [Unpause(s, desired - (desired % length)) EXCEPT
                !.fractionLeft = FractionIsLeft(desired, length),
                !.uiDesiredDuration_ms = Rest(desired, length)]
        [] length > desired ->
             [Unpause(s, length) EXCEPT
                !.groupEnd = desired, !.fractionLeft = FALSE]
        [] length > 0 /\ length = desired -> Unpause(s, length)

bGetIsThereAFractionLeftToPlay(s) == s.fractionLeft

bCurrentlyAHijackedProtcolIsProcessed(s) ==
  s.hostDataOfHijackedProtocol # NoData

\* The entry at the front of the queue is loaded only to look at it.
Peek(s) ==
  IF s.stimuli_queue = << >> THEN s
  ELSE bLoadStimuli(s, Head(s.stimuli_queue))

Pop(s) == [s EXCEPT !.stimuli_queue = Tail(@)]

\* Fault: the front of the queue is asked before the stimulus in progress.
HijackData_FrontFirst(s) ==
  IF s.stimuli_queue # << >> THEN Head(s.stimuli_queue)
  ELSE s.hostDataOfHijackedProtocol

\* The data whose duration asks for a hijacked stimulus: the one in progress,
\* or the one at the front of the queue.
HijackData(s) ==
  IF bCurrentlyAHijackedProtcolIsProcessed(s)
  THEN s.hostDataOfHijackedProtocol
  ELSE IF s.stimuli_queue = << >> THEN NoData ELSE Head(s.stimuli_queue)

\* Fault: every stimulus hijacks the protocol.
bIsStimulusToPlayAsLongAsMovementsPending_Any(s) == HijackData(s) # NoData

bIsStimulusToPlayAsLongAsMovementsPending(s) ==
  /\ HijackData(s) # NoData
  /\ HijackData(s).stimulusDuration = PLAY_STIMULUS_AS_LONG_AS_MOVEMENT_PENDING

\* Takes the hijacking stimulus off the queue unless one is in progress, and
\* loads it.
LoadHijacked(s) ==
  LET d == HijackData(s)
      t == IF bCurrentlyAHijackedProtcolIsProcessed(s) THEN s
           ELSE [Pop(s) EXCEPT !.hostDataOfHijackedProtocol = d]
  IN  bLoadStimuli(t, d)

\* Fault: toBeTriggerd is not taken back.
StartEndless_Again(s) ==
  IF s.hostDataOfHijackedProtocol.toBeTriggerd
  THEN [s EXCEPT !.endless = @ + 1]
  ELSE s

\* Starts the endless loop if it has not been started yet.
StartEndless(s) ==
  IF s.hostDataOfHijackedProtocol.toBeTriggerd
  THEN [s EXCEPT !.endless = @ + 1,
                 !.hostDataOfHijackedProtocol.toBeTriggerd = FALSE]
  ELSE s

vSetHijackedProtocolIsCompletelyProcessed(s) ==
  [s EXCEPT !.hostDataOfHijackedProtocol = NoData]

vPlayStimulusIfToBeTriggered(s) ==
  LET d == Head(s.stimuli_queue)
      t == bLoadStimuli(Pop(s), d)
  IN  IF ~ d.toBeTriggerd THEN Pop(s)
      ELSE IF d.stimulus_nr \in Stimuli THEN playStimuli(t) ELSE t

-----------------------------------------------------------------------------
(***************************************************************************)
(* The calls of the timer loop.  movementsPending is the condition the     *)
(* hijacking looks at: an entry in the movement queue, or a motor that has *)
(* not reached its target.  If there is neither, it asks the controller a  *)
(* second time, and reachedTarget is that answer: the two differ when a    *)
(* call fails.                                                             *)
(***************************************************************************)

QueueStimulus(d) ==
  lib' = [lib EXCEPT !.stimuli_queue =
            IF d.stim_queued THEN Append(@, d) ELSE <<d>>]

HijackGoesOn(movementsPending) ==
  /\ bIsStimulusToPlayAsLongAsMovementsPending(lib)
  /\ movementsPending
  /\ lib' = StartEndless(LoadHijacked(lib))

\* Fault: the hijack is taken back, the sound is not stopped.
HijackEnds_SoundGoesOn(movementsPending, reachedTarget) ==
  /\ bIsStimulusToPlayAsLongAsMovementsPending(lib)
  /\ ~ movementsPending /\ reachedTarget
  /\ lib' = vSetHijackedProtocolIsCompletelyProcessed(LoadHijacked(lib))

HijackEnds(movementsPending, reachedTarget) ==
  /\ bIsStimulusToPlayAsLongAsMovementsPending(lib)
  /\ ~ movementsPending /\ reachedTarget
  /\ lib' = stopStimuli(vSetHijackedProtocolIsCompletelyProcessed(LoadHijacked(lib)))

\* The stimulus is neither started nor ended; it is in progress all the same.
HijackStays(movementsPending, reachedTarget) ==
  /\ bIsStimulusToPlayAsLongAsMovementsPending(lib)
  /\ ~ movementsPending /\ ~ reachedTarget
  /\ lib' = LoadHijacked(lib)

PlayRest ==
  /\ ~ bIsStimulusToPlayAsLongAsMovementsPending(lib)
  /\ bGetIsThereAFractionLeftToPlay(Peek(lib))
  /\ lib' = playStimuli(Peek(lib))

PlayNext ==
  /\ ~ bIsStimulusToPlayAsLongAsMovementsPending(lib)
  /\ ~ bGetIsThereAFractionLeftToPlay(Peek(lib))
  /\ lib.stimuli_queue # << >>
  /\ lib' = vPlayStimulusIfToBeTriggered(Peek(lib))

NothingToPlay ==
  /\ ~ bIsStimulusToPlayAsLongAsMovementsPending(lib)
  /\ ~ bGetIsThereAFractionLeftToPlay(Peek(lib))
  /\ lib.stimuli_queue = << >>
  /\ lib' = Peek(lib)

\* The stimuli processing of one round of the timer loop.
StimuliStep(movementsPending, reachedTarget) ==
  \/ HijackGoesOn(movementsPending)
  \/ HijackEnds(movementsPending, reachedTarget)
  \/ HijackStays(movementsPending, reachedTarget)
  \/ PlayRest
  \/ PlayNext
  \/ NothingToPlay

(***************************************************************************)
(* FMOD: one unit of time passes for what is sounding.  When the end that  *)
(* was set for the channel group comes, every channel of the group stops.  *)
(***************************************************************************)
AudioAdvance ==
  /\ lib.voices # {} \/ lib.groupEnd # NoEnd
  /\ lib' = IF lib.groupEnd \in {0, 1}
            THEN stopStimuli(lib)
            ELSE [lib EXCEPT
                    !.voices = {[v EXCEPT !.left = @ - 1] : v \in {w \in @ : w.left > 1}},
                    !.groupEnd = IF @ = NoEnd THEN NoEnd ELSE @ - 1]

-----------------------------------------------------------------------------
(***************************************************************************)
(* The player on its own: the host queues what it likes, and movements     *)
(* come and go as they like, between the two questions too.                *)
(***************************************************************************)
StimuliInit == lib = NewStimuliLibrary

StimuliNext ==
  \/ \E d \in HostData : QueueStimulus(d)
  \/ \E movementsPending, reachedTarget \in BOOLEAN :
       StimuliStep(movementsPending, reachedTarget)
  \/ AudioAdvance

StimuliSpec == StimuliInit /\ [][StimuliNext]_lib

-----------------------------------------------------------------------------
(***************************************************************************)
(* Properties.                                                             *)
(***************************************************************************)

\* The player's fields have their types; the rest to play is never negative
\* (the unsigned arithmetic of playStimuli).
StimuliTypeOK == lib \in StimuliLibraryObject

\* A channel loops for ever only while there is a hijacked stimulus: nothing
\* else would ever stop it (bAdaptStimulusParametersDueToHijacking).
EndlessOnlyWhileHijacked ==
  lib.endless > 0 => bCurrentlyAHijackedProtcolIsProcessed(lib)

\* The stimulus in progress is one that asks to last as long as the movements
\* and has an audio file, so bIsStimulusToPlayAsLongAsMovementsPending never
\* reaches its end without a return value.
HijackIsForMovements ==
  bCurrentlyAHijackedProtcolIsProcessed(lib) =>
    LET d == lib.hostDataOfHijackedProtocol
    IN  /\ d.stimulusDuration = PLAY_STIMULUS_AS_LONG_AS_MOVEMENT_PENDING
        /\ d.stimulus_nr \in Stimuli

\* A hijacked stimulus is started at most once, although it is loaded and its
\* toBeTriggerd looked at in every round of the timer loop: one that sounds does
\* not ask to be started, nor is there ever a second channel.
StartedOnce ==
  /\ lib.endless <= 1
  /\ (/\ bCurrentlyAHijackedProtcolIsProcessed(lib)
      /\ lib.hostDataOfHijackedProtocol.toBeTriggerd)
     => lib.endless = 0

\* When a rest is waiting to be played, the duration is that rest and not one a
\* message has asked for since, and the file loaded is one it is shorter than,
\* whatever the doubles have made of it.
RestShorterThanFile ==
  lib.fractionLeft =>
    /\ lib.audio \in Stimuli
    /\ lib.audioFileLength_ms = FileLength[lib.audio]
    /\ lib.uiDesiredDuration_ms < lib.audioFileLength_ms

\* The rest of a stimulus is played at most once.
RestPlayedOnce == [][PlayRest => ~ lib'.fractionLeft]_lib

\* While a hijacked stimulus lasts, a round of the timer loop neither takes an
\* entry off the stimuli queue nor starts a channel with an end.
HijackHoldsTheQueue ==
  [][ (/\ bCurrentlyAHijackedProtcolIsProcessed(lib)
       /\ \E p, r \in BOOLEAN : StimuliStep(p, r))
      => /\ lib'.stimuli_queue = lib.stimuli_queue
         /\ lib'.voices \subseteq lib.voices ]_lib

(***************************************************************************)
(* A promise of the comments that the code does not keep.                  *)
(***************************************************************************)

\* StimuliLibrary.h: a hijacked stimulus plays as long as there is something
\* in the queue.  Nothing but the end of the movements silences it.
EndlessLastsAsLongAsMovements ==
  [][ (lib.endless > 0 /\ lib'.endless = 0) => HijackEnds(FALSE, TRUE) ]_lib
=============================================================================
