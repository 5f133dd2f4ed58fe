---------------------------- MODULE HostProtocol ----------------------------
(***************************************************************************)
(* The host protocol of the orbiter (Toolbox.cpp): the fixed-position text *)
(* message in which the host asks for one movement and one stimulus, and   *)
(* decodeHostData, which turns the text into a HostData record.            *)
(*                                                                         *)
(* A received text is a record of what decoding can tell apart: its length *)
(* in characters, the fields in which std::stoi finds no digits, and the   *)
(* number each of the other fields holds.  The loudness is left out:       *)
(* nothing in the control depends on it.                                   *)
(***************************************************************************)
EXTENDS Integers

MAX_STIMULUS_NUMBER == 3
MAX_SPEAKER_NUMBER  == 2

\* The duration that asks for a stimulus lasting as long as the movements.
PLAY_STIMULUS_AS_LONG_AS_MOVEMENT_PENDING == 991111

\* The numbers of the stimuli bLoadStimuli has an audio file for.
Stimuli == 1 .. MAX_STIMULUS_NUMBER

\* The first character of every field, for speaker 0 (startIdx = 0).
FieldStart ==
  [speaker |-> 0,   direction |-> 2,  speed |-> 3,       speedDiv100 |-> 7,
   angle |-> 9,     angleDiv100 |-> 13, queuedMov |-> 15, stimulus |-> 16,
   duration |-> 18, volume |-> 24,    tbt |-> 26,        queuedStim |-> 27]

Fields == DOMAIN FieldStart

\* A text received from the host; speed and angle have two decimals.  stoi
\* takes a sign in every field of more than one character; the duration, which
\* the host counts up from 0, is left without one.
RawMessage ==
  [len : Nat, bad : SUBSET Fields, speaker : Int, direction : 0 .. 9,
   speed : Int, speedDiv100 : -9 .. 99, angle : Int, angleDiv100 : -9 .. 99,
   queuedMov : 0 .. 9, stimulus : Int, duration : Nat, tbt : 0 .. 9,
   queuedStim : 0 .. 9]

(***************************************************************************)
(* HostData.  Speed and angle are in hundredths.                           *)
(***************************************************************************)
HostDataFields ==
  [direction : 0 .. 9, speed : Int, angularDistance : Int,
   stimulus_nr : 0 .. MAX_STIMULUS_NUMBER, stimulusDuration : Nat,
   toBeTriggerd : BOOLEAN, mov_queued : BOOLEAN, stim_queued : BOOLEAN]

\* vSetHostDataToZero
ZeroHostData ==
  [direction |-> 0, speed |-> 0, angularDistance |-> 0,
   stimulus_nr |-> 0, stimulusDuration |-> 0,
   toBeTriggerd |-> FALSE, mov_queued |-> FALSE, stim_queued |-> FALSE]

\* What the rest of the program may rely on: a record that names no stimulus
\* is the zero record.
HostData == {d \in HostDataFields : d.stimulus_nr = 0 => d = ZeroHostData}

-----------------------------------------------------------------------------
\* substr throws std::out_of_range past the end of the text, and stoi throws
\* std::invalid_argument on the empty string and on a field without digits.
DecodeThrows(raw) ==
  \E f \in Fields : FieldStart[f] >= raw.len \/ f \in raw.bad

bCheckForValidity(raw) ==
  /\ raw.len >= 27
  /\ raw.speaker \in 0 .. MAX_SPEAKER_NUMBER
  /\ raw.stimulus \in Stimuli
  /\ ~ (raw.duration = 0 /\ raw.angle = 0)

DecodedFields(raw) ==
  [direction |-> raw.direction,
   speed |-> 100 * raw.speed + raw.speedDiv100,
   angularDistance |-> 100 * raw.angle + raw.angleDiv100,
   stimulus_nr |-> raw.stimulus,
   stimulusDuration |-> raw.duration,
   toBeTriggerd |-> raw.tbt # 0,
   mov_queued |-> raw.queuedMov = 0,
   stim_queued |-> raw.queuedStim = 0]

\* Fault: what was decoded before an exception is kept.
decodeHostData_Partly(raw) ==
  IF DecodeThrows(raw)
  THEN [ZeroHostData EXCEPT !.direction = raw.direction,
                            !.speed = 100 * raw.speed + raw.speedDiv100]
  ELSE IF ~ bCheckForValidity(raw) THEN ZeroHostData ELSE DecodedFields(raw)

decodeHostData(raw) ==
  IF DecodeThrows(raw) \/ ~ bCheckForValidity(raw)
  THEN ZeroHostData
  ELSE DecodedFields(raw)

-----------------------------------------------------------------------------
(***************************************************************************)
(* Properties, of a text and the data it is decoded to.                    *)
(***************************************************************************)

\* Either every field of the text was there and had digits, and the data is
\* all of it, or the data is zero: no text is taken in part, although the
\* fields are read one after the other and any of them may throw.
WhollyOrNotAtAll(raw, data) ==
  /\ data \in HostData
  /\ data # ZeroHostData =>
       /\ raw.len >= 28 /\ raw.bad = {}
       /\ data = DecodedFields(raw)
=============================================================================
