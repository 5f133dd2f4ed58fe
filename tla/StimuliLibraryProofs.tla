------------------------ MODULE StimuliLibraryProofs ------------------------
(***************************************************************************)
(* The invariants of the stimulus player, for all audio files, all queues  *)
(* and all data of the host.                                               *)
(*                                                                         *)
(* The inductive invariant is stated of an object s, so that a lemma can   *)
(* say of every method that the object it returns satisfies it.            *)
(***************************************************************************)
EXTENDS StimuliLibrary, HostProtocolProofs, SequenceTheorems

\* The fields of playStimuli: the length is that of the audio file loaded, and
\* what is left of a stimulus is shorter than it.
PlayerOK(s) ==
  /\ s.audio = 0 => s.audioFileLength_ms = 0
  /\ s.audio # 0 => s.audioFileLength_ms = FileLength[s.audio]
  /\ s.fractionLeft => s.uiDesiredDuration_ms < s.audioFileLength_ms

\* The hijacked stimulus and its endless channel.
HijackOK(s) ==
  /\ s.endless > 0 => s.hostDataOfHijackedProtocol # NoData
  /\ s.endless <= 1
  /\ s.hostDataOfHijackedProtocol # NoData =>
       /\ s.hostDataOfHijackedProtocol.stimulusDuration
            = PLAY_STIMULUS_AS_LONG_AS_MOVEMENT_PENDING
       /\ s.hostDataOfHijackedProtocol.stimulus_nr \in Stimuli
       /\ s.endless = 1 => ~ s.hostDataOfHijackedProtocol.toBeTriggerd

\* The stimulus in progress does not ask to be started.  This is no invariant of
\* the player, since a round may take a stimulus and neither start nor end it,
\* but every other step preserves it.
StartedOK(s) ==
  s.hostDataOfHijackedProtocol # NoData =>
    ~ s.hostDataOfHijackedProtocol.toBeTriggerd

ObjectOK(s) == s \in StimuliLibraryObject /\ PlayerOK(s) /\ HijackOK(s)

StimuliInv == ObjectOK(lib)

-----------------------------------------------------------------------------
\* Data of the host has its fields in their types.
LEMMA HostDataType ==
  ASSUME NEW d \in HostData
  PROVE  /\ d \in HostDataFields
         /\ d.stimulusDuration \in Nat
         /\ d.stimulus_nr \in 0 .. 3
         /\ d.toBeTriggerd \in BOOLEAN /\ d.stim_queued \in BOOLEAN
         /\ d.stimulus_nr = 0 => d.stimulusDuration = 0
  BY DEF HostData, HostDataFields, ZeroHostData, MAX_STIMULUS_NUMBER

\* The object's fields have their types.
LEMMA ObjectFields ==
  ASSUME NEW s \in StimuliLibraryObject
  PROVE  /\ s.stimuli_queue \in Seq(HostData)
         /\ s.hostDataOfHijackedProtocol \in HostData \cup {NoData}
         /\ s.uiDesiredDuration_ms \in Nat
         /\ s.audioFileLength_ms \in Nat
         /\ s.fractionLeft \in BOOLEAN
         /\ s.audio \in Stimuli \cup {0}
         /\ s.voices \in SUBSET Voice
         /\ s.endless \in Nat
         /\ s.groupEnd \in Nat \cup {NoEnd}
  BY DEF StimuliLibraryObject

\* bLoadStimuli resets the rest and touches neither the queue nor what sounds.
LEMMA LoadOK ==
  ASSUME NEW s \in StimuliLibraryObject, PlayerOK(s), NEW d \in HostData
  PROVE  /\ bLoadStimuli(s, d) \in StimuliLibraryObject
         /\ PlayerOK(bLoadStimuli(s, d))
         /\ ~ bLoadStimuli(s, d).fractionLeft
         /\ bLoadStimuli(s, d).uiDesiredDuration_ms = d.stimulusDuration
         /\ bLoadStimuli(s, d).stimuli_queue = s.stimuli_queue
         /\ bLoadStimuli(s, d).hostDataOfHijackedProtocol = s.hostDataOfHijackedProtocol
         /\ bLoadStimuli(s, d).voices = s.voices
         /\ bLoadStimuli(s, d).endless = s.endless
<1> DEFINE t        == bLoadStimuli(s, d)
           duration == d.stimulusDuration
           nr       == d.stimulus_nr
           length   == FileLength[nr]
<1>1. duration \in Nat
  BY HostDataType
<1>2. CASE nr \in Stimuli
  <2>1. length \in Nat /\ nr # 0
    BY <1>2, FileLengthAssumption DEF Stimuli
  <2>2. t = [s EXCEPT !.uiDesiredDuration_ms = duration, !.fractionLeft = FALSE,
                      !.audio = nr, !.audioFileLength_ms = length]
    BY <1>2 DEF bLoadStimuli
  <2> HIDE DEF t, duration, nr, length
  <2>3. t \in StimuliLibraryObject
    BY <1>1, <1>2, <2>1, <2>2 DEF StimuliLibraryObject
  <2>4. /\ ~ t.fractionLeft /\ t.uiDesiredDuration_ms = duration
        /\ t.audio = nr /\ t.audioFileLength_ms = length
        /\ t.stimuli_queue = s.stimuli_queue
        /\ t.hostDataOfHijackedProtocol = s.hostDataOfHijackedProtocol
        /\ t.voices = s.voices /\ t.endless = s.endless
    BY <2>2 DEF StimuliLibraryObject
  <2>5. PlayerOK(t)
    BY <2>1, <2>4 DEF PlayerOK, length
  <2> QED
    BY <2>3, <2>4, <2>5 DEF t, duration
<1>3. CASE nr \notin Stimuli
  <2>1. t = [s EXCEPT !.uiDesiredDuration_ms = duration, !.fractionLeft = FALSE]
    BY <1>3 DEF bLoadStimuli
  <2> HIDE DEF t, duration, nr, length
  <2>2. t \in StimuliLibraryObject
    BY <1>1, <2>1 DEF StimuliLibraryObject
  <2>3. /\ ~ t.fractionLeft /\ t.uiDesiredDuration_ms = duration
        /\ t.audio = s.audio /\ t.audioFileLength_ms = s.audioFileLength_ms
        /\ t.stimuli_queue = s.stimuli_queue
        /\ t.hostDataOfHijackedProtocol = s.hostDataOfHijackedProtocol
        /\ t.voices = s.voices /\ t.endless = s.endless
    BY <2>1 DEF StimuliLibraryObject
  <2>4. PlayerOK(t)
    BY <2>3 DEF PlayerOK
  <2> QED
    BY <2>2, <2>3, <2>4 DEF t, duration
<1> QED
  BY <1>2, <1>3

\* stopStimuli leaves nothing sounding and the fields of playStimuli alone.
LEMMA StopOK ==
  ASSUME NEW s \in StimuliLibraryObject
  PROVE  /\ stopStimuli(s) \in StimuliLibraryObject
         /\ PlayerOK(s) => PlayerOK(stopStimuli(s))
         /\ stopStimuli(s).endless = 0
         /\ stopStimuli(s).voices = {}
         /\ stopStimuli(s).fractionLeft = s.fractionLeft
         /\ stopStimuli(s).stimuli_queue = s.stimuli_queue
         /\ stopStimuli(s).hostDataOfHijackedProtocol = s.hostDataOfHijackedProtocol
  BY DEF stopStimuli, PlayerOK, StimuliLibraryObject

\* A channel starts: a loaded audio file sounds for a time.
LEMMA UnpauseOK ==
  ASSUME NEW s \in StimuliLibraryObject, s.audio \in Stimuli, NEW time \in Nat
  PROVE  s.voices \cup {[nr |-> s.audio, left |-> time]} \in SUBSET Voice
  BY DEF StimuliLibraryObject, Voice

\* What a loaded audio file has in common with one that sounds.
LEMMA LoadedOK ==
  ASSUME NEW s \in StimuliLibraryObject, PlayerOK(s), s.audioFileLength_ms > 0
  PROVE  s.audio \in Stimuli
  BY ObjectFields DEF PlayerOK

\* The rest the doubles give is a natural number, and shorter than the file.
LEMMA RestOK ==
  ASSUME NEW desired \in Nat, NEW length \in Nat, length > 0
  PROVE  /\ desired % length \in 0 .. length - 1
         /\ desired - (desired % length) \in Nat
         /\ Rest(desired, length) \in 0 .. length - 1
         /\ FractionIsLeft(desired, length) \in BOOLEAN
<1> DEFINE exact == desired % length
<1>1. exact \in 0 .. length - 1 /\ desired - exact \in Nat
  OBVIOUS
<1>2. <<desired, length>> \in RestFallsShort => exact > 0
  BY RestFallsShortAssumption
<1> HIDE DEF exact
<1>3. (exact - (IF <<desired, length>> \in RestFallsShort THEN 1 ELSE 0))
        \in 0 .. length - 1
  BY <1>1, <1>2
<1>4. Rest(desired, length) \in 0 .. length - 1
  BY <1>3 DEF Rest, exact
<1> QED
  BY <1>1, <1>4 DEF FractionIsLeft, exact

\* The three cases of playStimuli, in which PlayerOK matters: a file shorter
\* than asked, whose rest is shorter than the file, ...
LEMMA PlayShorterOK ==
  ASSUME NEW s \in StimuliLibraryObject, PlayerOK(s),
         s.audioFileLength_ms > 0, s.audioFileLength_ms < s.uiDesiredDuration_ms
  PROVE  /\ playStimuli(s) \in StimuliLibraryObject
         /\ PlayerOK(playStimuli(s))
         /\ ~ s.fractionLeft
         /\ playStimuli(s).endless = s.endless
         /\ playStimuli(s).stimuli_queue = s.stimuli_queue
         /\ playStimuli(s).hostDataOfHijackedProtocol = s.hostDataOfHijackedProtocol
<1> DEFINE length  == s.audioFileLength_ms
           desired == s.uiDesiredDuration_ms
           looped  == desired - (desired % length)
           rest    == Rest(desired, length)
           left    == FractionIsLeft(desired, length)
           voices  == s.voices \cup {[nr |-> s.audio, left |-> looped]}
           t       == playStimuli(s)
<1>1. rest \in Nat /\ rest < length /\ looped \in Nat /\ left \in BOOLEAN
  <2>1. length \in Nat /\ desired \in Nat /\ length > 0
    BY ObjectFields
  <2> HIDE DEF length, desired
  <2> QED
    BY <2>1, RestOK
<1>2. s.audio \in Stimuli
  BY LoadedOK
<1>3. voices \in SUBSET Voice
  BY <1>1, <1>2, UnpauseOK
<1>4. t = [s EXCEPT !.voices = voices, !.fractionLeft = left,
                    !.uiDesiredDuration_ms = rest]
  BY ObjectFields DEF playStimuli, Unpause
<1> HIDE DEF looped, rest, left, voices, t
<1>5. t \in StimuliLibraryObject
  BY <1>1, <1>3, <1>4 DEF StimuliLibraryObject
<1>6. /\ t.uiDesiredDuration_ms = rest
      /\ t.audioFileLength_ms = length /\ t.audio = s.audio
      /\ t.endless = s.endless
      /\ t.stimuli_queue = s.stimuli_queue
      /\ t.hostDataOfHijackedProtocol = s.hostDataOfHijackedProtocol
  BY <1>4 DEF StimuliLibraryObject
<1>7. PlayerOK(t)
  BY <1>1, <1>2, <1>6 DEF PlayerOK, Stimuli
<1>8. ~ s.fractionLeft
  BY ObjectFields DEF PlayerOK
<1> QED
  BY <1>5, <1>6, <1>7, <1>8 DEF t

\* ... a longer one, which leaves no rest, ...
LEMMA PlayLongerOK ==
  ASSUME NEW s \in StimuliLibraryObject, PlayerOK(s),
         s.audioFileLength_ms > s.uiDesiredDuration_ms
  PROVE  /\ playStimuli(s) \in StimuliLibraryObject
         /\ PlayerOK(playStimuli(s))
         /\ ~ playStimuli(s).fractionLeft
         /\ playStimuli(s).endless = s.endless
         /\ playStimuli(s).stimuli_queue = s.stimuli_queue
         /\ playStimuli(s).hostDataOfHijackedProtocol = s.hostDataOfHijackedProtocol
<1> DEFINE length  == s.audioFileLength_ms
           desired == s.uiDesiredDuration_ms
           voices  == s.voices \cup {[nr |-> s.audio, left |-> length]}
           t       == playStimuli(s)
<1>1. length \in Nat /\ desired \in Nat /\ length > 0
  BY ObjectFields
<1>2. s.audio \in Stimuli
  BY <1>1, LoadedOK
<1>3. voices \in SUBSET Voice
  BY <1>1, <1>2, UnpauseOK
<1>4. t = [s EXCEPT !.voices = voices, !.groupEnd = desired,
                    !.fractionLeft = FALSE]
  BY <1>1 DEF playStimuli, Unpause
<1> HIDE DEF voices, t
<1>5. t \in StimuliLibraryObject
  BY <1>1, <1>3, <1>4 DEF StimuliLibraryObject
<1>6. /\ ~ t.fractionLeft
      /\ t.audio = s.audio /\ t.audioFileLength_ms = length
      /\ t.endless = s.endless
      /\ t.stimuli_queue = s.stimuli_queue
      /\ t.hostDataOfHijackedProtocol = s.hostDataOfHijackedProtocol
  BY <1>4 DEF StimuliLibraryObject
<1>7. PlayerOK(t)
  BY <1>2, <1>6 DEF PlayerOK, Stimuli
<1> QED
  BY <1>5, <1>6, <1>7 DEF t

\* ... and one that is exactly as long as asked.
LEMMA PlayEqualOK ==
  ASSUME NEW s \in StimuliLibraryObject, PlayerOK(s),
         s.audioFileLength_ms > 0, s.audioFileLength_ms = s.uiDesiredDuration_ms
  PROVE  /\ playStimuli(s) \in StimuliLibraryObject
         /\ PlayerOK(playStimuli(s))
         /\ ~ s.fractionLeft
         /\ playStimuli(s).endless = s.endless
         /\ playStimuli(s).stimuli_queue = s.stimuli_queue
         /\ playStimuli(s).hostDataOfHijackedProtocol = s.hostDataOfHijackedProtocol
<1> DEFINE length  == s.audioFileLength_ms
           voices  == s.voices \cup {[nr |-> s.audio, left |-> length]}
           t       == playStimuli(s)
<1>1. length \in Nat
  BY ObjectFields
<1>2. s.audio \in Stimuli
  BY LoadedOK
<1>3. voices \in SUBSET Voice
  BY <1>1, <1>2, UnpauseOK
<1>4. t = [s EXCEPT !.voices = voices]
  BY <1>1 DEF playStimuli, Unpause
<1> HIDE DEF voices, t
<1>5. t \in StimuliLibraryObject
  BY <1>3, <1>4 DEF StimuliLibraryObject
<1>6. /\ t.fractionLeft = s.fractionLeft /\ t.audio = s.audio
      /\ t.audioFileLength_ms = length
      /\ t.endless = s.endless
      /\ t.stimuli_queue = s.stimuli_queue
      /\ t.hostDataOfHijackedProtocol = s.hostDataOfHijackedProtocol
  BY <1>4 DEF StimuliLibraryObject
<1>7. ~ s.fractionLeft
  BY ObjectFields DEF PlayerOK
<1>8. PlayerOK(t)
  BY <1>2, <1>6, <1>7 DEF PlayerOK, Stimuli
<1> QED
  BY <1>5, <1>6, <1>7, <1>8 DEF t

\* playStimuli touches neither the queue nor the hijacked stimulus; it starts no
\* endless channel, and the rest it leaves is shorter than the file.  If it is
\* called for a rest, it leaves none.
LEMMA PlayOK ==
  ASSUME NEW s \in StimuliLibraryObject, PlayerOK(s)
  PROVE  /\ playStimuli(s) \in StimuliLibraryObject
         /\ PlayerOK(playStimuli(s))
         /\ s.fractionLeft => ~ playStimuli(s).fractionLeft
         /\ playStimuli(s).endless \in {0, s.endless}
         /\ playStimuli(s).stimuli_queue = s.stimuli_queue
         /\ playStimuli(s).hostDataOfHijackedProtocol = s.hostDataOfHijackedProtocol
<1> DEFINE length  == s.audioFileLength_ms
           desired == s.uiDesiredDuration_ms
<1>1. /\ length \in Nat /\ desired \in Nat
      /\ length = 0 => ~ s.fractionLeft
  BY ObjectFields DEF PlayerOK
<1>2. CASE length = 0
  <2>1. playStimuli(s) = stopStimuli(s)
    BY <1>1, <1>2 DEF playStimuli
  <2> QED
    BY <1>1, <1>2, <2>1, StopOK
<1>3. CASE length > 0 /\ length < desired
  BY <1>3, PlayShorterOK
<1>4. CASE length > desired
  BY <1>4, PlayLongerOK
<1>5. CASE length > 0 /\ length = desired
  BY <1>5, PlayEqualOK
<1> QED
  BY <1>1, <1>2, <1>3, <1>4, <1>5

-----------------------------------------------------------------------------
\* The data at the front of the queue, and the object without it.
LEMMA PopOK ==
  ASSUME NEW s \in StimuliLibraryObject, s.stimuli_queue # << >>
  PROVE  /\ Head(s.stimuli_queue) \in HostData
         /\ Pop(s) \in StimuliLibraryObject
         /\ PlayerOK(s) => PlayerOK(Pop(s))
         /\ Pop(s).endless = s.endless
         /\ Pop(s).voices = s.voices
         /\ Pop(s).fractionLeft = s.fractionLeft
         /\ Pop(s).hostDataOfHijackedProtocol = s.hostDataOfHijackedProtocol
<1> DEFINE rest == Tail(s.stimuli_queue)
<1>1. Head(s.stimuli_queue) \in HostData /\ rest \in Seq(HostData)
  BY ObjectFields, HeadTailProperties
<1>2. Pop(s) = [s EXCEPT !.stimuli_queue = rest]
  BY DEF Pop
<1> HIDE DEF rest
<1>3. Pop(s) \in StimuliLibraryObject
  BY <1>1, <1>2 DEF StimuliLibraryObject
<1> QED
  BY <1>1, <1>2, <1>3 DEF StimuliLibraryObject, PlayerOK

\* Looking at the front of the queue resets the rest.
LEMMA PeekOK ==
  ASSUME NEW s \in StimuliLibraryObject, PlayerOK(s)
  PROVE  /\ Peek(s) \in StimuliLibraryObject
         /\ PlayerOK(Peek(s))
         /\ Peek(s).endless = s.endless
         /\ Peek(s).stimuli_queue = s.stimuli_queue
         /\ Peek(s).hostDataOfHijackedProtocol = s.hostDataOfHijackedProtocol
<1>1. CASE s.stimuli_queue = << >>
  BY <1>1 DEF Peek
<1>2. CASE s.stimuli_queue # << >>
  <2>1. Head(s.stimuli_queue) \in HostData
    BY <1>2, PopOK
  <2>2. Peek(s) = bLoadStimuli(s, Head(s.stimuli_queue))
    BY <1>2 DEF Peek
  <2> QED
    BY <2>1, <2>2, LoadOK
<1> QED
  BY <1>1, <1>2

\* The data that hijacks the protocol names an audio file.
LEMMA HijackDataOK ==
  ASSUME NEW s \in StimuliLibraryObject,
         bIsStimulusToPlayAsLongAsMovementsPending(s)
  PROVE  /\ HijackData(s) \in HostData
         /\ HijackData(s).stimulusDuration = PLAY_STIMULUS_AS_LONG_AS_MOVEMENT_PENDING
         /\ HijackData(s).stimulus_nr \in Stimuli
<1>1. HijackData(s) # NoData
      /\ HijackData(s).stimulusDuration = PLAY_STIMULUS_AS_LONG_AS_MOVEMENT_PENDING
  BY DEF bIsStimulusToPlayAsLongAsMovementsPending
<1>2. HijackData(s) \in HostData
  BY <1>1, ObjectFields, PopOK DEF HijackData, bCurrentlyAHijackedProtcolIsProcessed
<1>3. HijackData(s).stimulus_nr \in Stimuli
  BY <1>1, <1>2, HostDataType
     DEF Stimuli, MAX_STIMULUS_NUMBER, PLAY_STIMULUS_AS_LONG_AS_MOVEMENT_PENDING
<1> QED
  BY <1>1, <1>2, <1>3

\* The hijacking stimulus is taken off the queue, or is the one in progress.
LEMMA LoadHijackedOK ==
  ASSUME NEW s \in StimuliLibraryObject, PlayerOK(s), HijackOK(s),
         bIsStimulusToPlayAsLongAsMovementsPending(s)
  PROVE  /\ LoadHijacked(s) \in StimuliLibraryObject
         /\ PlayerOK(LoadHijacked(s))
         /\ HijackOK(LoadHijacked(s))
         /\ LoadHijacked(s).hostDataOfHijackedProtocol = HijackData(s)
         /\ LoadHijacked(s).voices = s.voices
         /\ bCurrentlyAHijackedProtcolIsProcessed(s) =>
              /\ LoadHijacked(s).stimuli_queue = s.stimuli_queue
              /\ LoadHijacked(s).endless = s.endless
              /\ HijackData(s) = s.hostDataOfHijackedProtocol
<1> DEFINE d == HijackData(s)
           t == LoadHijacked(s)
<1>1. d \in HostData /\ d # NoData
  BY HijackDataOK, NoDataAssumption
<1>2. CASE bCurrentlyAHijackedProtcolIsProcessed(s)
  <2>1. d = s.hostDataOfHijackedProtocol
    BY <1>2 DEF HijackData
  <2>2. t = bLoadStimuli(s, d)
    BY <1>2 DEF LoadHijacked
  <2> HIDE DEF d, t
  <2>3. /\ t \in StimuliLibraryObject /\ PlayerOK(t)
        /\ t.hostDataOfHijackedProtocol = s.hostDataOfHijackedProtocol
        /\ t.endless = s.endless /\ t.voices = s.voices
        /\ t.stimuli_queue = s.stimuli_queue
    BY <1>1, <2>2, LoadOK
  <2>4. HijackOK(t)
    BY <2>3 DEF HijackOK
  <2> QED
    BY <2>1, <2>3, <2>4 DEF d, t
<1>3. CASE ~ bCurrentlyAHijackedProtcolIsProcessed(s)
  <2> DEFINE p == Pop(s)
             u == [p EXCEPT !.hostDataOfHijackedProtocol = d]
  <2>1. s.stimuli_queue # << >> /\ s.hostDataOfHijackedProtocol = NoData
    BY <1>1, <1>3 DEF HijackData, bCurrentlyAHijackedProtcolIsProcessed
  <2>2. /\ p \in StimuliLibraryObject /\ PlayerOK(p)
        /\ p.endless = s.endless /\ p.voices = s.voices
    BY <2>1, PopOK
  <2>3. s.endless = 0
    BY <2>1, ObjectFields DEF HijackOK
  <2>4. t = bLoadStimuli(u, d)
    BY <1>3 DEF LoadHijacked
  <2>5. d.stimulusDuration = PLAY_STIMULUS_AS_LONG_AS_MOVEMENT_PENDING
        /\ d.stimulus_nr \in Stimuli
    BY HijackDataOK
  <2> HIDE DEF d, t, p
  <2>6. u \in StimuliLibraryObject
    BY <1>1, <2>2 DEF StimuliLibraryObject
  <2>7. /\ u.hostDataOfHijackedProtocol = d
        /\ u.endless = p.endless /\ u.voices = p.voices
        /\ u.audio = p.audio /\ u.audioFileLength_ms = p.audioFileLength_ms
        /\ u.fractionLeft = p.fractionLeft
        /\ u.uiDesiredDuration_ms = p.uiDesiredDuration_ms
    BY <2>2 DEF StimuliLibraryObject
  <2>8. PlayerOK(u)
    BY <2>2, <2>7 DEF PlayerOK
  <2> HIDE DEF u
  <2>9. /\ t \in StimuliLibraryObject /\ PlayerOK(t)
        /\ t.hostDataOfHijackedProtocol = d
        /\ t.endless = 0 /\ t.voices = s.voices
    BY <1>1, <2>2, <2>3, <2>4, <2>6, <2>7, <2>8, LoadOK
  <2>10. HijackOK(t)
    BY <2>5, <2>9 DEF HijackOK
  <2> QED
    BY <1>3, <2>9, <2>10 DEF d, t
<1> QED
  BY <1>2, <1>3

\* The endless channel is started only if toBeTriggerd still asks for it.
LEMMA StartEndlessOK ==
  ASSUME NEW s \in StimuliLibraryObject, PlayerOK(s), HijackOK(s),
         s.hostDataOfHijackedProtocol # NoData
  PROVE  /\ ObjectOK(StartEndless(s)) /\ StartedOK(StartEndless(s))
         /\ StartEndless(s).hostDataOfHijackedProtocol # NoData
         /\ StartEndless(s).voices = s.voices
         /\ StartEndless(s).stimuli_queue = s.stimuli_queue
         /\ ~ s.hostDataOfHijackedProtocol.toBeTriggerd => StartEndless(s) = s
<1> DEFINE d == s.hostDataOfHijackedProtocol
           e == [d EXCEPT !.toBeTriggerd = FALSE]
           n == s.endless + 1
           t == StartEndless(s)
<1>1. CASE ~ d.toBeTriggerd
  BY <1>1 DEF StartEndless, ObjectOK, StartedOK
<1>2. CASE d.toBeTriggerd
  <2>1. d \in HostData
    BY ObjectFields
  <2>2. s.endless = 0 /\ n \in Nat /\ n = 1
    BY <1>2, ObjectFields DEF HijackOK
  <2>3. /\ d.stimulusDuration = PLAY_STIMULUS_AS_LONG_AS_MOVEMENT_PENDING
        /\ d.stimulus_nr \in Stimuli
    BY DEF HijackOK
  <2>4. t = [s EXCEPT !.endless = n, !.hostDataOfHijackedProtocol = e]
    BY <1>2 DEF StartEndless
  <2> HIDE DEF d, n, t
  <2>5. /\ e.stimulusDuration = d.stimulusDuration
        /\ e.stimulus_nr = d.stimulus_nr
        /\ e.toBeTriggerd = FALSE
        /\ e \in HostDataFields
    BY <2>1 DEF HostData, HostDataFields
  <2>a. e.stimulus_nr # 0 /\ ~ e.toBeTriggerd
    BY <2>3, <2>5 DEF Stimuli
  <2> HIDE DEF e
  <2>6. e \in HostData
    BY <2>5, <2>a DEF HostData
  <2>7. t \in StimuliLibraryObject
    BY <2>2, <2>4, <2>6 DEF StimuliLibraryObject
  <2>8. /\ t.hostDataOfHijackedProtocol = e /\ t.endless = n
        /\ t.audio = s.audio /\ t.audioFileLength_ms = s.audioFileLength_ms
        /\ t.fractionLeft = s.fractionLeft
        /\ t.uiDesiredDuration_ms = s.uiDesiredDuration_ms
        /\ t.voices = s.voices /\ t.stimuli_queue = s.stimuli_queue
    BY <2>4 DEF StimuliLibraryObject
  <2>9. PlayerOK(t)
    BY <2>8 DEF PlayerOK
  <2>b. /\ t.endless = 1 /\ t.hostDataOfHijackedProtocol # NoData
        /\ t.hostDataOfHijackedProtocol.stimulusDuration
             = PLAY_STIMULUS_AS_LONG_AS_MOVEMENT_PENDING
        /\ t.hostDataOfHijackedProtocol.stimulus_nr \in Stimuli
        /\ ~ t.hostDataOfHijackedProtocol.toBeTriggerd
    BY <2>2, <2>3, <2>5, <2>6, <2>8, <2>a, NoDataAssumption
  <2>10. HijackOK(t)
    BY <2>b DEF HijackOK
  <2>11. StartedOK(t)
    BY <2>b DEF StartedOK
  <2> QED
    BY <1>2, <2>6, <2>7, <2>8, <2>9, <2>10, <2>11, NoDataAssumption
       DEF ObjectOK, t, d
<1> QED
  BY <1>1, <1>2

-----------------------------------------------------------------------------
(***************************************************************************)
(* Every action preserves the invariant.                                   *)
(***************************************************************************)

\* The message's data is queued, or replaces the queue.
LEMMA QueueStimulusInv ==
  ASSUME StimuliInv, NEW d \in HostData, QueueStimulus(d)
  PROVE  StimuliInv' /\ (StartedOK(lib) => StartedOK(lib'))
<1> USE DEF StimuliInv, ObjectOK
<1> DEFINE q == IF d.stim_queued THEN Append(lib.stimuli_queue, d) ELSE <<d>>
<1>1. lib.stimuli_queue \in Seq(HostData)
  BY ObjectFields
<1>2. q \in Seq(HostData)
  BY <1>1
<1>3. lib' = [lib EXCEPT !.stimuli_queue = q]
  BY DEF QueueStimulus
<1> HIDE DEF q
<1>4. lib' \in StimuliLibraryObject
  BY <1>2, <1>3 DEF StimuliLibraryObject
<1> QED
  BY <1>3, <1>4 DEF StimuliLibraryObject, PlayerOK, HijackOK, StartedOK

\* A hijacked stimulus begins or goes on.
LEMMA HijackGoesOnInv ==
  ASSUME StimuliInv, NEW p \in BOOLEAN, HijackGoesOn(p)
  PROVE  /\ StimuliInv'
         /\ StartedOK(lib')
         /\ lib'.voices = lib.voices
         /\ lib'.hostDataOfHijackedProtocol # NoData
         /\ bCurrentlyAHijackedProtcolIsProcessed(lib) =>
              /\ lib'.stimuli_queue = lib.stimuli_queue
              /\ StartedOK(lib) => lib'.endless = lib.endless
<1> USE DEF StimuliInv, ObjectOK
<1> DEFINE t == LoadHijacked(lib)
<1>1. bIsStimulusToPlayAsLongAsMovementsPending(lib) /\ lib' = StartEndless(t)
  BY DEF HijackGoesOn
<1>2. /\ t \in StimuliLibraryObject /\ PlayerOK(t) /\ HijackOK(t)
      /\ t.hostDataOfHijackedProtocol # NoData
      /\ t.voices = lib.voices
      /\ bCurrentlyAHijackedProtcolIsProcessed(lib) =>
           /\ t.stimuli_queue = lib.stimuli_queue
           /\ t.endless = lib.endless
           /\ StartedOK(lib) => ~ t.hostDataOfHijackedProtocol.toBeTriggerd
  <2>1. StartedOK(lib) =>
          \/ ~ bCurrentlyAHijackedProtcolIsProcessed(lib)
          \/ ~ lib.hostDataOfHijackedProtocol.toBeTriggerd
    BY DEF StartedOK, bCurrentlyAHijackedProtcolIsProcessed
  <2> QED
    BY <1>1, <2>1, LoadHijackedOK, HijackDataOK, NoDataAssumption
<1> HIDE DEF t
<1>3. /\ ObjectOK(StartEndless(t)) /\ StartedOK(StartEndless(t))
      /\ StartEndless(t).hostDataOfHijackedProtocol # NoData
      /\ StartEndless(t).voices = t.voices
      /\ StartEndless(t).stimuli_queue = t.stimuli_queue
      /\ ~ t.hostDataOfHijackedProtocol.toBeTriggerd => StartEndless(t) = t
  BY <1>2, StartEndlessOK
<1> QED
  BY <1>1, <1>2, <1>3

\* A hijacked stimulus ends, and every sound with it.
LEMMA HijackEndsInv ==
  ASSUME StimuliInv, NEW p \in BOOLEAN, NEW r \in BOOLEAN, HijackEnds(p, r)
  PROVE  /\ StimuliInv'
         /\ lib'.endless = 0
         /\ lib'.voices = {}
         /\ lib'.hostDataOfHijackedProtocol = NoData
         /\ bCurrentlyAHijackedProtcolIsProcessed(lib) =>
              lib'.stimuli_queue = lib.stimuli_queue
<1> USE DEF StimuliInv, ObjectOK
<1> DEFINE t == LoadHijacked(lib)
           u == vSetHijackedProtocolIsCompletelyProcessed(t)
<1>1. bIsStimulusToPlayAsLongAsMovementsPending(lib) /\ lib' = stopStimuli(u)
  BY DEF HijackEnds
<1>2. /\ t \in StimuliLibraryObject /\ PlayerOK(t)
      /\ bCurrentlyAHijackedProtcolIsProcessed(lib) =>
           t.stimuli_queue = lib.stimuli_queue
  BY <1>1, LoadHijackedOK
<1> HIDE DEF t
<1>3. u = [t EXCEPT !.hostDataOfHijackedProtocol = NoData]
  BY DEF vSetHijackedProtocolIsCompletelyProcessed
<1> HIDE DEF u
<1>4. /\ u \in StimuliLibraryObject
      /\ u.hostDataOfHijackedProtocol = NoData
      /\ u.stimuli_queue = t.stimuli_queue
      /\ PlayerOK(u)
  BY <1>2, <1>3 DEF StimuliLibraryObject, PlayerOK
<1>5. /\ lib' \in StimuliLibraryObject /\ PlayerOK(lib')
      /\ lib'.endless = 0 /\ lib'.voices = {}
      /\ lib'.hostDataOfHijackedProtocol = NoData
      /\ lib'.stimuli_queue = u.stimuli_queue
  BY <1>1, <1>4, StopOK
<1>6. HijackOK(lib')
  BY <1>5 DEF HijackOK
<1> QED
  BY <1>2, <1>4, <1>5, <1>6

\* A round neither starts nor ends the hijacked stimulus.
LEMMA HijackStaysInv ==
  ASSUME StimuliInv, NEW p \in BOOLEAN, NEW r \in BOOLEAN, HijackStays(p, r)
  PROVE  /\ StimuliInv'
         /\ lib'.voices = lib.voices
         /\ bCurrentlyAHijackedProtcolIsProcessed(lib) =>
              lib'.stimuli_queue = lib.stimuli_queue
<1>1. bIsStimulusToPlayAsLongAsMovementsPending(lib) /\ lib' = LoadHijacked(lib)
  BY DEF HijackStays
<1> QED
  BY <1>1, LoadHijackedOK DEF StimuliInv, ObjectOK

\* No stimulus is in progress when the player turns to the others.
LEMMA NotHijacked ==
  ASSUME StimuliInv, ~ bIsStimulusToPlayAsLongAsMovementsPending(lib)
  PROVE  lib.hostDataOfHijackedProtocol = NoData /\ lib.endless = 0
<1>1. lib.hostDataOfHijackedProtocol = NoData
  BY DEF StimuliInv, ObjectOK, HijackOK, HijackData,
         bIsStimulusToPlayAsLongAsMovementsPending,
         bCurrentlyAHijackedProtcolIsProcessed
<1> QED
  BY <1>1, ObjectFields DEF StimuliInv, ObjectOK, HijackOK

\* What is left of a stimulus is played, and nothing of it is left then.
LEMMA PlayRestInv ==
  ASSUME StimuliInv, PlayRest
  PROVE  /\ StimuliInv' /\ ~ lib'.fractionLeft
         /\ lib'.endless = 0 /\ lib'.hostDataOfHijackedProtocol = NoData
<1> USE DEF StimuliInv, ObjectOK
<1> DEFINE t == Peek(lib)
<1>1. lib' = playStimuli(t) /\ t.fractionLeft
  BY DEF PlayRest, bGetIsThereAFractionLeftToPlay
<1>2. lib.hostDataOfHijackedProtocol = NoData /\ lib.endless = 0
  BY NotHijacked DEF PlayRest
<1>3. /\ t \in StimuliLibraryObject /\ PlayerOK(t)
      /\ t.endless = 0 /\ t.hostDataOfHijackedProtocol = NoData
  BY <1>2, PeekOK
<1> HIDE DEF t
<1>4. /\ lib' \in StimuliLibraryObject /\ PlayerOK(lib')
      /\ ~ lib'.fractionLeft
      /\ lib'.endless = 0 /\ lib'.hostDataOfHijackedProtocol = NoData
  BY <1>1, <1>3, PlayOK
<1>5. HijackOK(lib')
  BY <1>4 DEF HijackOK
<1> QED
  BY <1>4, <1>5

\* The stimulus at the front of the queue is played if it is to be.
LEMMA PlayNextInv ==
  ASSUME StimuliInv, PlayNext
  PROVE  /\ StimuliInv'
         /\ lib'.endless = 0 /\ lib'.hostDataOfHijackedProtocol = NoData
<1> USE DEF StimuliInv, ObjectOK
<1> DEFINE t == Peek(lib)
           d == Head(t.stimuli_queue)
           p == Pop(t)
           u == bLoadStimuli(p, d)
<1>1. lib' \in {p, u, playStimuli(u)}
  BY DEF PlayNext, vPlayStimulusIfToBeTriggered
<1>2. lib.hostDataOfHijackedProtocol = NoData /\ lib.endless = 0
  BY NotHijacked DEF PlayNext
<1>3. /\ t \in StimuliLibraryObject /\ PlayerOK(t)
      /\ t.endless = 0 /\ t.hostDataOfHijackedProtocol = NoData
      /\ t.stimuli_queue # << >>
  BY <1>2, PeekOK DEF PlayNext
<1> HIDE DEF t
<1>4. /\ d \in HostData
      /\ p \in StimuliLibraryObject /\ PlayerOK(p)
      /\ p.endless = 0 /\ p.hostDataOfHijackedProtocol = NoData
  BY <1>3, PopOK
<1> HIDE DEF d, p
<1>5. /\ u \in StimuliLibraryObject /\ PlayerOK(u)
      /\ u.endless = 0 /\ u.hostDataOfHijackedProtocol = NoData
  BY <1>4, LoadOK
<1> HIDE DEF u
<1>6. /\ playStimuli(u) \in StimuliLibraryObject /\ PlayerOK(playStimuli(u))
      /\ playStimuli(u).endless = 0
      /\ playStimuli(u).hostDataOfHijackedProtocol = NoData
  BY <1>5, PlayOK
<1>7. /\ lib' \in StimuliLibraryObject /\ PlayerOK(lib')
      /\ lib'.endless = 0 /\ lib'.hostDataOfHijackedProtocol = NoData
  BY <1>1, <1>4, <1>5, <1>6
<1>8. HijackOK(lib')
  BY <1>7 DEF HijackOK
<1> QED
  BY <1>7, <1>8

\* There is nothing to play.
LEMMA NothingToPlayInv ==
  ASSUME StimuliInv, NothingToPlay
  PROVE  StimuliInv' /\ lib' = lib
<1>1. lib' = lib
  BY DEF NothingToPlay, Peek
<1> QED
  BY <1>1 DEF StimuliInv

\* The stimuli processing of a round.
LEMMA StimuliStepInv ==
  ASSUME StimuliInv, NEW p \in BOOLEAN, NEW r \in BOOLEAN, StimuliStep(p, r)
  PROVE  StimuliInv'
<1>1. CASE HijackGoesOn(p)
  BY <1>1, HijackGoesOnInv
<1>2. CASE HijackEnds(p, r)
  BY <1>2, HijackEndsInv
<1>6. CASE HijackStays(p, r)
  BY <1>6, HijackStaysInv
<1>3. CASE PlayRest
  BY <1>3, PlayRestInv
<1>4. CASE PlayNext
  BY <1>4, PlayNextInv
<1>5. CASE NothingToPlay
  BY <1>5, NothingToPlayInv
<1> QED
  BY <1>1, <1>2, <1>3, <1>4, <1>5, <1>6 DEF StimuliStep

\* Time passes for what sounds.
LEMMA AudioAdvanceInv ==
  ASSUME StimuliInv, AudioAdvance
  PROVE  /\ StimuliInv'
         /\ lib'.hostDataOfHijackedProtocol = lib.hostDataOfHijackedProtocol
         /\ lib'.stimuli_queue = lib.stimuli_queue
         /\ lib'.endless \in {0, lib.endless}
<1> USE DEF StimuliInv, ObjectOK
<1>1. CASE lib.groupEnd \in {0, 1}
  <2>1. lib' = stopStimuli(lib)
    BY <1>1 DEF AudioAdvance
  <2>2. /\ lib' \in StimuliLibraryObject /\ PlayerOK(lib')
        /\ lib'.endless = 0
        /\ lib'.hostDataOfHijackedProtocol = lib.hostDataOfHijackedProtocol
        /\ lib'.stimuli_queue = lib.stimuli_queue
    BY <2>1, StopOK
  <2>3. HijackOK(lib')
    BY <2>2 DEF HijackOK
  <2> QED
    BY <2>2, <2>3
<1>2. CASE lib.groupEnd \notin {0, 1}
  <2> DEFINE vs == {[v EXCEPT !.left = @ - 1] : v \in {w \in lib.voices : w.left > 1}}
             g  == IF lib.groupEnd = NoEnd THEN NoEnd ELSE lib.groupEnd - 1
  <2>1. lib' = [lib EXCEPT !.voices = vs, !.groupEnd = g]
    BY <1>2 DEF AudioAdvance
  <2>2. vs \in SUBSET Voice
    <3> SUFFICES ASSUME NEW v \in lib.voices, v.left > 1
                 PROVE  [v EXCEPT !.left = @ - 1] \in Voice
      OBVIOUS
    <3>1. v \in Voice
      BY ObjectFields
    <3> QED
      BY <3>1 DEF Voice
  <2>3. g \in Nat \cup {NoEnd}
    BY <1>2, ObjectFields DEF NoEnd
  <2> HIDE DEF vs, g
  <2>4. lib' \in StimuliLibraryObject
    BY <2>1, <2>2, <2>3 DEF StimuliLibraryObject
  <2> QED
    BY <2>1, <2>4 DEF StimuliLibraryObject, PlayerOK, HijackOK, StartedOK
<1> QED
  BY <1>1, <1>2

\* The new player.
LEMMA NewLibraryOK == ObjectOK(NewStimuliLibrary)
<1>1. NewStimuliLibrary \in StimuliLibraryObject
  BY DEF NewStimuliLibrary, StimuliLibraryObject
<1>2. PlayerOK(NewStimuliLibrary) /\ HijackOK(NewStimuliLibrary)
  BY DEF NewStimuliLibrary, PlayerOK, HijackOK
<1> QED
  BY <1>1, <1>2 DEF ObjectOK

-----------------------------------------------------------------------------
(***************************************************************************)
(* The theorems.                                                           *)
(***************************************************************************)

\* A step of the player preserves the invariant.
LEMMA StimuliNextInv ==
  ASSUME StimuliInv, [StimuliNext]_lib
  PROVE  StimuliInv'
<1>1. CASE \E d \in HostData : QueueStimulus(d)
  BY <1>1, QueueStimulusInv
<1>2. CASE \E p, r \in BOOLEAN : StimuliStep(p, r)
  BY <1>2, StimuliStepInv
<1>3. CASE AudioAdvance
  BY <1>3, AudioAdvanceInv
<1>4. CASE UNCHANGED lib
  BY <1>4 DEF StimuliInv
<1> QED
  BY <1>1, <1>2, <1>3, <1>4 DEF StimuliNext

\* The invariant holds in every state of the player.
THEOREM StimuliInvariant == StimuliSpec => []StimuliInv
<1>1. StimuliInit => StimuliInv
  BY NewLibraryOK DEF StimuliInit, StimuliInv
<1>2. StimuliInv /\ [StimuliNext]_lib => StimuliInv'
  BY StimuliNextInv
<1> QED
  BY <1>1, <1>2, PTL DEF StimuliSpec

\* The invariant says what the properties of StimuliLibrary say of a state.
LEMMA InvImpliesProperties ==
  ASSUME StimuliInv
  PROVE  /\ StimuliTypeOK
         /\ EndlessOnlyWhileHijacked
         /\ HijackIsForMovements
         /\ StartedOnce
         /\ RestShorterThanFile
<1>1. lib \in StimuliLibraryObject /\ PlayerOK(lib) /\ HijackOK(lib)
  BY DEF StimuliInv, ObjectOK
<1>2. EndlessOnlyWhileHijacked /\ HijackIsForMovements /\ StartedOnce
  BY <1>1, ObjectFields
     DEF HijackOK, EndlessOnlyWhileHijacked, HijackIsForMovements,
         StartedOnce, bCurrentlyAHijackedProtcolIsProcessed
<1>3. RestShorterThanFile
  BY <1>1, ObjectFields DEF PlayerOK, RestShorterThanFile
<1> QED
  BY <1>1, <1>2, <1>3 DEF StimuliTypeOK

\* The fields of the player have their types, for every sequence of messages.
THEOREM StimuliTypeCorrect == StimuliSpec => []StimuliTypeOK
<1>1. StimuliInv => StimuliTypeOK
  BY InvImpliesProperties
<1> QED
  BY <1>1, StimuliInvariant, PTL

\* No channel loops for ever without a stimulus in progress to end it.
THEOREM EndlessIsHijacked == StimuliSpec => []EndlessOnlyWhileHijacked
<1>1. StimuliInv => EndlessOnlyWhileHijacked
  BY InvImpliesProperties
<1> QED
  BY <1>1, StimuliInvariant, PTL

\* The stimulus in progress has the reserved duration and an audio file, so
\* bIsStimulusToPlayAsLongAsMovementsPending always returns a value.
THEOREM HijackHasDuration == StimuliSpec => []HijackIsForMovements
<1>1. StimuliInv => HijackIsForMovements
  BY InvImpliesProperties
<1> QED
  BY <1>1, StimuliInvariant, PTL

\* A hijacked stimulus is started at most once.
THEOREM HijackStartedOnce == StimuliSpec => []StartedOnce
<1>1. StimuliInv => StartedOnce
  BY InvImpliesProperties
<1> QED
  BY <1>1, StimuliInvariant, PTL

\* A rest that waits to be played is shorter than the audio file loaded, for
\* all lengths and durations and however the doubles round (Rest).
THEOREM RestIsShort == StimuliSpec => []RestShorterThanFile
<1>1. StimuliInv => RestShorterThanFile
  BY InvImpliesProperties
<1> QED
  BY <1>1, StimuliInvariant, PTL

\* The rest of a stimulus is played at most once, whatever the lengths of the
\* audio files and the durations asked for.
THEOREM RestOnce == StimuliSpec => RestPlayedOnce
<1>1. StimuliInv /\ [StimuliNext]_lib => [PlayRest => ~ lib'.fractionLeft]_lib
  BY PlayRestInv
<1> QED
  BY <1>1, StimuliInvariant, PTL DEF StimuliSpec, RestPlayedOnce

\* While a stimulus is in progress, a round neither takes an entry off the
\* stimuli queue nor starts a channel with an end.
THEOREM QueueIsHeld == StimuliSpec => HijackHoldsTheQueue
<1>1. ASSUME StimuliInv, NEW p \in BOOLEAN, NEW r \in BOOLEAN, StimuliStep(p, r),
             bCurrentlyAHijackedProtcolIsProcessed(lib)
      PROVE  /\ lib'.stimuli_queue = lib.stimuli_queue
             /\ lib'.voices \subseteq lib.voices
  <2>1. bIsStimulusToPlayAsLongAsMovementsPending(lib)
    BY <1>1, NotHijacked DEF bCurrentlyAHijackedProtcolIsProcessed
  <2>2. CASE HijackGoesOn(p)
    BY <1>1, <2>2, HijackGoesOnInv
  <2>3. CASE HijackEnds(p, r)
    BY <1>1, <2>3, HijackEndsInv
  <2>4. CASE HijackStays(p, r)
    BY <1>1, <2>4, HijackStaysInv
  <2> QED
    BY <1>1, <2>1, <2>2, <2>3, <2>4 DEF StimuliStep, PlayRest, PlayNext, NothingToPlay
<1>2. StimuliInv /\ [StimuliNext]_lib =>
        [ (/\ bCurrentlyAHijackedProtcolIsProcessed(lib)
           /\ \E p, r \in BOOLEAN : StimuliStep(p, r))
          => /\ lib'.stimuli_queue = lib.stimuli_queue
             /\ lib'.voices \subseteq lib.voices ]_lib
  BY <1>1
<1> QED
  BY <1>2, StimuliInvariant, PTL DEF StimuliSpec, HijackHoldsTheQueue
=============================================================================
