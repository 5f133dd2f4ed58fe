------------------------- MODULE HostProtocolProofs -------------------------
(***************************************************************************)
(* What decodeHostData promises, for every text.                           *)
(***************************************************************************)
EXTENDS HostProtocol, TLAPS

\* The zero record is data of the host.
LEMMA ZeroHostDataType == ZeroHostData \in HostData
  BY DEF ZeroHostData, HostData, HostDataFields, MAX_STIMULUS_NUMBER

\* The fields of an accepted text make data that names a stimulus with an
\* audio file.
LEMMA DecodedFieldsType ==
  ASSUME NEW raw \in RawMessage, bCheckForValidity(raw)
  PROVE  /\ DecodedFields(raw) \in HostData
         /\ DecodedFields(raw).stimulus_nr \in Stimuli
<1>1. DecodedFields(raw) \in HostDataFields
  BY DEF RawMessage, bCheckForValidity, DecodedFields, HostDataFields,
         Stimuli, MAX_STIMULUS_NUMBER
<1>2. DecodedFields(raw).stimulus_nr \in Stimuli
  BY DEF bCheckForValidity, DecodedFields
<1>3. DecodedFields(raw).stimulus_nr # 0
  BY <1>2 DEF Stimuli, MAX_STIMULUS_NUMBER
<1> QED
  BY <1>1, <1>2, <1>3 DEF HostData

\* decodeHostData returns data of the host, whatever the text: in particular
\* it names a stimulus that has an audio file, or is zero.
THEOREM DecodeType ==
  ASSUME NEW raw \in RawMessage
  PROVE  decodeHostData(raw) \in HostData
<1>1. CASE DecodeThrows(raw) \/ ~ bCheckForValidity(raw)
  BY <1>1, ZeroHostDataType DEF decodeHostData
<1>2. CASE ~ DecodeThrows(raw) /\ bCheckForValidity(raw)
  BY <1>2, DecodedFieldsType DEF decodeHostData
<1> QED
  BY <1>1, <1>2

\* A text whose fields are all read has at least 28 characters and no field
\* without digits.
LEMMA ReadWholly ==
  ASSUME NEW raw \in RawMessage, ~ DecodeThrows(raw)
  PROVE  raw.len >= 28 /\ raw.bad = {}
<1>1. \A f \in Fields : FieldStart[f] < raw.len /\ f \notin raw.bad
  <2> SUFFICES ASSUME NEW f \in Fields
               PROVE  FieldStart[f] < raw.len /\ f \notin raw.bad
    OBVIOUS
  <2>1. ~ (FieldStart[f] >= raw.len \/ f \in raw.bad)
    BY DEF DecodeThrows
  <2>2. FieldStart[f] \in Int /\ raw.len \in Int
    BY DEF FieldStart, Fields, RawMessage
  <2> QED
    BY <2>1, <2>2
<1>2. "queuedStim" \in Fields /\ FieldStart["queuedStim"] = 27
  BY DEF Fields, FieldStart
<1>3. raw.len \in Nat /\ raw.bad \subseteq Fields
  BY DEF RawMessage
<1> QED
  BY <1>1, <1>2, <1>3

\* A text is taken wholly or not at all.
THEOREM MessageTakenWhole ==
  ASSUME NEW raw \in RawMessage
  PROVE  WhollyOrNotAtAll(raw, decodeHostData(raw))
<1>1. decodeHostData(raw) \in HostData
  BY DecodeType
<1>2. ASSUME decodeHostData(raw) # ZeroHostData
      PROVE  /\ raw.len >= 28 /\ raw.bad = {}
             /\ decodeHostData(raw) = DecodedFields(raw)
  BY <1>2, ReadWholly DEF decodeHostData
<1> QED
  BY <1>1, <1>2 DEF WhollyOrNotAtAll
=============================================================================
