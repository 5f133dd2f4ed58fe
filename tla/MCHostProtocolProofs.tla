------------------------ MODULE MCHostProtocolProofs ------------------------
(***************************************************************************)
(* The runs of decodeHostData, for any set of texts.                       *)
(***************************************************************************)
EXTENDS MCHostProtocol, HostProtocolProofs

\* The inductive invariant: the text stays, and the data is that of the text as
\* soon as there is any.
DecodingInv ==
  raw \in RawMessage /\ (Decoded => data = decodeHostData(raw))

\* Decoding is done once.
LEMMA DecodingInvariant == MCSpec => []DecodingInv
<1>1. MCInit => DecodingInv
  BY TextsAssumption DEF MCInit, DecodingInv, Decoded
<1>2. DecodingInv /\ [MCNext]_<<raw, data>> => DecodingInv'
  BY DEF MCNext, Decode, DecodingInv, Decoded
<1> QED
  BY <1>1, <1>2, PTL DEF MCSpec

\* Whatever text is decoded, the data is all of it or zero: a field that is
\* missing or has no digits leaves nothing of the fields read before it.
THEOREM TakenWhole == MCSpec => []MessageIsTakenWhole
<1>1. DecodingInv => MessageIsTakenWhole
  BY MessageTakenWhole DEF DecodingInv, MessageIsTakenWhole
<1> QED
  BY <1>1, DecodingInvariant, PTL
=============================================================================
