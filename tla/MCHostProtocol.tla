--------------------------- MODULE MCHostProtocol ---------------------------
(***************************************************************************)
(* Decodes the texts of a set.  MCTexts is the small one that is checked:  *)
(* lengths around those at which fields are missing, at most one field     *)
(* without digits, and the numbers at and beyond the limits of             *)
(* bCheckForValidity.                                                      *)
(***************************************************************************)
EXTENDS HostProtocol

CONSTANT Texts

ASSUME TextsAssumption == Texts \subseteq RawMessage

VARIABLES
  raw,    \* the text
  data    \* what it is decoded to, once it has been

\* data before the text has been decoded
Undecoded == [undecoded |-> TRUE]

MCTexts ==
  [len : {0, 1, 16, 26, 27, 28, 56}, bad : {{}} \cup {{f} : f \in Fields},
   speaker : {-1, 0, 2, 3}, direction : {0, 1, 3}, speed : {1},
   speedDiv100 : {0}, angle : {-1, 0, 1, 361}, angleDiv100 : {0, 99},
   queuedMov : {0, 1}, stimulus : {-1, 0, 1, 3, 4}, duration : {0, 1, 991111},
   tbt : {0, 1}, queuedStim : {0}]

MCInit == raw \in Texts /\ data = Undecoded

Decode ==
  /\ data = Undecoded
  /\ data' = decodeHostData(raw)
  /\ UNCHANGED raw

MCNext == Decode

MCSpec == MCInit /\ [][MCNext]_<<raw, data>>

Decoded == data # Undecoded

\* WhollyOrNotAtAll, of every text decoded
MessageIsTakenWhole == Decoded => WhollyOrNotAtAll(raw, data)
=============================================================================
