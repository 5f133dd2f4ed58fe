---------------------------- MODULE LineChannel -----------------------------
(***************************************************************************)
(* What lircd and its client library promise the timer loop: every line    *)
(* that is written arrives once, in the order of writing.  Lines are       *)
(* numbered from 1.                                                        *)
(***************************************************************************)
EXTENDS Naturals, Sequences

VARIABLES
  written,   \* how many lines have been written
  next,      \* the number of the line that arrives next
  arrived    \* the lines that have arrived and were not looked at

channelVars == <<written, next, arrived>>

ChannelInit == written = 0 /\ next = 1 /\ arrived = << >>

Write ==
  /\ written' = written + 1
  /\ UNCHANGED <<next, arrived>>

Deliver ==
  /\ next <= written
  /\ arrived' = Append(arrived, next)
  /\ next' = next + 1
  /\ UNCHANGED written

LookAtAll ==
  /\ arrived' = << >>
  /\ UNCHANGED <<written, next>>

ChannelNext == Write \/ Deliver \/ LookAtAll

ChannelSpec == ChannelInit /\ [][ChannelNext]_channelVars
=============================================================================
