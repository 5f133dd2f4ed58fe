------------------------------ MODULE IrRemote ------------------------------
(***************************************************************************)
(* The infrared remote control: the lines lircd writes to its socket, the  *)
(* client library that puts them together again (lirc_client.c), ir_func,  *)
(* which pushes them into ir_queue, and the timer loop, which takes the    *)
(* last one of a round for the key that is pressed.                        *)
(*                                                                         *)
(* A line is known by its number; its bytes say which line they are of,    *)
(* where in it they are, and whether they are its newline.                 *)
(***************************************************************************)
EXTENDS Integers, Sequences, FiniteSets

CONSTANTS
  PACKET_SIZE,   \* what the buffer of the library grows by
  LineLengths,   \* of the lines of lircd, which are at most PACKET_SIZE long
  Keys,          \* that TimerFunc looks for
  NoKey,         \* no line in a round ("xx")
  UnknownKey,    \* a line with none of the names TimerFunc looks for
  MaxLines       \* bound: the lines lircd writes

ASSUME PacketAssumption == PACKET_SIZE \in Nat \ {0}
ASSUME LengthAssumption == LineLengths \subseteq 1 .. PACKET_SIZE
ASSUME RemoteKeyAssumption ==
  NoKey \notin Keys /\ UnknownKey \notin Keys /\ NoKey # UnknownKey
ASSUME LinesAssumption == MaxLines \in Nat

VARIABLES
  lines,         \* the lines lircd has written so far
  held,          \* the key is still held that wrote the last line
  socket,        \* the bytes between lircd and the library
  lircdUp,
  lirc_buffer, packet_size,   \* of the library; end_len is Len(lirc_buffer)
  code,          \* what lirc_nextcode returned
  irPc,          \* of ir_func
  ir_queue,      \* the numbers of the lines pushed
  cTaste, old_cTaste,
  acted,         \* history: the presses the program has acted upon
  exit_app,
  process        \* "running", or how it ended

lircdVars == <<lines, held, socket, lircdUp>>
clientVars == <<lirc_buffer, packet_size, code, irPc>>
keyVars == <<cTaste, old_cTaste, acted>>
mainVars == <<exit_app, process>>
irVars == <<lircdVars, clientVars, ir_queue, keyVars, mainVars>>

Byte == [line : Nat, at : Nat, newline : BOOLEAN]
Line == [key : Keys \cup {UnknownKey}, press : Nat]
NULL == << >>

\* The line of a number and a length, byte by byte.
LineBytes(number, length) ==
  [i \in 1 .. length |-> [line |-> number, at |-> i, newline |-> i = length]]

IrInit ==
  /\ lines = << >> /\ held = FALSE /\ socket = << >>
  /\ lircdUp \in BOOLEAN
  /\ lirc_buffer = << >> /\ packet_size = PACKET_SIZE
  /\ code = NULL
  /\ irPc = "lirc_init"
  /\ ir_queue = << >>
  /\ cTaste = NoKey /\ old_cTaste = NoKey
  /\ acted = {}
  /\ exit_app = FALSE
  /\ process = "running"

-----------------------------------------------------------------------------
(***************************************************************************)
(* lircd: a line for every signal of the remote control, written as a      *)
(* whole; a key that is held sends its signal again and again.             *)
(***************************************************************************)
Signal(key, press) ==
  /\ process = "running"
  /\ lircdUp /\ irPc # "lirc_init" /\ Len(lines) < MaxLines
  /\ lines' = Append(lines, [key |-> key, press |-> press])
  /\ \E length \in LineLengths :
       socket' = socket \o LineBytes(Len(lines) + 1, length)
  /\ held' = TRUE
  /\ UNCHANGED <<lircdUp, clientVars, ir_queue, keyVars, mainVars>>

Press(key) ==
  ~ held /\ Signal(key, IF lines = << >> THEN 1 ELSE lines[Len(lines)].press + 1)

Hold ==
  held /\ Signal(lines[Len(lines)].key, lines[Len(lines)].press)

Release ==
  /\ process = "running"
  /\ held
  /\ held' = FALSE
  /\ UNCHANGED <<lines, socket, lircdUp, clientVars, ir_queue, keyVars, mainVars>>

LircdStops ==
  /\ process = "running"
  /\ lircdUp
  /\ lircdUp' = FALSE
  /\ held' = FALSE
  /\ UNCHANGED <<lines, socket, clientVars, ir_queue, keyVars, mainVars>>

-----------------------------------------------------------------------------
(***************************************************************************)
(* lirc_nextcode: strchr, read and memmove on the buffer of the library.   *)
(***************************************************************************)
HasLine(buffer) == \E i \in 1 .. Len(buffer) : buffer[i].newline

\* The position of the first newline.
LineEnd(buffer) ==
  CHOOSE i \in 1 .. Len(buffer) :
    /\ buffer[i].newline
    /\ \A j \in 1 .. i - 1 : ~ buffer[j].newline

\* Fault: everything that was read is taken for one line.
ReturnFrom_Everything(buffer) ==
  IF HasLine(buffer)
  THEN code' = buffer /\ lirc_buffer' = << >>
  ELSE code' = NULL /\ lirc_buffer' = buffer

\* The first line is copied, and what follows it moved to the start.  Without a
\* line nothing is returned, and the buffer is kept.
ReturnFrom(buffer) ==
  IF HasLine(buffer)
  THEN /\ code' = SubSeq(buffer, 1, LineEnd(buffer))
       /\ lirc_buffer' = SubSeq(buffer, LineEnd(buffer) + 1, Len(buffer))
  ELSE /\ code' = NULL
       /\ lirc_buffer' = buffer

\* Fault: the socket is read before the buffer is looked at.
NextCodeFromBuffer_ReadsFirst ==
  /\ irPc = "lirc_nextcode"
  /\ HasLine(lirc_buffer)
  /\ socket # << >>
  /\ ReturnFrom(lirc_buffer)
  /\ irPc' = "push"
  /\ UNCHANGED <<packet_size, lircdVars, ir_queue, keyVars, mainVars>>

NextCodeFromBuffer ==
  /\ irPc = "lirc_nextcode"
  /\ HasLine(lirc_buffer)
  /\ ReturnFrom(lirc_buffer)
  /\ irPc' = "push"
  /\ UNCHANGED <<packet_size, lircdVars, ir_queue, keyVars, mainVars>>

\* Fault: read is asked for a whole buffer, whatever is in it already.
NextCodeFromSocket_Overrun ==
  /\ irPc = "lirc_nextcode"
  /\ ~ HasLine(lirc_buffer)
  /\ socket # << >>
  /\ LET n == IF packet_size < Len(socket) THEN packet_size ELSE Len(socket)
     IN  /\ ReturnFrom(lirc_buffer \o SubSeq(socket, 1, n))
         /\ socket' = SubSeq(socket, n + 1, Len(socket))
  /\ irPc' = "push"
  /\ UNCHANGED <<packet_size, lines, held, lircdUp, ir_queue, keyVars, mainVars>>

\* Fault: what was read before is overwritten.
NextCodeFromSocket_Overwrites ==
  /\ irPc = "lirc_nextcode"
  /\ ~ HasLine(lirc_buffer)
  /\ socket # << >>
  /\ LET n == IF packet_size < Len(socket) THEN packet_size ELSE Len(socket)
     IN  /\ ReturnFrom(SubSeq(socket, 1, n))
         /\ socket' = SubSeq(socket, n + 1, Len(socket))
  /\ irPc' = "push"
  /\ UNCHANGED <<packet_size, lines, held, lircdUp, ir_queue, keyVars, mainVars>>

\* Fault: a buffer that is full does not grow, and only one byte is read then.
NextCodeFromSocket_ByteWise ==
  /\ irPc = "lirc_nextcode"
  /\ ~ HasLine(lirc_buffer)
  /\ socket # << >>
  /\ ReturnFrom(Append(lirc_buffer, Head(socket)))
  /\ socket' = Tail(socket)
  /\ irPc' = "push"
  /\ UNCHANGED <<packet_size, lines, held, lircdUp, ir_queue, keyVars, mainVars>>

\* The buffer grows when it is full without a line.  read gives what there is, as
\* far as there is room: on a stream socket of the same machine, with lines that
\* are written whole, it does not give less.
NextCodeFromSocket ==
  /\ irPc = "lirc_nextcode"
  /\ ~ HasLine(lirc_buffer)
  /\ socket # << >>
  /\ packet_size' = IF Len(lirc_buffer) >= packet_size
                    THEN packet_size + PACKET_SIZE ELSE packet_size
  /\ LET room == packet_size' - Len(lirc_buffer)
         n == IF room < Len(socket) THEN room ELSE Len(socket)
     IN  /\ ReturnFrom(lirc_buffer \o SubSeq(socket, 1, n))
         /\ socket' = SubSeq(socket, n + 1, Len(socket))
  /\ irPc' = "push"
  /\ UNCHANGED <<lines, held, lircdUp, ir_queue, keyVars, mainVars>>

\* lircd has gone and everything has been read: -1, and no code.
NextCodeFails ==
  /\ irPc = "lirc_nextcode"
  /\ ~ HasLine(lirc_buffer)
  /\ socket = << >> /\ ~ lircdUp
  /\ code' = NULL
  /\ irPc' = "push"
  /\ UNCHANGED <<lirc_buffer, packet_size, lircdVars, ir_queue, keyVars, mainVars>>

-----------------------------------------------------------------------------
(***************************************************************************)
(* ir_func.                                                                *)
(***************************************************************************)

\* The condition of its loop.  In the middle of lirc_nextcode it is not looked at.
WhileNotExit == IF exit_app THEN "done" ELSE "lirc_nextcode"

lirc_init ==
  /\ irPc = "lirc_init"
  /\ IF lircdUp THEN irPc' = WhileNotExit /\ UNCHANGED process
                ELSE process' = "exited" /\ UNCHANGED irPc
  /\ UNCHANGED <<lirc_buffer, packet_size, code, lircdVars, ir_queue, keyVars, exit_app>>

\* The result of lirc_nextcode is not looked at; a string cannot be made of
\* NULL, and the exception is caught by nobody.
PushCode ==
  /\ irPc = "push"
  /\ IF code = NULL
     THEN process' = "aborted" /\ UNCHANGED <<ir_queue, irPc, code>>
     ELSE /\ ir_queue' = Append(ir_queue, code[1].line)
          /\ code' = NULL
          /\ irPc' = WhileNotExit
          /\ UNCHANGED process
  /\ UNCHANGED <<lirc_buffer, packet_size, lircdVars, keyVars, exit_app>>

IrThread ==
  /\ process = "running"
  /\ \/ lirc_init
     \/ NextCodeFromBuffer \/ NextCodeFromSocket \/ NextCodeFails
     \/ PushCode

-----------------------------------------------------------------------------
(***************************************************************************)
(* A round of the timer loop, as far as the remote control goes, and its   *)
(* end.                                                                    *)
(***************************************************************************)
LastLine == lines[ir_queue[Len(ir_queue)]]

\* Fault: a line with an unknown name counts as a key.
Round_AnyLineIsAKey ==
  /\ process = "running" /\ ~ exit_app
  /\ cTaste' = IF ir_queue = << >> THEN NoKey ELSE LastLine.key
  /\ ir_queue' = << >>
  /\ old_cTaste' = cTaste'
  /\ acted' = IF cTaste' # old_cTaste /\ cTaste' # NoKey
              THEN acted \cup {LastLine.press} ELSE acted
  /\ UNCHANGED <<lircdVars, clientVars, mainVars>>

\* A line with an unknown name leaves the key of the round before in place; a
\* key acts when it differs from the one before.
Round ==
  /\ process = "running" /\ ~ exit_app
  /\ cTaste' = CASE ir_queue = << >> -> NoKey
                 [] ir_queue # << >> /\ LastLine.key = UnknownKey -> cTaste
                 [] ir_queue # << >> /\ LastLine.key # UnknownKey -> LastLine.key
  /\ ir_queue' = << >>
  /\ old_cTaste' = cTaste'
  /\ acted' = IF cTaste' # old_cTaste /\ cTaste' # NoKey
              THEN acted \cup {LastLine.press} ELSE acted
  /\ UNCHANGED <<lircdVars, clientVars, mainVars>>

\* signal_handler, which may run in the middle of everything.
Sigterm ==
  /\ process = "running"
  /\ exit_app' = TRUE
  /\ UNCHANGED <<lircdVars, clientVars, ir_queue, keyVars, process>>

\* main does not wait for ir_func.
MainReturns ==
  /\ process = "running" /\ exit_app
  /\ process' = "terminated"
  /\ UNCHANGED <<lircdVars, clientVars, ir_queue, keyVars, exit_app>>

IrNext ==
  \/ \E key \in Keys \cup {UnknownKey} : Press(key)
  \/ Hold \/ Release \/ LircdStops
  \/ IrThread
  \/ Round \/ MainReturns
  \/ Sigterm

\* Neither thread is kept from its next step.
IrFairness == WF_irVars(IrThread) /\ WF_irVars(Round \/ MainReturns)

IrSpec == IrInit /\ [][IrNext]_irVars /\ IrFairness

-----------------------------------------------------------------------------
(***************************************************************************)
(* Properties.                                                             *)
(***************************************************************************)
IrTypeOK ==
  /\ lines \in Seq(Line)
  /\ held \in BOOLEAN
  /\ socket \in Seq(Byte)
  /\ lircdUp \in BOOLEAN
  /\ lirc_buffer \in Seq(Byte)
  /\ packet_size \in Nat
  /\ code \in Seq(Byte)
  /\ irPc \in {"lirc_init", "lirc_nextcode", "push", "done"}
  /\ ir_queue \in Seq(Nat)
  /\ cTaste \in Keys \cup {NoKey} /\ old_cTaste \in Keys \cup {NoKey}
  /\ acted \in SUBSET Nat
  /\ exit_app \in BOOLEAN
  /\ process \in {"running", "exited", "aborted", "terminated"}

\* The library never writes beyond its buffer.
BufferHoldsTheBytes == Len(lirc_buffer) + Len(code) <= packet_size

\* As lines are written whole and fit into a packet, lirc_nextcode comes back
\* without a code, which ends the process, only when lircd has gone.
NoCodeOnlyWithoutLircd == irPc = "push" /\ code = NULL => ~ lircdUp

\* Wherever the room in the buffer cuts them, no byte is lost, doubled or moved:
\* the code, the buffer and the socket hold one line after the other, each from
\* its first byte to its newline.
Stream == code \o lirc_buffer \o socket

StreamIsIntact ==
  /\ Stream # << >> => Stream[1].at = 1 /\ Stream[Len(Stream)].newline
  /\ \A i, j \in 1 .. Len(Stream) :
       i < j /\ (\A k \in i .. j - 1 : ~ Stream[k].newline) =>
         /\ Stream[j].line = Stream[i].line
         /\ Stream[j].at = Stream[i].at + (j - i)
  /\ \A i \in 1 .. Len(Stream) - 1 :
       Stream[i].newline =>
         /\ Stream[i + 1].line = Stream[i].line + 1
         /\ Stream[i + 1].at = 1

\* What lirc_nextcode returns is one line and nothing of another.
CodeIsALine ==
  code # NULL =>
    \A i \in 1 .. Len(code) :
      /\ code[i].line = code[1].line
      /\ code[i].at = i
      /\ code[i].newline <=> i = Len(code)

\* Every line lircd has written is pushed into ir_queue once, in the order of
\* writing, wherever the room in the buffer cuts them and however many come with
\* one read: the promises of LineChannel, with the line at the front of the stream
\* as the next.
Channel == INSTANCE LineChannel
  WITH written <- Len(lines),
       next <- IF Stream = << >> THEN Len(lines) + 1 ELSE Stream[1].line,
       arrived <- ir_queue

LinesArriveInOrder == Channel!ChannelSpec

\* Everything lircd has written comes to the timer loop, without another line
\* having to follow it, unless the program is told to end or ends by itself.
EveryLineArrives ==
  <>[](\/ socket = << >> /\ lirc_buffer = << >> /\ ir_queue = << >>
       \/ exit_app
       \/ process \in {"exited", "aborted"})

(***************************************************************************)
(* A promise of the comments that the code does not keep.                  *)
(***************************************************************************)

\* main.cpp, TimerFunc: "Entprellen", a key that is pressed acts once, however
\* long it is held and whenever its lines arrive.
PressActsOnce ==
  [][Round /\ ir_queue # << >> /\ LastLine.press \in acted
       => cTaste' = old_cTaste]_irVars
=============================================================================
