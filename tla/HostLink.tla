------------------------------ MODULE HostLink ------------------------------
(***************************************************************************)
(* The connection to the host (TCPClient.cpp): one socket, which the main  *)
(* thread connects when the program starts and tcp_func reads, closes and  *)
(* connects again, at the same time and without a lock; and what becomes   *)
(* of the program when it is told to end, or when a thread throws.         *)
(*                                                                         *)
(* The host's messages are a stream of bytes: a message is MessageLength   *)
(* of them.  A byte is its position in the stream.                         *)
(***************************************************************************)
EXTENDS Integers, FiniteSets

CONSTANTS
  MessageLength,   \* 28
  BufferSize,      \* receive(100)
  MaxFd,           \* bound: the descriptors the process may open
  MaxDrops,        \* bound: how often the host drops the connection
  MaxMessages      \* bound: the messages the host sends

ASSUME LengthAssumption == MessageLength \in Nat \ {0} /\ BufferSize \in Nat \ {0, 1}
ASSUME BoundsAssumption ==
  MaxFd \in Nat \ {0} /\ MaxDrops \in Nat /\ MaxMessages \in Nat

VARIABLES
  sock,        \* the member of tcp: -1 or a descriptor
  server,      \* has the member of tcp the port of the host
  ip_addr,     \* is it set (it is NULL before)
  port,        \* is it set (it is 0 before)
  exit_app,
  registered,  \* has signal_handler been registered
  motorOpen,   \* closeDevice has not been called
  process,     \* "running", or how it ended
  pc,          \* of the two threads
  callPort,    \* the port a thread has called setup with
  recvFd,      \* the descriptor recv was called with
  text         \* the last text that was not empty

\* fds, unread: the sockets, and the bytes of the host a socket still holds.
\* races: how often both threads have found that there is no socket; a history
\* variable, which no action looks at and which counts to MaxFd.
VARIABLES fds, unread, hostUp, current, sent, drops, races

tcpVars == <<sock, server, recvFd, text>>
mainVars == <<ip_addr, port, exit_app, registered, motorOpen, process>>
hostVars == <<hostUp, current, sent, drops>>
socketVars == <<fds, unread, races>>
linkVars == <<tcpVars, mainVars, pc, callPort, socketVars, hostVars>>

Threads == {"main", "tcp_func"}
NoSock == -1
Fd == 1 .. MaxFd

\* dropped: connected, and the host has ended the connection.
FdStates == {"closed", "fresh", "connected", "dropped"}

\* The bytes from .. to - 1 of the stream.
Bytes == [from : Nat, to : Nat]
NoBytes == [from |-> 0, to |-> 0]

StateOf(fd) == IF fd = NoSock THEN "closed" ELSE fds[fd]

\* The points of the two threads; those of setup are the same.
SetupPoints == {"setup", "check", "socket", "address", "connect"}
MainPoints == SetupPoints \cup
  {"ip_addr", "port", "exit_app", "signal", "loop", "return"}
TcpPoints == SetupPoints \cup {"receive", "recv", "exit", "sock = -1", "done"}

Goto(thread, next) == pc' = [pc EXCEPT ![thread] = next]

-----------------------------------------------------------------------------
LinkInit ==
  /\ sock = NoSock /\ server = FALSE
  /\ ip_addr = FALSE /\ port = FALSE
  /\ exit_app = FALSE /\ registered = FALSE
  /\ motorOpen = TRUE
  /\ process = "running"
  /\ pc = [thread \in Threads |-> IF thread = "main" THEN "ip_addr" ELSE "receive"]
  /\ callPort = [thread \in Threads |-> FALSE]
  /\ recvFd = NoSock
  /\ text = NoBytes
  /\ fds = [fd \in Fd |-> "closed"]
  /\ unread = [fd \in Fd |-> NoBytes]
  /\ hostUp \in BOOLEAN
  /\ current = NoSock /\ sent = 0 /\ drops = 0 /\ races = 0

-----------------------------------------------------------------------------
(***************************************************************************)
(* setup, in the hands of either thread.                                   *)
(***************************************************************************)

\* The arguments of the call: a string cannot be made of NULL, and the
\* exception is caught by nobody.
CallSetup(thread) ==
  /\ pc[thread] = "setup"
  /\ IF ip_addr
     THEN /\ callPort' = [callPort EXCEPT ![thread] = port]
          /\ Goto(thread, "check")
          /\ UNCHANGED process
     ELSE process' = "aborted" /\ UNCHANGED <<callPort, pc>>
  /\ UNCHANGED <<tcpVars, ip_addr, port, exit_app, registered, motorOpen, socketVars, hostVars>>

\* Whether there is a socket is looked at before one is created, and the other
\* thread may do the same in between.
Race(thread) ==
  sock = NoSock /\ \E other \in Threads \ {thread} : pc[other] = "socket"

CheckSock(thread) ==
  /\ pc[thread] = "check"
  /\ races' = IF Race(thread) /\ races < MaxFd THEN races + 1 ELSE races
  /\ Goto(thread, IF sock = NoSock THEN "socket" ELSE "address")
  /\ UNCHANGED <<tcpVars, mainVars, callPort, fds, unread, hostVars>>

\* socket gives the lowest descriptor that is closed, or -1 if there is none.
SocketGives(fd) ==
  \/ /\ fd \in Fd /\ fds[fd] = "closed"
     /\ \A lower \in 1 .. fd - 1 : fds[lower] # "closed"
  \/ /\ fd = NoSock
     /\ \A any \in Fd : fds[any] # "closed"

\* Fault: the socket of before is closed first.
CreateSocket_ClosesOld(thread) ==
  /\ pc[thread] = "socket"
  /\ \E new \in Fd \cup {NoSock} :
       /\ SocketGives(new)
       /\ sock' = new
       /\ fds' = [fd \in Fd |-> CASE fd = new -> "fresh"
                                  [] fd = sock -> "closed"
                                  [] fd \notin {sock, new} -> fds[fd]]
  /\ Goto(thread, "address")
  /\ UNCHANGED <<server, recvFd, text, mainVars, callPort, unread, races, hostVars>>

CreateSocket(thread) ==
  /\ pc[thread] = "socket"
  /\ \E new \in Fd \cup {NoSock} :
       /\ SocketGives(new)
       /\ sock' = new
       /\ fds' = [fd \in Fd |-> IF fd = new THEN "fresh" ELSE fds[fd]]
  /\ Goto(thread, "address")
  /\ UNCHANGED <<server, recvFd, text, mainVars, callPort, unread, races, hostVars>>

\* main tries until setup succeeds; tcp_func goes on with the empty text whatever
\* the outcome.
SetupReturns(thread, success) ==
  /\ Goto(thread, CASE thread = "tcp_func" -> "receive"
                    [] thread = "main" /\ success -> "exit_app"
                    [] thread = "main" /\ ~ success -> "setup")
  /\ callPort' = [callPort EXCEPT ![thread] = FALSE]

\* The host was given by its name, and gethostbyname does not find it.
ResolveFails(thread) ==
  /\ pc[thread] = "address"
  /\ SetupReturns(thread, FALSE)
  /\ UNCHANGED <<tcpVars, mainVars, socketVars, hostVars>>

FillAddress(thread) ==
  /\ pc[thread] = "address"
  /\ server' = callPort[thread]
  /\ Goto(thread, "connect")
  /\ UNCHANGED <<sock, recvFd, text, mainVars, callPort, socketVars, hostVars>>

\* connect fails on a socket that is connected.
ConnectSucceeds == StateOf(sock) = "fresh" /\ server /\ hostUp

Connect(thread) ==
  /\ pc[thread] = "connect"
  /\ IF ConnectSucceeds
     THEN /\ fds' = [fds EXCEPT ![sock] = "connected"]
          /\ current' = sock
     ELSE UNCHANGED <<fds, current>>
  /\ SetupReturns(thread, ConnectSucceeds)
  /\ UNCHANGED <<tcpVars, mainVars, unread, races, hostUp, sent, drops>>

Setup(thread) ==
  \/ CallSetup(thread)
  \/ CheckSock(thread)
  \/ CreateSocket(thread)
  \/ ResolveFails(thread)
  \/ FillAddress(thread)
  \/ Connect(thread)

-----------------------------------------------------------------------------
(***************************************************************************)
(* tcp_func.                                                               *)
(***************************************************************************)

\* recv is called with the descriptor of this moment; it fails at once if that
\* is not connected.
Receive ==
  /\ pc["tcp_func"] = "receive"
  /\ IF exit_app
     THEN Goto("tcp_func", "done") /\ UNCHANGED recvFd
     ELSE IF StateOf(sock) \in {"connected", "dropped"}
     THEN Goto("tcp_func", "recv") /\ recvFd' = sock
     ELSE Goto("tcp_func", "exit") /\ UNCHANGED recvFd
  /\ UNCHANGED <<sock, server, text, mainVars, callPort, socketVars, hostVars>>

\* As many bytes as have arrived, or fewer, but at most BufferSize; the last one
\* of a full buffer is overwritten with the end of the string.
TextOf(bytes, n) ==
  [from |-> bytes.from, to |-> bytes.from + (IF n = BufferSize THEN n - 1 ELSE n)]

\* Fault: the bytes are looked at and left in the socket.
ReceiveBytes_Peek ==
  /\ pc["tcp_func"] = "recv"
  /\ \E n \in 1 .. BufferSize :
       /\ unread[recvFd].from + n <= unread[recvFd].to
       /\ text' = TextOf(unread[recvFd], n)
  /\ recvFd' = NoSock
  /\ Goto("tcp_func", "receive")
  /\ UNCHANGED <<sock, server, mainVars, callPort, socketVars, hostVars>>

ReceiveBytes ==
  /\ pc["tcp_func"] = "recv"
  /\ \E n \in 1 .. BufferSize :
       /\ unread[recvFd].from + n <= unread[recvFd].to
       /\ text' = TextOf(unread[recvFd], n)
       /\ unread' = [unread EXCEPT ![recvFd].from = @ + n]
  /\ recvFd' = NoSock
  /\ Goto("tcp_func", "receive")
  /\ UNCHANGED <<sock, server, mainVars, callPort, fds, races, hostVars>>

\* The connection has ended and everything has been read.
ReceiveEnd ==
  /\ pc["tcp_func"] = "recv"
  /\ fds[recvFd] = "dropped"
  /\ unread[recvFd].from = unread[recvFd].to
  /\ recvFd' = NoSock
  /\ Goto("tcp_func", "exit")
  /\ UNCHANGED <<sock, server, text, mainVars, callPort, socketVars, hostVars>>

\* Fault: the socket is forgotten but not closed.
CloseSock_Forgotten ==
  /\ pc["tcp_func"] = "exit"
  /\ Goto("tcp_func", "sock = -1")
  /\ UNCHANGED <<tcpVars, mainVars, callPort, socketVars, hostVars>>

\* TCPClient::exit: the descriptor of this moment is closed, and then forgotten.
CloseSock ==
  /\ pc["tcp_func"] = "exit"
  /\ fds' = [fd \in Fd |-> IF fd = sock THEN "closed" ELSE fds[fd]]
  /\ unread' = [fd \in Fd |-> IF fd = sock THEN NoBytes ELSE unread[fd]]
  /\ current' = IF current = sock THEN NoSock ELSE current
  /\ Goto("tcp_func", "sock = -1")
  /\ UNCHANGED <<tcpVars, mainVars, callPort, races, hostUp, sent, drops>>

\* Fault: the descriptor that was closed is kept.
ForgetSock_Kept ==
  /\ pc["tcp_func"] = "sock = -1"
  /\ Goto("tcp_func", "setup")
  /\ UNCHANGED <<tcpVars, mainVars, callPort, socketVars, hostVars>>

ForgetSock ==
  /\ pc["tcp_func"] = "sock = -1"
  /\ sock' = NoSock
  /\ Goto("tcp_func", "setup")
  /\ UNCHANGED <<server, recvFd, text, mainVars, callPort, socketVars, hostVars>>

TcpThread ==
  /\ process = "running"
  /\ \/ Receive \/ ReceiveBytes \/ ReceiveEnd
     \/ CloseSock \/ ForgetSock
     \/ Setup("tcp_func")

-----------------------------------------------------------------------------
(***************************************************************************)
(* main, from the creation of the threads on.                              *)
(***************************************************************************)
SetIpAddr ==
  /\ pc["main"] = "ip_addr"
  /\ ip_addr' = TRUE
  /\ Goto("main", "port")
  /\ UNCHANGED <<tcpVars, port, exit_app, registered, motorOpen, process, callPort, socketVars, hostVars>>

\* Fault: signal_handler is registered before the connection is set up.
SetPort_Registers ==
  /\ pc["main"] = "port"
  /\ port' = TRUE
  /\ registered' = TRUE
  /\ Goto("main", "setup")
  /\ UNCHANGED <<tcpVars, ip_addr, exit_app, motorOpen, process, callPort, socketVars, hostVars>>

SetPort ==
  /\ pc["main"] = "port"
  /\ port' = TRUE
  /\ Goto("main", "setup")
  /\ UNCHANGED <<tcpVars, ip_addr, exit_app, registered, motorOpen, process, callPort, socketVars, hostVars>>

ResetExitApp ==
  /\ pc["main"] = "exit_app"
  /\ exit_app' = FALSE
  /\ Goto("main", "signal")
  /\ UNCHANGED <<tcpVars, ip_addr, port, registered, motorOpen, process, callPort, socketVars, hostVars>>

RegisterHandler ==
  /\ pc["main"] = "signal"
  /\ registered' = TRUE
  /\ Goto("main", "loop")
  /\ UNCHANGED <<tcpVars, ip_addr, port, exit_app, motorOpen, process, callPort, socketVars, hostVars>>

\* Fault: the motor is deleted without being closed.
EndLoop_NotClosed ==
  /\ pc["main"] = "loop"
  /\ exit_app
  /\ Goto("main", "return")
  /\ UNCHANGED <<tcpVars, mainVars, callPort, socketVars, hostVars>>

\* The rounds of the timer loop (Orbiter) end when exit_app is seen.
EndLoop ==
  /\ pc["main"] = "loop"
  /\ exit_app
  /\ motorOpen' = FALSE
  /\ Goto("main", "return")
  /\ UNCHANGED <<tcpVars, ip_addr, port, exit_app, registered, process, callPort, socketVars, hostVars>>

\* The threads have been neither joined nor detached, which ends the process.
Return ==
  /\ pc["main"] = "return"
  /\ process' = "terminated"
  /\ UNCHANGED <<tcpVars, ip_addr, port, exit_app, registered, motorOpen, pc, callPort, socketVars, hostVars>>

MainThread ==
  /\ process = "running"
  /\ \/ SetIpAddr \/ SetPort
     \/ Setup("main")
     \/ ResetExitApp \/ RegisterHandler
     \/ EndLoop \/ Return

-----------------------------------------------------------------------------
(***************************************************************************)
(* The host, the signal, and the infrared thread.                          *)
(***************************************************************************)
HostStarts ==
  /\ process = "running" /\ ~ hostUp
  /\ hostUp' = TRUE
  /\ UNCHANGED <<tcpVars, mainVars, pc, callPort, socketVars, current, sent, drops>>

\* The host ends: so do all of its connections.
HostStops ==
  /\ process = "running" /\ hostUp /\ drops < MaxDrops
  /\ hostUp' = FALSE
  /\ drops' = drops + 1
  /\ fds' = [fd \in Fd |-> IF fds[fd] = "connected" THEN "dropped" ELSE fds[fd]]
  /\ current' = NoSock
  /\ UNCHANGED <<tcpVars, mainVars, pc, callPort, unread, races, sent>>

\* The host sends on the connection it accepted last.
HostSends ==
  /\ process = "running" /\ hostUp /\ current # NoSock /\ sent < MaxMessages
  /\ sent' = sent + 1
  /\ unread' = [unread EXCEPT ![current] =
       [from |-> IF @.from = @.to THEN sent * MessageLength ELSE @.from,
        to |-> sent' * MessageLength]]
  /\ UNCHANGED <<tcpVars, mainVars, pc, callPort, fds, races, hostUp, current, drops>>

\* Before signal_handler is registered the signal kills the process.
Sigterm ==
  /\ process = "running"
  /\ IF registered THEN exit_app' = TRUE /\ UNCHANGED process
                   ELSE process' = "killed" /\ UNCHANGED exit_app
  /\ UNCHANGED <<tcpVars, ip_addr, port, registered, motorOpen, pc, callPort, socketVars, hostVars>>

\* ir_func: lirc_init has failed, or a code is NULL (IrRemote).
IrThreadFails ==
  /\ process = "running"
  /\ process' \in {"exited", "aborted"}
  /\ UNCHANGED <<tcpVars, ip_addr, port, exit_app, registered, motorOpen, pc, callPort, socketVars, hostVars>>

LinkNext ==
  \/ TcpThread \/ MainThread
  \/ HostStarts \/ HostStops \/ HostSends
  \/ Sigterm \/ IrThreadFails

\* Neither thread is kept from its next step, the host is started again, and its
\* name is found if it is looked for again and again (an address in numbers
\* always is).
Resolves(thread) == process = "running" /\ FillAddress(thread)

LinkFairness ==
  /\ WF_linkVars(TcpThread)
  /\ WF_linkVars(MainThread)
  /\ WF_linkVars(HostStarts)
  /\ SF_linkVars(Resolves("main"))
  /\ SF_linkVars(Resolves("tcp_func"))

LinkSpec == LinkInit /\ [][LinkNext]_linkVars /\ LinkFairness

-----------------------------------------------------------------------------
(***************************************************************************)
(* Properties.                                                             *)
(***************************************************************************)
LinkTypeOK ==
  /\ sock \in Fd \cup {NoSock}
  /\ server \in BOOLEAN
  /\ recvFd \in Fd \cup {NoSock}
  /\ text \in Bytes
  /\ ip_addr \in BOOLEAN /\ port \in BOOLEAN
  /\ exit_app \in BOOLEAN /\ registered \in BOOLEAN /\ motorOpen \in BOOLEAN
  /\ process \in {"running", "killed", "exited", "aborted", "terminated"}
  /\ pc \in [Threads -> MainPoints \cup TcpPoints]
  /\ pc["main"] \in MainPoints /\ pc["tcp_func"] \in TcpPoints
  /\ callPort \in [Threads -> BOOLEAN]
  /\ fds \in [Fd -> FdStates]
  /\ unread \in [Fd -> Bytes]
  /\ hostUp \in BOOLEAN
  /\ current \in Fd \cup {NoSock}
  /\ sent \in 0 .. MaxMessages /\ drops \in 0 .. MaxDrops /\ races \in 0 .. MaxFd

\* The descriptor tcp_func waits on in recv is that of a socket, until recv
\* returns, although main may put another one in its place in the meantime.
WaitsOnASocket ==
  pc["tcp_func"] = "recv" =>
    recvFd \in Fd /\ fds[recvFd] \in {"connected", "dropped"}

\* A descriptor is lost only when both threads find at the same time that there
\* is no socket, one for each time, and once more when tcp_func, which has found
\* nothing to read yet, forgets the first socket of main: connections the host
\* drops and attempts that fail cost none.
Lost == {fd \in Fd : fds[fd] # "closed" /\ fd # sock}

LostByRaces == Cardinality(Lost) <= races + 1

\* No byte of the host is taken twice or before one that was sent earlier,
\* whichever thread has opened the connection it comes from.
BytesInOrder == [][text' # text => text'.from >= text.to]_linkVars

\* A program that goes on waits in recv on a connection in the end, also when
\* the host was away at the start, has dropped the connection or was not found,
\* unless the races have used up every descriptor.
ListensInTheEnd ==
  <>[](\/ pc["tcp_func"] = "recv" /\ fds[recvFd] = "connected"
       \/ Lost = Fd
       \/ exit_app
       \/ process # "running")

Connected == StateOf(sock) = "connected"

\* Once the handler is registered, SIGTERM closes the motor, if the infrared
\* thread does not end the process first.
SigtermClosesMotor == exit_app ~> ~ motorOpen \/ process \in {"exited", "aborted"}

\* A SIGTERM that did not kill the process is not forgotten: main sets exit_app
\* to false after it has connected, and must not have registered the handler
\* before.  So the motor of a process that has ended by itself is closed.
SigtermIsKept ==
  [][ /\ exit_app => exit_app'
      /\ process' = "terminated" => ~ motorOpen' ]_linkVars

(***************************************************************************)
(* A promise of the messages that the code does not keep.                  *)
(***************************************************************************)

\* main.cpp prints "Connecting to server" until it is connected.
MainStartsWhenConnected ==
  Connected ~> pc["main"] = "loop" \/ ~ Connected \/ process # "running"
=============================================================================
