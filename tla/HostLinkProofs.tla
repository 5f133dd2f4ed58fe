--------------------------- MODULE HostLinkProofs ---------------------------
(***************************************************************************)
(* The invariants of the connection to the host, for any lengths, any      *)
(* number of descriptors, and however often the host and the threads meet. *)
(***************************************************************************)
EXTENDS HostLink, FiniteSetTheorems, TLAPS

Live(fd) == fds[fd] \in {"connected", "dropped"}
Holds(fd) == unread[fd].from < unread[fd].to

\* Sockets that are not connected hold nothing, and the host sends on one that
\* is connected.
SocketInv ==
  /\ \A fd \in Fd : ~ Live(fd) => unread[fd] = NoBytes
  /\ current # NoSock => fds[current] = "connected"
  /\ WaitsOnASocket

\* What is unread is not older than what was read, on the member's socket and
\* on the one recv waits on.  When these are two, all of the second one is older
\* than anything on the first, and once the first is connected the host sends
\* on the second no more.
OrderInv ==
  /\ \A fd \in Fd : /\ unread[fd].from <= unread[fd].to
                    /\ unread[fd].to <= sent * MessageLength
  /\ text.to <= sent * MessageLength
  /\ sock # NoSock /\ Holds(sock) => text.to <= unread[sock].from
  /\ pc["tcp_func"] = "recv" =>
       /\ Holds(recvFd) => text.to <= unread[recvFd].from
       /\ sock \notin {NoSock, recvFd} /\ Live(sock) =>
            /\ current # recvFd
            /\ Holds(sock) => unread[recvFd].to <= unread[sock].from

NoneLeft == \A fd \in Fd : fds[fd] # "closed"

\* tcp_func is between forgetting one socket and creating the next.
Without == {"setup", "check", "socket"}

\* The next socket a thread creates, or the forgetting of the present one, may
\* lose a descriptor.
MayLose ==
  \/ pc["main"] = "socket" /\ pc["tcp_func"] = "socket"
  \/ /\ pc["main"] = "socket" /\ pc["tcp_func"] \notin Without
     /\ sock # NoSock \/ ~ NoneLeft
  \/ pc["main"] # "socket" /\ pc["tcp_func"] = "socket" /\ sock # NoSock
  \/ /\ pc["main"] # "socket" /\ pc["tcp_func"] = "sock = -1"
     /\ StateOf(sock) # "closed"

\* What is lost, and what may be lost next, has been paid for by races.  main creates a
\* socket only where there was none; and tcp_func is without one while it is
\* not in setup only before the first one, or when there are no descriptors
\* left.
LostInv ==
  /\ Cardinality(Lost) <= races + 1
  /\ MayLose => Cardinality(Lost) <= races
  /\ pc["main"] = "socket" /\ pc["tcp_func"] \in Without => sock = NoSock
  /\ pc["main"] = "socket" /\ pc["tcp_func"] = "sock = -1" => StateOf(sock) = "closed"
  /\ sock = NoSock /\ pc["tcp_func"] \notin Without => Lost = {} \/ NoneLeft

LinkInv == LinkTypeOK /\ SocketInv /\ OrderInv /\ LostInv

-----------------------------------------------------------------------------
(***************************************************************************)
(* Descriptors, threads and counting.                                      *)
(***************************************************************************)

\* -1 is no descriptor.
LEMMA NoSockIsNoFd == NoSock \notin Fd /\ Fd \subseteq Nat
  BY BoundsAssumption DEF NoSock, Fd

\* A thread goes on; the other one stays.
LEMMA GotoMoves ==
  ASSUME LinkTypeOK, NEW thread \in Threads, NEW next, Goto(thread, next),
         next \in IF thread = "main" THEN MainPoints ELSE TcpPoints
  PROVE  /\ pc' \in [Threads -> MainPoints \cup TcpPoints]
         /\ pc'["main"] \in MainPoints /\ pc'["tcp_func"] \in TcpPoints
         /\ pc'[thread] = next
         /\ \A other \in Threads \ {thread} : pc'[other] = pc[other]
  BY DEF LinkTypeOK, Goto, Threads

\* The length of the stream grows with every message.
LEMMA Products ==
  ASSUME NEW a \in Nat, NEW b \in Nat
  PROVE  a * b \in Nat /\ (a + 1) * b >= a * b
<1>1. a * b \in Nat
  OBVIOUS
<1>2. (a + 1) * b = a * b + b
  OBVIOUS
<1> QED
  BY <1>1, <1>2

\* The lost descriptors can be counted, and no more can be lost than there are.
LEMMA LostIsFinite ==
  IsFiniteSet(Lost) /\ Cardinality(Lost) \in Nat /\ Cardinality(Lost) <= MaxFd
<1>1. IsFiniteSet(Fd) /\ Cardinality(Fd) = MaxFd
  BY BoundsAssumption, FS_Interval DEF Fd
<1>2. Lost \in SUBSET Fd
  BY DEF Lost
<1>3. IsFiniteSet(Lost) /\ Cardinality(Lost) <= Cardinality(Fd)
  BY <1>1, <1>2, FS_Subset
<1> QED
  BY <1>1, <1>3, FS_CardinalityType

\* A set counts at most one more with one more element.
LEMMA OneMore ==
  ASSUME NEW S, NEW T, NEW x, IsFiniteSet(S), T \subseteq S \cup {x}
  PROVE  /\ Cardinality(S) \in Nat /\ Cardinality(T) \in Nat
         /\ Cardinality(T) <= Cardinality(S) + 1
         /\ T \subseteq S => Cardinality(T) <= Cardinality(S)
<1>1. IsFiniteSet(S \cup {x}) /\ Cardinality(S \cup {x}) <= Cardinality(S) + 1
      /\ Cardinality(S) \in Nat /\ Cardinality(S \cup {x}) \in Nat
  BY FS_AddElement, FS_CardinalityType
<1>2. T \in SUBSET (S \cup {x})
  OBVIOUS
<1>3. IsFiniteSet(T) /\ Cardinality(T) <= Cardinality(S \cup {x})
  BY <1>1, <1>2, FS_Subset
<1>4. Cardinality(T) \in Nat
  BY <1>3, FS_CardinalityType
<1>5. ASSUME T \subseteq S
      PROVE  Cardinality(T) <= Cardinality(S)
  <2>1. T \in SUBSET S
    BY <1>5
  <2> QED
    BY <2>1, FS_Subset
<1> QED
  BY <1>1, <1>3, <1>4, <1>5

-----------------------------------------------------------------------------
(***************************************************************************)
(* Types.                                                                  *)
(***************************************************************************)

\* setup.
LEMMA SetupTypes ==
  ASSUME LinkTypeOK, NEW thread \in Threads, Setup(thread)
  PROVE  LinkTypeOK'
<1> USE DEF LinkTypeOK, tcpVars, mainVars, socketVars, hostVars
<1>1. ASSUME NEW next \in SetupPoints \cup {"setup"}, Goto(thread, next)
      PROVE  /\ pc' \in [Threads -> MainPoints \cup TcpPoints]
             /\ pc'["main"] \in MainPoints /\ pc'["tcp_func"] \in TcpPoints
  BY <1>1, GotoMoves DEF MainPoints, TcpPoints, SetupPoints
<1>2. CASE CallSetup(thread)
  <2>1. callPort' \in [Threads -> BOOLEAN]
    BY <1>2 DEF CallSetup
  <2>2. /\ pc' \in [Threads -> MainPoints \cup TcpPoints]
        /\ pc'["main"] \in MainPoints /\ pc'["tcp_func"] \in TcpPoints
    BY <1>1, <1>2 DEF CallSetup, SetupPoints
  <2>3. process' \in {"running", "killed", "exited", "aborted", "terminated"}
    BY <1>2 DEF CallSetup
  <2> QED
    BY <1>2, <2>1, <2>2, <2>3 DEF CallSetup
<1>3. CASE CheckSock(thread)
  <2>1. races' \in 0 .. MaxFd
    BY <1>3, BoundsAssumption DEF CheckSock
  <2>2. /\ pc' \in [Threads -> MainPoints \cup TcpPoints]
        /\ pc'["main"] \in MainPoints /\ pc'["tcp_func"] \in TcpPoints
    BY <1>1, <1>3 DEF CheckSock, SetupPoints
  <2> QED
    BY <1>3, <2>1, <2>2 DEF CheckSock
<1>4. CASE CreateSocket(thread)
  <2>1. sock' \in Fd \cup {NoSock} /\ fds' \in [Fd -> FdStates]
    BY <1>4 DEF CreateSocket, FdStates
  <2>2. /\ pc' \in [Threads -> MainPoints \cup TcpPoints]
        /\ pc'["main"] \in MainPoints /\ pc'["tcp_func"] \in TcpPoints
    BY <1>1, <1>4 DEF CreateSocket, SetupPoints
  <2> QED
    BY <1>4, <2>1, <2>2 DEF CreateSocket
<1>5. CASE FillAddress(thread)
  <2>1. server' \in BOOLEAN
    BY <1>5 DEF FillAddress
  <2>2. /\ pc' \in [Threads -> MainPoints \cup TcpPoints]
        /\ pc'["main"] \in MainPoints /\ pc'["tcp_func"] \in TcpPoints
    BY <1>1, <1>5 DEF FillAddress, SetupPoints
  <2> QED
    BY <1>5, <2>1, <2>2 DEF FillAddress
<1>7. ASSUME NEW success, SetupReturns(thread, success)
      PROVE  /\ callPort' \in [Threads -> BOOLEAN]
             /\ pc' \in [Threads -> MainPoints \cup TcpPoints]
             /\ pc'["main"] \in MainPoints /\ pc'["tcp_func"] \in TcpPoints
  <2>1. \E next : /\ next \in IF thread = "main" THEN MainPoints ELSE TcpPoints
                  /\ Goto(thread, next)
    BY <1>7 DEF SetupReturns, Threads, MainPoints, TcpPoints, SetupPoints
  <2>2. callPort' \in [Threads -> BOOLEAN]
    BY <1>7 DEF SetupReturns
  <2> QED
    BY <2>1, <2>2, GotoMoves
<1>8. CASE ResolveFails(thread)
  <2>1. SetupReturns(thread, FALSE)
    BY <1>8 DEF ResolveFails
  <2>2. UNCHANGED <<tcpVars, mainVars, socketVars, hostVars>>
    BY <1>8 DEF ResolveFails
  <2>3. /\ callPort' \in [Threads -> BOOLEAN]
        /\ pc' \in [Threads -> MainPoints \cup TcpPoints]
        /\ pc'["main"] \in MainPoints /\ pc'["tcp_func"] \in TcpPoints
    BY <1>7, <2>1
  <2> QED
    BY <2>2, <2>3
<1>6. CASE Connect(thread)
  <2>2. fds' \in [Fd -> FdStates] /\ current' \in Fd \cup {NoSock}
    BY <1>6 DEF Connect, FdStates
  <2> QED
    BY <1>6, <1>7, <2>2 DEF Connect
<1> QED
  BY <1>2, <1>3, <1>4, <1>5, <1>6, <1>8 DEF Setup

\* tcp_func, but for setup.
LEMMA TcpTypes ==
  ASSUME LinkTypeOK, SocketInv,
         Receive \/ ReceiveBytes \/ ReceiveEnd \/ CloseSock \/ ForgetSock
  PROVE  LinkTypeOK'
<1> USE DEF LinkTypeOK, tcpVars, mainVars, socketVars, hostVars
<1>1. /\ pc' \in [Threads -> MainPoints \cup TcpPoints]
      /\ pc'["main"] \in MainPoints /\ pc'["tcp_func"] \in TcpPoints
  <2>1. \E next \in TcpPoints : Goto("tcp_func", next)
    BY DEF Receive, ReceiveBytes, ReceiveEnd, CloseSock, ForgetSock, TcpPoints, SetupPoints
  <2> QED
    BY <2>1, GotoMoves DEF Threads
<1>2. CASE Receive
  <2>1. recvFd' \in Fd \cup {NoSock}
    BY <1>2 DEF Receive
  <2> QED
    BY <1>1, <1>2, <2>1 DEF Receive
<1>3. CASE ReceiveBytes
  <2>1. PICK n \in 1 .. BufferSize :
          /\ unread[recvFd].from + n <= unread[recvFd].to
          /\ text' = TextOf(unread[recvFd], n)
          /\ unread' = [unread EXCEPT ![recvFd].from = @ + n]
    BY <1>3 DEF ReceiveBytes
  <2>2. recvFd \in Fd /\ n \in Nat /\ n >= 1
    BY <1>3, LengthAssumption DEF ReceiveBytes, SocketInv, WaitsOnASocket
  <2>3. unread[recvFd] \in Bytes
    BY <2>2
  <2>4. text' \in Bytes
    BY <2>1, <2>2, <2>3, LengthAssumption DEF TextOf, Bytes
  <2>5. unread' \in [Fd -> Bytes]
    BY <2>1, <2>2, <2>3 DEF Bytes
  <2> QED
    BY <1>1, <1>3, <2>4, <2>5 DEF ReceiveBytes
<1>4. CASE ReceiveEnd
  BY <1>1, <1>4 DEF ReceiveEnd
<1>5. CASE CloseSock
  <2>1. fds' \in [Fd -> FdStates] /\ unread' \in [Fd -> Bytes]
    BY <1>5 DEF CloseSock, FdStates, NoBytes, Bytes
  <2>2. current' \in Fd \cup {NoSock}
    BY <1>5 DEF CloseSock
  <2> QED
    BY <1>1, <1>5, <2>1, <2>2 DEF CloseSock
<1>6. CASE ForgetSock
  <2>1. sock' \in Fd \cup {NoSock}
    BY <1>6 DEF ForgetSock
  <2>2. callPort' = callPort /\ fds' = fds /\ unread' = unread
    BY <1>6 DEF ForgetSock
  <2> QED
    BY <1>1, <1>6, <2>1, <2>2 DEF ForgetSock
<1> QED
  BY <1>2, <1>3, <1>4, <1>5, <1>6

\* main, but for setup.
LEMMA MainTypes ==
  ASSUME LinkTypeOK,
         SetIpAddr \/ SetPort \/ ResetExitApp \/ RegisterHandler \/ EndLoop \/ Return
  PROVE  LinkTypeOK'
<1> USE DEF LinkTypeOK, tcpVars, mainVars, socketVars, hostVars
<1>1. /\ pc' \in [Threads -> MainPoints \cup TcpPoints]
      /\ pc'["main"] \in MainPoints /\ pc'["tcp_func"] \in TcpPoints
  <2>1. (\E next \in MainPoints : Goto("main", next)) \/ pc' = pc
    BY DEF SetIpAddr, SetPort, ResetExitApp, RegisterHandler, EndLoop, Return,
           MainPoints, SetupPoints
  <2> QED
    BY <2>1, GotoMoves DEF Threads
<1>2. CASE SetIpAddr \/ SetPort
  BY <1>1, <1>2 DEF SetIpAddr, SetPort
<1>3. CASE ResetExitApp \/ RegisterHandler
  BY <1>1, <1>3 DEF ResetExitApp, RegisterHandler
<1>4. CASE EndLoop \/ Return
  BY <1>1, <1>4 DEF EndLoop, Return
<1> QED
  BY <1>2, <1>3, <1>4

\* The host, the signal and the infrared thread.
LEMMA OutsideTypes ==
  ASSUME LinkTypeOK, HostStarts \/ HostStops \/ HostSends \/ Sigterm \/ IrThreadFails
                     \/ UNCHANGED linkVars
  PROVE  LinkTypeOK'
<1> USE DEF LinkTypeOK, tcpVars, mainVars, socketVars, hostVars
<1>1. CASE HostStarts
  BY <1>1 DEF HostStarts
<1>2. CASE HostStops
  <2>1. fds' \in [Fd -> FdStates]
    BY <1>2 DEF HostStops, FdStates
  <2>2. drops' \in 0 .. MaxDrops
    BY <1>2, BoundsAssumption DEF HostStops
  <2> QED
    BY <1>2, <2>1, <2>2 DEF HostStops
<1>3. CASE HostSends
  <2>1. sent' \in 0 .. MaxMessages
    BY <1>3, BoundsAssumption DEF HostSends
  <2>2. sent * MessageLength \in Nat /\ sent' * MessageLength \in Nat
    <3>1. sent \in Nat /\ sent' \in Nat /\ MessageLength \in Nat
      BY <2>1, LengthAssumption
    <3> QED
      BY <3>1, Products
  <2>3. unread' \in [Fd -> Bytes]
    BY <1>3, <2>2 DEF HostSends, Bytes
  <2> QED
    BY <1>3, <2>1, <2>3 DEF HostSends
<1>4. CASE Sigterm
  BY <1>4 DEF Sigterm
<1>5. CASE IrThreadFails
  BY <1>5 DEF IrThreadFails
<1>6. CASE UNCHANGED linkVars
  BY <1>6 DEF linkVars
<1> QED
  BY <1>1, <1>2, <1>3, <1>4, <1>5, <1>6

-----------------------------------------------------------------------------
(***************************************************************************)
(* Steps that leave the sockets, or most of them, alone.                   *)
(***************************************************************************)

\* No socket is created, closed or forgotten, and no thread comes to or leaves
\* the points where one may be lost.
LEMMA LostSame ==
  ASSUME LinkTypeOK, LostInv, UNCHANGED <<sock, races>>,
         \A fd \in Fd : fds'[fd] = "closed" <=> fds[fd] = "closed",
         pc'["main"] = "socket" <=> pc["main"] = "socket",
         pc'["tcp_func"] = "socket" <=> pc["tcp_func"] = "socket",
         pc'["tcp_func"] = "sock = -1" <=> pc["tcp_func"] = "sock = -1",
         pc'["tcp_func"] \in Without <=> pc["tcp_func"] \in Without
  PROVE  LostInv'
<1>1. Lost' = Lost
  BY DEF Lost
<1>2. NoneLeft' <=> NoneLeft
  BY DEF NoneLeft
<1>3. StateOf(sock)' = "closed" <=> StateOf(sock) = "closed"
  BY DEF LinkTypeOK, StateOf
<1>4. MayLose' <=> MayLose
  BY <1>2, <1>3 DEF MayLose
<1> QED
  BY <1>1, <1>2, <1>3, <1>4 DEF LostInv

\* No byte moves; tcp_func goes on waiting, or begins to wait on the socket of
\* the member.
LEMMA OrderSame ==
  ASSUME LinkTypeOK, SocketInv, OrderInv,
         UNCHANGED <<sock, fds, unread, text, current, sent>>,
         pc'["tcp_func"] = "recv" =>
           \/ pc["tcp_func"] = "recv" /\ recvFd' = recvFd
           \/ recvFd' = sock /\ sock \in Fd /\ Live(sock)
  PROVE  SocketInv' /\ OrderInv'
<1>1. SocketInv'
  BY DEF SocketInv, WaitsOnASocket, Live
<1>2. OrderInv'
  BY NoSockIsNoFd DEF OrderInv, Live, Holds
<1> QED
  BY <1>1, <1>2

\* tcp_func calls recv.
LEMMA ReceiveInv ==
  ASSUME LinkInv, Receive \/ ReceiveEnd
  PROVE  LinkInv'
<1> USE DEF tcpVars, mainVars, socketVars, hostVars
<1>1. LinkTypeOK'
  BY TcpTypes DEF LinkInv
<1>2. UNCHANGED <<sock, fds, unread, text, current, sent, races>>
  BY DEF Receive, ReceiveEnd
<1>3. /\ pc["tcp_func"] \in {"receive", "recv"}
      /\ pc'["tcp_func"] \in {"done", "recv", "exit"}
      /\ pc'["main"] = pc["main"]
  <2>1. \E next \in {"done", "recv", "exit"} : Goto("tcp_func", next)
    BY DEF Receive, ReceiveEnd
  <2> QED
    BY <2>1, GotoMoves DEF Receive, ReceiveEnd, TcpPoints, Threads, LinkInv
<1>4. LostInv'
  BY <1>2, <1>3, LostSame DEF LinkInv, Without
<1>5. pc'["tcp_func"] = "recv" => recvFd' = sock /\ sock \in Fd /\ Live(sock)
  BY <1>3, GotoMoves DEF Receive, ReceiveEnd, Goto, LinkInv, LinkTypeOK, Threads, StateOf, Live
<1>6. SocketInv' /\ OrderInv'
  BY <1>2, <1>5, OrderSame DEF LinkInv
<1> QED
  BY <1>1, <1>4, <1>6 DEF LinkInv

\* setup returns: the other thread stays.
LEMMA Returns ==
  ASSUME LinkTypeOK, NEW thread \in Threads, NEW success, SetupReturns(thread, success)
  PROVE  /\ pc'[thread] \in {"receive", "exit_app", "setup"}
         /\ thread = "tcp_func" => pc'[thread] = "receive"
         /\ \A other \in Threads \ {thread} : pc'[other] = pc[other]
<1>1. \E next \in {"receive", "exit_app", "setup"} :
        /\ thread = "tcp_func" => next = "receive"
        /\ thread = "main" => next # "receive"
        /\ Goto(thread, next)
  BY DEF SetupReturns, Threads
<1> QED
  BY <1>1, GotoMoves DEF MainPoints, TcpPoints, SetupPoints, Threads

\* The arguments of setup and the address it fills, or does not find.
LEMMA AddressInv ==
  ASSUME LinkInv, NEW thread \in Threads,
         CallSetup(thread) \/ FillAddress(thread) \/ ResolveFails(thread)
  PROVE  LinkInv'
<1> USE DEF tcpVars, mainVars, socketVars, hostVars
<1>1. LinkTypeOK'
  BY SetupTypes DEF LinkInv, Setup
<1>2. UNCHANGED <<sock, fds, unread, text, current, sent, races, recvFd>>
  BY DEF CallSetup, FillAddress, ResolveFails
<1>3. \/ pc' = pc
      \/ /\ pc[thread] = "setup" /\ pc'[thread] = "check"
         /\ \A other \in Threads \ {thread} : pc'[other] = pc[other]
      \/ /\ pc[thread] = "address"
         /\ pc'[thread] \in {"connect", "receive", "exit_app", "setup"}
         /\ thread = "tcp_func" => pc'[thread] \in {"connect", "receive"}
         /\ \A other \in Threads \ {thread} : pc'[other] = pc[other]
  <2>1. CASE CallSetup(thread) \/ FillAddress(thread)
    BY <2>1, GotoMoves
       DEF CallSetup, FillAddress, MainPoints, TcpPoints, SetupPoints, LinkInv
  <2>2. CASE ResolveFails(thread)
    BY <2>2, Returns DEF ResolveFails, LinkInv
  <2> QED
    BY <2>1, <2>2
<1>4. LostInv'
  BY <1>2, <1>3, LostSame DEF LinkInv, Without, Threads
<1>5. pc'["tcp_func"] = "recv" => pc["tcp_func"] = "recv"
  BY <1>3 DEF Threads
<1>6. SocketInv' /\ OrderInv'
  BY <1>2, <1>5, OrderSame DEF LinkInv
<1> QED
  BY <1>1, <1>4, <1>6 DEF LinkInv

\* The steps of main outside setup.
LEMMA MainInv ==
  ASSUME LinkInv,
         SetIpAddr \/ SetPort \/ ResetExitApp \/ RegisterHandler \/ EndLoop \/ Return
  PROVE  LinkInv'
<1> USE DEF tcpVars, mainVars, socketVars, hostVars
<1>1. LinkTypeOK'
  BY MainTypes DEF LinkInv
<1>2. UNCHANGED <<sock, fds, unread, text, current, sent, races, recvFd>>
  BY DEF SetIpAddr, SetPort, ResetExitApp, RegisterHandler, EndLoop, Return
<1>3. /\ pc["main"] # "socket" /\ pc'["main"] # "socket"
      /\ pc'["tcp_func"] = pc["tcp_func"]
  <2>1. /\ pc["main"] # "socket"
        /\ (\E next \in MainPoints \ {"socket"} : Goto("main", next)) \/ pc' = pc
    BY DEF SetIpAddr, SetPort, ResetExitApp, RegisterHandler, EndLoop, Return,
           MainPoints, SetupPoints
  <2> QED
    BY <2>1, GotoMoves DEF Threads, LinkInv
<1>4. LostInv'
  BY <1>2, <1>3, LostSame DEF LinkInv
<1>5. SocketInv' /\ OrderInv'
  BY <1>2, <1>3, OrderSame DEF LinkInv
<1> QED
  BY <1>1, <1>4, <1>5 DEF LinkInv

\* The host starts, the signal, the infrared thread, and nothing.
LEMMA QuietInv ==
  ASSUME LinkInv, HostStarts \/ Sigterm \/ IrThreadFails \/ UNCHANGED linkVars
  PROVE  LinkInv'
<1> USE DEF tcpVars, mainVars, socketVars, hostVars
<1>1. LinkTypeOK'
  BY OutsideTypes DEF LinkInv
<1>2. UNCHANGED <<sock, fds, unread, text, current, sent, races, recvFd, pc>>
  BY DEF HostStarts, Sigterm, IrThreadFails, linkVars
<1>3. LostInv'
  BY <1>2, LostSame DEF LinkInv
<1>4. SocketInv' /\ OrderInv'
  BY <1>2, OrderSame DEF LinkInv
<1> QED
  BY <1>1, <1>3, <1>4 DEF LinkInv

-----------------------------------------------------------------------------
(***************************************************************************)
(* Bytes that move.                                                        *)
(***************************************************************************)

\* recv gives bytes.
LEMMA ReceiveBytesInv ==
  ASSUME LinkInv, ReceiveBytes
  PROVE  LinkInv' /\ text'.from >= text.to
<1> USE DEF tcpVars, mainVars, socketVars, hostVars
<1>1. LinkTypeOK'
  BY TcpTypes DEF LinkInv
<1>2. /\ pc["tcp_func"] = "recv" /\ pc'["tcp_func"] = "receive"
      /\ pc'["main"] = pc["main"]
  BY GotoMoves DEF ReceiveBytes, TcpPoints, Threads, LinkInv
<1>3. LostInv'
  BY <1>2, LostSame DEF LinkInv, Without, ReceiveBytes
<1>4. PICK n \in 1 .. BufferSize :
        /\ unread[recvFd].from + n <= unread[recvFd].to
        /\ text' = TextOf(unread[recvFd], n)
        /\ unread' = [unread EXCEPT ![recvFd].from = @ + n]
  BY DEF ReceiveBytes
<1>5. recvFd \in Fd /\ n \in Nat /\ n >= 1 /\ Live(recvFd)
  BY <1>2, LengthAssumption DEF LinkInv, SocketInv, WaitsOnASocket, Live
<1>6. \A fd \in Fd : unread[fd].from \in Nat /\ unread[fd].to \in Nat
  BY DEF LinkInv, LinkTypeOK, Bytes
<1>7. /\ unread'[recvFd].from = unread[recvFd].from + n
      /\ unread'[recvFd].to = unread[recvFd].to
      /\ \A fd \in Fd \ {recvFd} : unread'[fd] = unread[fd]
  BY <1>4, <1>5 DEF LinkInv, LinkTypeOK, Bytes
<1>8. /\ text'.from = unread[recvFd].from
      /\ text'.to <= unread[recvFd].from + n
      /\ text.to \in Nat /\ text'.to \in Nat
  BY <1>1, <1>4, <1>5, <1>6, LengthAssumption DEF TextOf, LinkInv, LinkTypeOK, Bytes
<1>9. text'.from >= text.to
  BY <1>2, <1>4, <1>5, <1>6, <1>8 DEF LinkInv, OrderInv, Holds
<1>10. UNCHANGED <<sock, fds, current, sent>>
  BY DEF ReceiveBytes
<1>11. SocketInv'
  BY <1>2, <1>5, <1>7, <1>10 DEF LinkInv, SocketInv, WaitsOnASocket, Live
<1>12. \A fd \in Fd : /\ unread'[fd].from <= unread'[fd].to
                      /\ unread'[fd].to <= sent * MessageLength
  BY <1>4, <1>5, <1>7 DEF LinkInv, OrderInv
<1>13. text'.to <= sent * MessageLength
  <2>1. sent * MessageLength \in Nat
    BY Products, LengthAssumption DEF LinkInv, LinkTypeOK
  <2> QED
    BY <1>4, <1>5, <1>6, <1>8, <2>1 DEF LinkInv, OrderInv
<1>14. ASSUME sock # NoSock, Holds(sock)'
       PROVE  text'.to <= unread'[sock].from
  <2>1. sock \in Fd
    BY <1>14 DEF LinkInv, LinkTypeOK
  <2>2. CASE sock = recvFd
    BY <1>5, <1>6, <1>7, <1>8, <2>2
  <2>3. CASE sock # recvFd
    <3>1. Holds(sock) /\ unread'[sock] = unread[sock]
      BY <1>7, <1>10, <1>14, <2>1, <2>3 DEF Holds
    <3>2. Live(sock)
      BY <2>1, <3>1 DEF LinkInv, SocketInv, Holds, NoBytes
    <3>3. unread[recvFd].to <= unread[sock].from
      BY <1>2, <1>14, <2>3, <3>1, <3>2 DEF LinkInv, OrderInv
    <3> QED
      BY <1>4, <1>5, <1>6, <1>8, <2>1, <3>1, <3>3
  <2> QED
    BY <2>2, <2>3
<1>15. OrderInv'
  BY <1>2, <1>10, <1>12, <1>13, <1>14 DEF OrderInv
<1> QED
  BY <1>1, <1>3, <1>9, <1>11, <1>15 DEF LinkInv

\* The host sends a message.
LEMMA HostSendsInv ==
  ASSUME LinkInv, HostSends
  PROVE  LinkInv'
<1> USE DEF tcpVars, mainVars, socketVars, hostVars
<1>1. LinkTypeOK'
  BY OutsideTypes DEF LinkInv
<1>2. UNCHANGED <<sock, fds, text, current, races, recvFd, pc>>
  BY DEF HostSends
<1>3. LostInv'
  BY <1>2, LostSame DEF LinkInv
<1> DEFINE old == sent * MessageLength
           new == sent' * MessageLength
<1>4. old \in Nat /\ new \in Nat /\ new >= old
  <2>1. sent \in Nat /\ sent' = sent + 1 /\ MessageLength \in Nat
    BY LengthAssumption DEF HostSends, LinkInv, LinkTypeOK
  <2>2. (sent + 1) \in Nat
    BY <2>1
  <2> QED
    BY <2>1, <2>2, Products
<1>5. current \in Fd /\ fds[current] = "connected"
  BY DEF HostSends, LinkInv, LinkTypeOK, SocketInv
<1>6. \A fd \in Fd : unread[fd] \in Bytes /\ unread[fd].from \in Nat /\ unread[fd].to \in Nat
  BY DEF LinkInv, LinkTypeOK, Bytes
<1>7. /\ unread'[current].from =
           IF unread[current].from = unread[current].to THEN old ELSE unread[current].from
      /\ unread'[current].to = new
      /\ \A fd \in Fd \ {current} : unread'[fd] = unread[fd]
  BY <1>5, <1>6 DEF HostSends, LinkInv, LinkTypeOK
<1> HIDE DEF old, new
<1>8. /\ \A fd \in Fd : unread[fd].from <= unread[fd].to /\ unread[fd].to <= old
      /\ text.to <= old /\ text.to \in Nat
  BY DEF LinkInv, LinkTypeOK, Bytes, OrderInv, old
<1>9. SocketInv'
  BY <1>2, <1>5, <1>7 DEF LinkInv, SocketInv, WaitsOnASocket, Live
<1>10. \A fd \in Fd : /\ unread'[fd].from <= unread'[fd].to
                      /\ unread'[fd].to <= new
  BY <1>4, <1>5, <1>6, <1>7, <1>8
<1>11. text'.to <= new
  BY <1>2, <1>4, <1>8
<1>12. ASSUME NEW fd \in Fd, Holds(fd)', Holds(fd) => text.to <= unread[fd].from
       PROVE  text'.to <= unread'[fd].from
  <2>1. CASE fd = current
    BY <1>2, <1>4, <1>6, <1>7, <1>8, <1>12, <2>1 DEF Holds
  <2>2. CASE fd # current
    BY <1>2, <1>7, <1>12, <2>2 DEF Holds
  <2> QED
    BY <2>1, <2>2
<1>13. ASSUME pc["tcp_func"] = "recv"
       PROVE  recvFd \in Fd
  BY <1>13 DEF LinkInv, SocketInv, WaitsOnASocket
<1>14. ASSUME pc["tcp_func"] = "recv", sock \notin {NoSock, recvFd}, Live(sock)
       PROVE  /\ current # recvFd
              /\ Holds(sock)' => unread'[recvFd].to <= unread'[sock].from
  <2>1. sock \in Fd /\ recvFd \in Fd
    BY <1>13, <1>14 DEF LinkInv, LinkTypeOK
  <2>2. current # recvFd /\ (Holds(sock) => unread[recvFd].to <= unread[sock].from)
    BY <1>14 DEF LinkInv, OrderInv
  <2>3. unread'[recvFd] = unread[recvFd] /\ unread[recvFd].to <= old
    BY <1>7, <1>8, <2>1, <2>2
  <2>4. CASE sock = current
    BY <1>6, <1>7, <1>8, <2>1, <2>2, <2>3, <2>4 DEF Holds
  <2>5. CASE sock # current
    BY <1>2, <1>7, <2>1, <2>2, <2>3, <2>5 DEF Holds
  <2> QED
    BY <2>2, <2>4, <2>5
<1>15. sock # NoSock => sock \in Fd
  BY DEF LinkInv, LinkTypeOK
<1>16. ASSUME sock # NoSock, Holds(sock)'
       PROVE  text'.to <= unread'[sock].from
  BY <1>2, <1>12, <1>15, <1>16 DEF LinkInv, OrderInv
<1>17. ASSUME pc["tcp_func"] = "recv", Holds(recvFd)'
       PROVE  text'.to <= unread'[recvFd].from
  BY <1>2, <1>12, <1>13, <1>17 DEF LinkInv, OrderInv
<1>18. OrderInv'
  BY <1>2, <1>10, <1>11, <1>14, <1>16, <1>17 DEF OrderInv, Live, new
<1> QED
  BY <1>1, <1>3, <1>9, <1>18 DEF LinkInv

\* The host drops its connections.
LEMMA HostStopsInv ==
  ASSUME LinkInv, HostStops
  PROVE  LinkInv'
<1> USE DEF tcpVars, mainVars, socketVars, hostVars
<1>1. LinkTypeOK'
  BY OutsideTypes DEF LinkInv
<1>2. UNCHANGED <<sock, unread, text, sent, races, recvFd, pc>> /\ current' = NoSock
  BY DEF HostStops
<1>3. \A fd \in Fd : /\ fds'[fd] = "closed" <=> fds[fd] = "closed"
                     /\ Live(fd)' <=> Live(fd)
  BY DEF HostStops, Live
<1>4. LostInv'
  BY <1>2, <1>3, LostSame DEF LinkInv
<1>5. SocketInv'
  BY <1>2, <1>3 DEF LinkInv, SocketInv, WaitsOnASocket, Live
<1>6. pc["tcp_func"] = "recv" => recvFd \in Fd
  BY DEF LinkInv, SocketInv, WaitsOnASocket
<1>7. sock # NoSock => sock \in Fd
  BY DEF LinkInv, LinkTypeOK
<1>8. OrderInv'
  BY <1>2, <1>3, <1>6, <1>7, NoSockIsNoFd DEF LinkInv, OrderInv, Holds
<1> QED
  BY <1>1, <1>4, <1>5, <1>8 DEF LinkInv

\* connect.
LEMMA ConnectInv ==
  ASSUME LinkInv, NEW thread \in Threads, Connect(thread)
  PROVE  LinkInv'
<1> USE DEF tcpVars, mainVars, socketVars, hostVars
<1>1. LinkTypeOK'
  BY SetupTypes DEF LinkInv, Setup
<1>2. UNCHANGED <<sock, unread, text, sent, races, recvFd>>
  BY DEF Connect
<1>3. /\ pc[thread] = "connect"
      /\ pc'[thread] \in {"receive", "exit_app", "setup"}
      /\ thread = "tcp_func" => pc'[thread] = "receive"
      /\ \A other \in Threads \ {thread} : pc'[other] = pc[other]
  BY Returns DEF Connect, LinkInv
<1>4. \A fd \in Fd : /\ fds'[fd] = "closed" <=> fds[fd] = "closed"
                     /\ Live(fd) => Live(fd)' /\ fds'[fd] = fds[fd]
  BY DEF Connect, ConnectSucceeds, StateOf, Live, LinkInv, LinkTypeOK
<1>5. LostInv'
  BY <1>2, <1>3, <1>4, LostSame DEF LinkInv, Without, Threads
<1>6. pc'["tcp_func"] = "recv" => pc["tcp_func"] = "recv"
  BY <1>3 DEF Threads
<1>7. \/ UNCHANGED <<fds, current>>
      \/ /\ sock \in Fd /\ fds[sock] = "fresh" /\ current' = sock
         /\ fds'[sock] = "connected"
         /\ \A fd \in Fd \ {sock} : fds'[fd] = fds[fd]
  BY DEF Connect, ConnectSucceeds, StateOf, LinkInv, LinkTypeOK
<1>8. SocketInv'
  BY <1>2, <1>4, <1>6, <1>7 DEF LinkInv, SocketInv, WaitsOnASocket, Live, LinkTypeOK
<1>9. CASE UNCHANGED <<fds, current>>
  BY <1>1, <1>2, <1>5, <1>6, <1>9, OrderSame DEF LinkInv
<1>10. CASE sock \in Fd /\ fds[sock] = "fresh" /\ current' = sock
  <2>1. unread[sock] = NoBytes /\ ~ Holds(sock)
    BY <1>10 DEF LinkInv, SocketInv, Live, Holds, NoBytes
  <2>2. OrderInv'
    BY <1>2, <1>6, <1>10, <2>1 DEF LinkInv, OrderInv, Holds
  <2> QED
    BY <1>1, <1>5, <1>8, <2>2 DEF LinkInv
<1> QED
  BY <1>7, <1>9, <1>10

-----------------------------------------------------------------------------
(***************************************************************************)
(* Sockets that are created, closed and forgotten.                         *)
(***************************************************************************)

\* A thread looks whether there is a socket; both find none at the same time
\* only at the price of a race.
LEMMA CheckSockInv ==
  ASSUME LinkInv, NEW thread \in Threads, CheckSock(thread)
  PROVE  LinkInv'
<1> USE DEF tcpVars, mainVars, socketVars, hostVars
<1>1. LinkTypeOK'
  BY SetupTypes DEF LinkInv, Setup
<1>2. UNCHANGED <<sock, fds, unread, text, current, sent, recvFd>>
  BY DEF CheckSock
<1>3. /\ pc[thread] = "check"
      /\ pc'[thread] = IF sock = NoSock THEN "socket" ELSE "address"
      /\ \A other \in Threads \ {thread} : pc'[other] = pc[other]
  BY GotoMoves DEF CheckSock, MainPoints, TcpPoints, SetupPoints, LinkInv
<1>4. pc'["tcp_func"] = "recv" => pc["tcp_func"] = "recv"
  BY <1>3 DEF Threads
<1>5. SocketInv' /\ OrderInv'
  BY <1>2, <1>4, OrderSame DEF LinkInv
<1>6. /\ races \in Nat
      /\ races' = IF Race(thread) /\ races < MaxFd THEN races + 1 ELSE races
      /\ races <= MaxFd
  BY BoundsAssumption DEF CheckSock, LinkInv, LinkTypeOK
<1>7. Lost' = Lost /\ (NoneLeft' <=> NoneLeft) /\ StateOf(sock)' = StateOf(sock)
  BY <1>2 DEF Lost, NoneLeft, StateOf
<1>8. Cardinality(Lost) \in Nat /\ Cardinality(Lost) <= MaxFd
  BY LostIsFinite
<1>9. /\ pc'["main"] = "socket" /\ pc'["tcp_func"] \in Without => sock' = NoSock
      /\ pc'["main"] = "socket" /\ pc'["tcp_func"] = "sock = -1" => StateOf(sock)' = "closed"
      /\ sock' = NoSock /\ pc'["tcp_func"] \notin Without => Lost' = {} \/ NoneLeft'
  BY <1>2, <1>3, <1>7 DEF LinkInv, LostInv, Without, Threads, StateOf
<1>10. Cardinality(Lost') <= races' + 1 /\ (MayLose' => Cardinality(Lost') <= races')
  <2>1. CASE Race(thread)
    <3>1. Cardinality(Lost) <= races + 1
      BY <1>6, <1>8 DEF LinkInv, LostInv
    <3> QED
      BY <1>6, <1>7, <1>8, <2>1, <3>1, BoundsAssumption
  <2>2. CASE ~ Race(thread) /\ (MayLose' => MayLose)
    BY <1>6, <1>7, <1>8, <2>2 DEF LinkInv, LostInv
  <2>3. CASE ~ Race(thread) /\ MayLose' /\ ~ MayLose
    <3>1. thread = "main" /\ sock = NoSock /\ pc["tcp_func"] \notin Without /\ ~ NoneLeft
      BY <1>2, <1>3, <1>7, <2>3 DEF MayLose, Race, Threads, Without, LinkInv, LostInv
    <3>2. Lost = {}
      BY <3>1 DEF LinkInv, LostInv
    <3>3. Cardinality(Lost') = 0
      BY <1>7, <3>2, FS_EmptySet
    <3> QED
      BY <1>6, <2>3, <3>3
  <2> QED
    BY <2>1, <2>2, <2>3
<1>11. LostInv'
  BY <1>9, <1>10 DEF LostInv
<1> QED
  BY <1>1, <1>5, <1>11 DEF LinkInv

\* A thread creates a socket: the order of the bytes.
LEMMA CreateSocketOrder ==
  ASSUME LinkInv, NEW thread \in Threads, CreateSocket(thread)
  PROVE  SocketInv' /\ OrderInv'
<1> USE DEF tcpVars, mainVars, socketVars, hostVars
<1>1. UNCHANGED <<unread, text, current, sent, recvFd>>
  BY DEF CreateSocket
<1>2. pc'["tcp_func"] = "recv" => pc["tcp_func"] = "recv"
  <2>1. /\ pc'[thread] = "address"
        /\ \A other \in Threads \ {thread} : pc'[other] = pc[other]
    BY GotoMoves DEF CreateSocket, MainPoints, TcpPoints, SetupPoints, LinkInv
  <2> QED
    BY <2>1 DEF Threads
<1>3. PICK new \in Fd \cup {NoSock} :
        /\ SocketGives(new)
        /\ sock' = new
        /\ fds' = [fd \in Fd |-> IF fd = new THEN "fresh" ELSE fds[fd]]
  BY DEF CreateSocket
<1>4. new \in Fd => fds[new] = "closed" /\ ~ Live(new) /\ fds'[new] = "fresh"
  BY <1>3, NoSockIsNoFd DEF SocketGives, Live
<1>5. \A fd \in Fd : \/ fds'[fd] = fds[fd]
                     \/ fds[fd] = "closed" /\ fds'[fd] = "fresh"
  BY <1>3, <1>4
<1>6. \A fd \in Fd : Live(fd) <=> Live(fd)'
  BY <1>5 DEF Live
<1>7. SocketInv'
  BY <1>1, <1>2, <1>5, <1>6 DEF LinkInv, SocketInv, WaitsOnASocket, Live, LinkTypeOK
<1>8. new \in Fd => ~ Holds(new) /\ ~ Live(new)'
  BY <1>4, <1>6 DEF LinkInv, SocketInv, Holds, NoBytes
<1>9. OrderInv'
  BY <1>1, <1>2, <1>3, <1>8 DEF LinkInv, OrderInv, Holds
<1> QED
  BY <1>7, <1>9

\* A thread creates a socket: what is lost.
LEMMA CreateSocketLost ==
  ASSUME LinkInv, NEW thread \in Threads, CreateSocket(thread)
  PROVE  LostInv'
<1> USE DEF tcpVars, mainVars, socketVars, hostVars
<1>1. races' = races /\ races \in Nat /\ sock \in Fd \cup {NoSock}
  BY DEF CreateSocket, LinkInv, LinkTypeOK
<1>2. /\ pc[thread] = "socket" /\ pc'[thread] = "address"
      /\ \A other \in Threads \ {thread} : pc'[other] = pc[other]
  BY GotoMoves DEF CreateSocket, MainPoints, TcpPoints, SetupPoints, LinkInv
<1>3. PICK new \in Fd \cup {NoSock} :
        /\ SocketGives(new)
        /\ sock' = new
        /\ fds' = [fd \in Fd |-> IF fd = new THEN "fresh" ELSE fds[fd]]
  BY DEF CreateSocket
<1>4. \A fd \in Fd : fd # new => (fds'[fd] = "closed" <=> fds[fd] = "closed")
  BY <1>3
<1>5. /\ Lost' \subseteq Lost \cup {sock}
      /\ StateOf(sock) = "closed" => Lost' \subseteq Lost
  <2>1. ASSUME NEW fd \in Lost'
        PROVE  fd \in Fd /\ fds[fd] # "closed"
    BY <1>3, <1>4 DEF Lost
  <2>2. ASSUME NEW fd \in Lost', fd # sock
        PROVE  fd \in Lost
    BY <2>1, <2>2 DEF Lost
  <2>3. ASSUME NEW fd \in Lost', StateOf(sock) = "closed"
        PROVE  fd # sock
    BY <2>1, <2>3, NoSockIsNoFd DEF StateOf
  <2> QED
    BY <2>2, <2>3
<1>6. /\ Cardinality(Lost) \in Nat /\ Cardinality(Lost') \in Nat
      /\ Cardinality(Lost') <= Cardinality(Lost) + 1
      /\ StateOf(sock) = "closed" => Cardinality(Lost') <= Cardinality(Lost)
  BY <1>5, LostIsFinite, OneMore
<1>7. sock' = NoSock => NoneLeft'
  BY <1>3, <1>4, NoSockIsNoFd DEF SocketGives, NoneLeft
<1>8. /\ pc'["main"] = "socket" /\ pc'["tcp_func"] \in Without => sock' = NoSock
      /\ pc'["main"] = "socket" /\ pc'["tcp_func"] = "sock = -1" => StateOf(sock)' = "closed"
      /\ sock' = NoSock /\ pc'["tcp_func"] \notin Without => Lost' = {} \/ NoneLeft'
  BY <1>2, <1>7 DEF Threads, Without
<1>9. Cardinality(Lost') <= races' + 1 /\ (MayLose' => Cardinality(Lost') <= races')
  <2>1. CASE StateOf(sock) = "closed" /\ (MayLose' => MayLose)
    BY <1>1, <1>6, <2>1 DEF LinkInv, LostInv
  <2>2. CASE MayLose /\ ~ MayLose'
    <3>1. Cardinality(Lost) <= races
      BY <2>2 DEF LinkInv, LostInv
    <3> QED
      BY <1>1, <1>6, <2>2, <3>1
  <2>3. CASE StateOf(sock) = "closed" /\ MayLose' /\ ~ MayLose
    <3>1. thread = "tcp_func" => FALSE
      BY <1>2, <2>3 DEF MayLose, Threads, Without
    <3>2. thread = "main" /\ pc["tcp_func"] = "sock = -1" /\ sock' # NoSock
      BY <1>2, <2>3, <3>1 DEF MayLose, Threads, Without, StateOf
    <3>3. sock = NoSock /\ NoneLeft
      BY <1>2, <2>3, <3>2 DEF MayLose, Without
    <3> QED
      BY <1>3, <3>2, <3>3 DEF SocketGives, NoneLeft
  <2>4. CASE StateOf(sock) # "closed"
    <3>1. sock # NoSock
      BY <2>4 DEF StateOf
    <3>2. ~ (pc["main"] = "socket" /\ pc["tcp_func"] \in Without)
          /\ ~ (pc["main"] = "socket" /\ pc["tcp_func"] = "sock = -1")
      BY <2>4, <3>1 DEF LinkInv, LostInv
    <3>3. MayLose
      BY <1>2, <3>1, <3>2 DEF MayLose, Threads, Without
    <3>4. ~ MayLose'
      BY <1>2, <3>2 DEF MayLose, Threads, Without
    <3> QED
      BY <2>2, <3>3, <3>4
  <2> QED
    BY <2>1, <2>2, <2>3, <2>4
<1> QED
  BY <1>8, <1>9 DEF LostInv

\* TCPClient::exit: the socket is closed.
LEMMA CloseSockInv ==
  ASSUME LinkInv, CloseSock
  PROVE  LinkInv'
<1> USE DEF tcpVars, mainVars, socketVars, hostVars
<1>1. LinkTypeOK'
  BY TcpTypes DEF LinkInv
<1>2. UNCHANGED <<sock, text, sent, races, recvFd>>
  BY DEF CloseSock
<1>3. /\ pc["tcp_func"] = "exit" /\ pc'["tcp_func"] = "sock = -1"
      /\ pc'["main"] = pc["main"]
  BY GotoMoves DEF CloseSock, TcpPoints, Threads, LinkInv
<1>4. \A fd \in Fd : /\ fds'[fd] = IF fd = sock THEN "closed" ELSE fds[fd]
                     /\ unread'[fd] = IF fd = sock THEN NoBytes ELSE unread[fd]
  BY DEF CloseSock
<1>5. SocketInv'
  <2>1. current' # NoSock => current' \in Fd /\ current' = current /\ current # sock
    BY DEF CloseSock, LinkInv, LinkTypeOK
  <2> QED
    BY <1>3, <1>4, <2>1 DEF LinkInv, SocketInv, WaitsOnASocket, Live
<1>6. OrderInv'
  <2>1. sent * MessageLength \in Nat
    BY Products, LengthAssumption DEF LinkInv, LinkTypeOK
  <2>2. NoBytes.from = 0 /\ NoBytes.to = 0
    BY DEF NoBytes
  <2>3. \A fd \in Fd : unread'[fd].from <= unread'[fd].to
                       /\ unread'[fd].to <= sent * MessageLength
    BY <1>4, <2>1, <2>2 DEF LinkInv, OrderInv
  <2>4. sock # NoSock => ~ Holds(sock)'
    BY <1>2, <1>4, <2>2 DEF Holds, LinkInv, LinkTypeOK
  <2> QED
    BY <1>2, <1>3, <2>3, <2>4 DEF LinkInv, OrderInv
<1>7. Lost' = Lost /\ StateOf(sock)' = "closed"
  BY <1>2, <1>4 DEF Lost, StateOf, LinkInv, LinkTypeOK
<1>8. sock = NoSock => (NoneLeft' <=> NoneLeft)
  BY <1>4, NoSockIsNoFd DEF NoneLeft
<1>9. MayLose' => MayLose
  BY <1>2, <1>3, <1>7, <1>8 DEF MayLose, Without
<1>10. Cardinality(Lost) \in Nat /\ races \in Nat
  BY LostIsFinite DEF LinkInv, LinkTypeOK
<1>11. LostInv'
  BY <1>2, <1>3, <1>7, <1>8, <1>9, <1>10 DEF LinkInv, LostInv, Without
<1> QED
  BY <1>1, <1>5, <1>6, <1>11 DEF LinkInv

\* TCPClient::exit: the socket is forgotten.
LEMMA ForgetSockInv ==
  ASSUME LinkInv, ForgetSock
  PROVE  LinkInv'
<1> USE DEF tcpVars, mainVars, socketVars, hostVars
<1>1. LinkTypeOK'
  BY TcpTypes DEF LinkInv
<1>2. UNCHANGED <<fds, unread, text, current, sent, races, recvFd>> /\ sock' = NoSock
  BY DEF ForgetSock
<1>3. /\ pc["tcp_func"] = "sock = -1" /\ pc'["tcp_func"] = "setup"
      /\ pc'["main"] = pc["main"]
  BY GotoMoves DEF ForgetSock, TcpPoints, SetupPoints, Threads, LinkInv
<1>4. SocketInv' /\ OrderInv'
  BY <1>2, <1>3 DEF LinkInv, SocketInv, OrderInv, WaitsOnASocket, Live
<1>5. ~ MayLose'
  BY <1>2, <1>3 DEF MayLose, Without
<1>6. /\ Lost' \subseteq Lost \cup {sock}
      /\ StateOf(sock) = "closed" => Lost' \subseteq Lost
  BY <1>2 DEF Lost, StateOf
<1>7. /\ Cardinality(Lost) \in Nat /\ Cardinality(Lost') \in Nat /\ races \in Nat
      /\ Cardinality(Lost') <= Cardinality(Lost) + 1
      /\ StateOf(sock) = "closed" => Cardinality(Lost') <= Cardinality(Lost)
  <2>1. races \in Nat
    BY DEF LinkInv, LinkTypeOK
  <2> QED
    BY <1>6, <2>1, LostIsFinite, OneMore
<1>8. StateOf(sock) # "closed" => MayLose
  BY <1>3 DEF MayLose, LinkInv, LostInv
<1>9. Cardinality(Lost') <= races' + 1
  <2>1. /\ Cardinality(Lost) <= races + 1
        /\ MayLose => Cardinality(Lost) <= races
    BY DEF LinkInv, LostInv
  <2> QED
    BY <1>2, <1>7, <1>8, <2>1
<1>10. LostInv'
  BY <1>2, <1>3, <1>5, <1>9 DEF LostInv, Without
<1> QED
  BY <1>1, <1>4, <1>10 DEF LinkInv

-----------------------------------------------------------------------------
(***************************************************************************)
(* The theorems.                                                           *)
(***************************************************************************)

\* The program has created its threads.
LEMMA LinkInitInv == LinkInit => LinkInv
<1> SUFFICES ASSUME LinkInit PROVE LinkInv
  OBVIOUS
<1> USE DEF LinkInit
<1>1. LinkTypeOK
  <2>1. /\ sent \in 0 .. MaxMessages /\ drops \in 0 .. MaxDrops /\ races \in 0 .. MaxFd
    BY BoundsAssumption
  <2>2. fds \in [Fd -> FdStates] /\ unread \in [Fd -> Bytes] /\ text \in Bytes
    BY DEF FdStates, Bytes, NoBytes
  <2>3. /\ pc \in [Threads -> MainPoints \cup TcpPoints]
        /\ pc["main"] \in MainPoints /\ pc["tcp_func"] \in TcpPoints
    BY DEF Threads, MainPoints, TcpPoints, SetupPoints
  <2>4. callPort \in [Threads -> BOOLEAN]
    OBVIOUS
  <2> QED
    BY <2>1, <2>2, <2>3, <2>4 DEF LinkTypeOK
<1>2. pc["main"] = "ip_addr" /\ pc["tcp_func"] = "receive"
  BY DEF Threads
<1>3. SocketInv /\ OrderInv
  <2>1. sent * MessageLength = 0 /\ NoBytes.from = 0 /\ NoBytes.to = 0
    BY LengthAssumption DEF NoBytes
  <2> QED
    BY <1>2, <2>1 DEF SocketInv, OrderInv, WaitsOnASocket
<1>4. LostInv
  <2>1. Lost = {} /\ Cardinality(Lost) = 0
    BY FS_EmptySet DEF Lost
  <2>2. ~ MayLose
    BY <1>2 DEF MayLose, Without
  <2>3. Cardinality(Lost) <= races + 1
    BY <2>1
  <2>4. pc["main"] # "socket"
    BY <1>2
  <2> QED
    BY <2>1, <2>2, <2>3, <2>4 DEF LostInv
<1> QED
  BY <1>1, <1>3, <1>4 DEF LinkInv

\* Every step keeps the invariant.
LEMMA LinkStepInv ==
  ASSUME LinkInv, [LinkNext]_linkVars
  PROVE  LinkInv'
<1>1. ASSUME NEW thread \in Threads, Setup(thread)
      PROVE  LinkInv'
  <2>1. CASE CreateSocket(thread)
    BY <2>1, SetupTypes, CreateSocketOrder, CreateSocketLost DEF LinkInv, Setup
  <2> QED
    BY <1>1, <2>1, AddressInv, CheckSockInv, ConnectInv DEF Setup
<1>2. CASE TcpThread
  BY <1>1, <1>2, ReceiveInv, ReceiveBytesInv, CloseSockInv, ForgetSockInv
     DEF TcpThread, Threads
<1>3. CASE MainThread
  BY <1>1, <1>3, MainInv DEF MainThread, Threads
<1> QED
  BY <1>2, <1>3, HostStopsInv, HostSendsInv, QuietInv DEF LinkNext

\* The invariant holds in every state.
THEOREM LinkInvariant == LinkSpec => []LinkInv
  BY LinkInitInv, LinkStepInv, PTL DEF LinkSpec

\* The descriptor tcp_func waits on stays that of its connection, whatever main
\* puts in the place of sock.
THEOREM RecvWaitsOnASocket == LinkSpec => []WaitsOnASocket
<1>1. LinkInv => WaitsOnASocket
  BY DEF LinkInv, SocketInv
<1> QED
  BY <1>1, LinkInvariant, PTL

\* Every descriptor that is lost is lost by a race of the two threads, but for
\* one at the start.
THEOREM OnlyRacesLose == LinkSpec => []LostByRaces
<1>1. LinkInv => LostByRaces
  BY LostIsFinite DEF LinkInv, LinkTypeOK, LostInv, LostByRaces
<1> QED
  BY <1>1, LinkInvariant, PTL

\* No byte of the host is taken twice or out of order.
THEOREM BytesKeepTheirOrder == LinkSpec => BytesInOrder
<1>1. LinkInv /\ [LinkNext]_linkVars => [text' # text => text'.from >= text.to]_linkVars
  <2> SUFFICES ASSUME LinkInv, LinkNext, text' # text
               PROVE  text'.from >= text.to
    OBVIOUS
  <2> USE DEF tcpVars, mainVars, socketVars, hostVars
  <2>1. CASE TcpThread /\ ~ ReceiveBytes
    BY <2>1 DEF TcpThread, Receive, ReceiveEnd, CloseSock, ForgetSock, Setup,
                CallSetup, CheckSock, CreateSocket, FillAddress, ResolveFails, SetupReturns, Connect
  <2>2. CASE MainThread
    BY <2>2 DEF MainThread, SetIpAddr, SetPort, ResetExitApp, RegisterHandler,
                EndLoop, Return, Setup, CallSetup, CheckSock, CreateSocket,
                FillAddress, ResolveFails, SetupReturns, Connect
  <2>3. CASE HostStarts \/ HostStops \/ HostSends \/ Sigterm \/ IrThreadFails
    BY <2>3 DEF HostStarts, HostStops, HostSends, Sigterm, IrThreadFails
  <2>4. CASE ReceiveBytes
    BY <2>4, ReceiveBytesInv
  <2> QED
    BY <2>1, <2>2, <2>3, <2>4 DEF LinkNext
<1> QED
  BY <1>1, LinkInvariant, PTL DEF LinkSpec, BytesInOrder

-----------------------------------------------------------------------------
(***************************************************************************)
(* SIGTERM.                                                                *)
(***************************************************************************)

\* exit_app is set by the handler only, which main registers when it will not
\* reset exit_app any more; main returns after it has closed the motor.
SignalInv ==
  /\ exit_app => registered
  /\ registered => pc["main"] \in {"loop", "return"}
  /\ pc["main"] = "return" => ~ motorOpen

\* In setup main is before the registration, and stays there.
LEMMA SetupBeforeSignals ==
  ASSUME LinkTypeOK, SignalInv, NEW thread \in Threads, Setup(thread)
  PROVE  /\ SignalInv' /\ UNCHANGED <<exit_app, registered, motorOpen>>
         /\ process' \in {process, "aborted"}
<1> USE DEF mainVars
<1>1. /\ UNCHANGED <<exit_app, registered, motorOpen>>
      /\ process' \in {process, "aborted"}
  BY DEF Setup, CallSetup, CheckSock, CreateSocket, FillAddress, ResolveFails, SetupReturns, Connect
<1>2. CASE thread = "tcp_func"
  <2>1. pc'["main"] = pc["main"]
    BY <1>2 DEF Setup, CallSetup, CheckSock, CreateSocket, FillAddress, ResolveFails, SetupReturns, Connect, Goto, LinkTypeOK, Threads
  <2> QED
    BY <1>1, <2>1 DEF SignalInv
<1>3. CASE thread = "main"
  <2>1. pc["main"] \in SetupPoints
    BY <1>3 DEF Setup, CallSetup, CheckSock, CreateSocket, FillAddress, ResolveFails, SetupReturns, Connect, SetupPoints
  <2>2. pc'["main"] \in SetupPoints \cup {"exit_app"}
    BY <1>3, <2>1
    DEF Setup, CallSetup, CheckSock, CreateSocket, FillAddress, ResolveFails, SetupReturns, Connect, Goto, LinkTypeOK, Threads, SetupPoints
  <2>3. ~ registered /\ ~ exit_app
    BY <2>1 DEF SignalInv, SetupPoints
  <2> QED
    BY <1>1, <2>2, <2>3 DEF SignalInv, SetupPoints
<1> QED
  BY <1>2, <1>3 DEF Threads

\* Every step keeps SignalInv and the signal, and ends the program with the motor
\* closed.
LEMMA SignalStep ==
  ASSUME LinkTypeOK, SignalInv, [LinkNext]_linkVars
  PROVE  /\ SignalInv'
         /\ exit_app => exit_app'
         /\ process' = "terminated" => process = "terminated" \/ ~ motorOpen'
<1> USE DEF tcpVars, mainVars, socketVars, hostVars
<1>1. CASE process = "running" /\ \E thread \in Threads : Setup(thread)
  BY <1>1, SetupBeforeSignals
<1>2. CASE Receive \/ ReceiveBytes \/ ReceiveEnd \/ CloseSock \/ ForgetSock
  <2>1. pc'["main"] = pc["main"]
    BY <1>2 DEF Receive, ReceiveBytes, ReceiveEnd, CloseSock, ForgetSock, Goto, LinkTypeOK, Threads
  <2>2. UNCHANGED mainVars
    BY <1>2 DEF Receive, ReceiveBytes, ReceiveEnd, CloseSock, ForgetSock
  <2> QED
    BY <2>1, <2>2 DEF SignalInv
<1>3. CASE process = "running" /\ (SetIpAddr \/ SetPort \/ ResetExitApp \/ RegisterHandler)
  <2>1. /\ ~ registered /\ ~ exit_app /\ exit_app' = FALSE /\ process' = process
        /\ motorOpen' = motorOpen
    BY <1>3 DEF SetIpAddr, SetPort, ResetExitApp, RegisterHandler, SignalInv, LinkTypeOK
  <2>2. CASE RegisterHandler
    <3>1. pc'["main"] = "loop"
      BY <2>2 DEF RegisterHandler, Goto, LinkTypeOK, Threads
    <3> QED
      BY <2>1, <3>1, <1>3 DEF SignalInv
  <2>3. CASE SetIpAddr \/ SetPort \/ ResetExitApp
    <3>1. pc'["main"] # "return" /\ registered' = registered
      BY <2>3 DEF SetIpAddr, SetPort, ResetExitApp, Goto, LinkTypeOK, Threads
    <3> QED
      BY <2>1, <3>1, <1>3 DEF SignalInv
  <2> QED
    BY <1>3, <2>2, <2>3
<1>4. CASE process = "running" /\ EndLoop
  <2>1. pc'["main"] = "return"
    BY <1>4 DEF EndLoop, Goto, LinkTypeOK, Threads
  <2> QED
    BY <1>4, <2>1 DEF EndLoop, SignalInv
<1>5. CASE Return
  BY <1>5 DEF Return, SignalInv
<1>6. CASE Sigterm \/ IrThreadFails
  BY <1>6 DEF Sigterm, IrThreadFails, SignalInv
<1>7. CASE HostStarts \/ HostStops \/ HostSends \/ UNCHANGED linkVars
  BY <1>7 DEF HostStarts, HostStops, HostSends, linkVars, SignalInv
<1> QED
  BY <1>1, <1>2, <1>3, <1>4, <1>5, <1>6, <1>7 DEF LinkNext, TcpThread, MainThread, Threads

\* exit_app, once set, stays set, although main resets it: a SIGTERM that does not
\* kill the process is not lost; and the process ends by itself only with the
\* motor closed.
THEOREM SigtermIsNotLost == LinkSpec => SigtermIsKept
<1>1. LinkInit => SignalInv
  BY DEF LinkInit, SignalInv, Threads
<1>2. LinkTypeOK /\ SignalInv /\ [LinkNext]_linkVars => SignalInv'
  BY SignalStep
<1>3. LinkTypeOK /\ SignalInv /\ [LinkNext]_linkVars =>
        [ /\ exit_app => exit_app'
          /\ process' = "terminated" => ~ motorOpen' ]_linkVars
  <2> SUFFICES ASSUME LinkTypeOK, SignalInv, LinkNext
               PROVE  /\ exit_app => exit_app'
                      /\ process' = "terminated" => ~ motorOpen'
    OBVIOUS
  <2>1. process = "running"
    BY DEF LinkNext, TcpThread, MainThread, HostStarts, HostStops, HostSends,
           Sigterm, IrThreadFails
  <2> QED
    BY <2>1, SignalStep
<1>4. LinkInv => LinkTypeOK
  BY DEF LinkInv
<1> QED
  BY <1>1, <1>2, <1>3, <1>4, LinkInvariant, PTL DEF LinkSpec, SigtermIsKept
=============================================================================
