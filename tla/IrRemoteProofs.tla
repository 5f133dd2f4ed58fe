--------------------------- MODULE IrRemoteProofs ---------------------------
(***************************************************************************)
(* The client library of LIRC puts lines together again, for every size of *)
(* its packets, every length of a line that fits into one, and whenever    *)
(* ir_func reads.                                                          *)
(***************************************************************************)
EXTENDS IrRemote, SequenceTheorems, FiniteSetTheorems, TLAPS

\* One line after the other, each from its first byte to its newline.
Intact(s) ==
  /\ s # << >> => s[1].at = 1 /\ s[Len(s)].newline
  /\ \A i, j \in 1 .. Len(s) :
       i < j /\ (\A k \in i .. j - 1 : ~ s[k].newline) =>
         s[j].line = s[i].line /\ s[j].at = s[i].at + (j - i)
  /\ \A i \in 1 .. Len(s) - 1 :
       s[i].newline => s[i + 1].line = s[i].line + 1 /\ s[i + 1].at = 1

\* The lines fit into a packet, and are among the first n.
Fits(s, n) ==
  \A i \in 1 .. Len(s) : s[i].at <= PACKET_SIZE /\ s[i].line \in 1 .. n

-----------------------------------------------------------------------------
\* A set of natural numbers has a least one: the sets 1 .. n are well founded.
LEMMA LeastOf ==
  ASSUME NEW S \in SUBSET Nat, S # {}
  PROVE  \E i \in S : \A j \in S : i <= j
<1> DEFINE T == {1 .. i : i \in S}
<1>1. T \subseteq FiniteSubsetsOf(Nat) /\ T # {}
  <2>1. ASSUME NEW i \in S
        PROVE  1 .. i \in FiniteSubsetsOf(Nat)
    <3>1. i \in Nat /\ i \in Int /\ 1 \in Int
      OBVIOUS
    <3>2. IsFiniteSet(1 .. i)
      BY <3>1, FS_Interval
    <3>3. 1 .. i \in SUBSET Nat
      BY <3>1
    <3> QED
      BY <3>2, <3>3 DEF FiniteSubsetsOf
  <2> QED
    BY <2>1
<1>2. PICK x \in T : \A y \in T : ~ (<<y, x>> \in StrictSubsetOrdering(Nat))
  BY <1>1, FS_StrictSubsetOrderingWellFounded, WFMin
<1>3. PICK i \in S : x = 1 .. i
  OBVIOUS
<1>4. ASSUME NEW j \in S, j < i
      PROVE  FALSE
  <2>1. 1 .. j \subseteq 1 .. i /\ i \in 1 .. i /\ i \notin 1 .. j
    BY <1>4
  <2>2. <<1 .. j, 1 .. i>> \in StrictSubsetOrdering(Nat)
    BY <2>1 DEF StrictSubsetOrdering
  <2> QED
    BY <1>2, <1>3, <2>2
<1> QED
  BY <1>4

\* The first newline is one, with none before it.
LEMMA LineEndIsFirst ==
  ASSUME NEW s \in Seq(Byte), HasLine(s)
  PROVE  /\ LineEnd(s) \in 1 .. Len(s)
         /\ s[LineEnd(s)].newline
         /\ \A j \in 1 .. LineEnd(s) - 1 : ~ s[j].newline
<1> DEFINE Newlines == {i \in 1 .. Len(s) : s[i].newline}
<1>1. Newlines \in SUBSET Nat /\ Newlines # {}
  BY DEF HasLine
<1>2. PICK i \in Newlines : \A j \in Newlines : i <= j
  BY <1>1, LeastOf
<1>3. \A j \in 1 .. i - 1 : ~ s[j].newline
  BY <1>2, LenProperties
<1> QED
  BY <1>2, <1>3 DEF LineEnd

\* A sequence is cut in two.
LEMMA Cut ==
  ASSUME NEW s \in Seq(Byte), NEW n \in 0 .. Len(s)
  PROVE  /\ SubSeq(s, 1, n) \in Seq(Byte) /\ Len(SubSeq(s, 1, n)) = n
         /\ \A i \in 1 .. n : SubSeq(s, 1, n)[i] = s[i]
         /\ SubSeq(s, n + 1, Len(s)) \in Seq(Byte)
         /\ Len(SubSeq(s, n + 1, Len(s))) = Len(s) - n
         /\ SubSeq(s, 1, n) \o SubSeq(s, n + 1, Len(s)) = s
<1>1. Len(s) \in Nat /\ \A i \in 1 .. Len(s) : s[i] \in Byte
  BY LenProperties, ElementOfSeq
<1>2. /\ SubSeq(s, 1, n) \in Seq(Byte) /\ Len(SubSeq(s, 1, n)) = n
      /\ \A i \in 1 .. n : SubSeq(s, 1, n)[i] = s[i]
  BY <1>1, SubSeqProperties
<1>3. /\ SubSeq(s, n + 1, Len(s)) \in Seq(Byte)
      /\ Len(SubSeq(s, n + 1, Len(s))) = Len(s) - n
  BY <1>1, SubSeqProperties
<1>4. SubSeq(s, 1, n) \o SubSeq(s, n + 1, Len(s)) = SubSeq(s, 1, Len(s))
  <2>1. 1 \in 1 .. Len(s) + 1 /\ n \in 1 - 1 .. Len(s) /\ Len(s) \in n .. Len(s)
    BY <1>1
  <2> QED
    BY <2>1, ConcatAdjacentSubSeq
<1> QED
  BY <1>2, <1>3, <1>4, SubSeqFull

\* The bytes of a line.
LEMMA LineBytesType ==
  ASSUME NEW number \in Nat, NEW length \in 1 .. PACKET_SIZE
  PROVE  LineBytes(number, length) \in Seq(Byte) /\ Len(LineBytes(number, length)) = length
<1> DEFINE byte(i) == [line |-> number, at |-> i, newline |-> i = length]
<1>1. length \in Nat
  BY PacketAssumption
<1>2. \A i \in 1 .. length : byte(i) \in Byte
  BY <1>1 DEF Byte
<1>3. LineBytes(number, length) = [i \in 1 .. length |-> byte(i)]
  BY DEF LineBytes
<1> HIDE DEF byte
<1> QED
  BY <1>1, <1>2, <1>3

\* A byte of a line says which line, where in it, and whether it is the newline.
LEMMA LineByte ==
  ASSUME NEW number, NEW length, NEW i \in 1 .. length
  PROVE  /\ LineBytes(number, length)[i].line = number
         /\ LineBytes(number, length)[i].at = i
         /\ LineBytes(number, length)[i].newline <=> i = length
  BY DEF LineBytes

\* The bytes of a sequence and of what is appended to it.
LEMMA Joined ==
  ASSUME NEW s \in Seq(Byte), NEW u \in Seq(Byte)
  PROVE  /\ s \o u \in Seq(Byte) /\ Len(s) \in Nat /\ Len(u) \in Nat
         /\ Len(s \o u) = Len(s) + Len(u)
         /\ \A i \in 1 .. Len(s) : (s \o u)[i] = s[i]
         /\ \A i \in 1 .. Len(u) : (s \o u)[Len(s) + i] = u[i]
         /\ s # << >> <=> Len(s) > 0
         /\ s \o u # << >> <=> Len(s) + Len(u) > 0
<1>1. Len(s) \in Nat /\ Len(u) \in Nat
  BY LenProperties
<1>2. s \o u \in Seq(Byte) /\ Len(s \o u) = Len(s) + Len(u)
  BY ConcatProperties
<1>3. \A i \in 1 .. Len(s) : (s \o u)[i] = s[i]
  BY <1>1, ConcatProperties
<1>4. \A i \in 1 .. Len(u) : (s \o u)[Len(s) + i] = u[i]
  <2> SUFFICES ASSUME NEW i \in 1 .. Len(u)
               PROVE  (s \o u)[Len(s) + i] = u[i]
    OBVIOUS
  <2>1. Len(s) + i \in 1 .. Len(s) + Len(u) /\ ~ (Len(s) + i <= Len(s))
        /\ (Len(s) + i) - Len(s) = i
    BY <1>1
  <2> QED
    BY <2>1, ConcatProperties
<1>5. s # << >> <=> Len(s) > 0
  BY <1>1, EmptySeq
<1>6. s \o u # << >> <=> Len(s) + Len(u) > 0
  BY <1>1, <1>2, EmptySeq
<1> QED
  BY <1>1, <1>2, <1>3, <1>4, <1>5, <1>6

\* A stream that begins with a code, and goes on with the rest.
LEMMA CodeAndRest ==
  ASSUME NEW c \in Seq(Byte), NEW r \in Seq(Byte), NEW s, s = c \o r, c # << >>
  PROVE  /\ Len(c) \in Nat /\ Len(c) > 0 /\ Len(r) \in Nat
         /\ Len(s) = Len(c) + Len(r)
         /\ \A i \in 1 .. Len(c) : s[i] = c[i]
         /\ \A i \in 1 .. Len(r) : s[Len(c) + i] = r[i]
         /\ r # << >> => Len(r) > 0
         /\ s # << >>
<1>1. Len(c) \in Nat /\ Len(c) > 0 /\ Len(r) \in Nat /\ (r # << >> => Len(r) > 0)
  BY EmptySeq, LenProperties
<1>2. Len(s) = Len(c) + Len(r)
  BY Joined
<1>3. \A i \in 1 .. Len(c) : s[i] = c[i]
  BY Joined
<1>4. \A i \in 1 .. Len(r) : s[Len(c) + i] = r[i]
  BY Joined
<1>5. s # << >>
  BY <1>1, <1>2, EmptySeq
<1> QED
  BY <1>1, <1>2, <1>3, <1>4, <1>5

\* Concatenations of bytes may be regrouped.
LEMMA Regroup ==
  ASSUME NEW s \in Seq(Byte), NEW t \in Seq(Byte), NEW u \in Seq(Byte)
  PROVE  (s \o t) \o u = s \o (t \o u)
  BY ConcatAssociative

\* A line follows what is intact.
LEMMA IntactLine ==
  ASSUME NEW s, NEW number, NEW length, NEW t,
         s \in Seq(Byte), Intact(s), number \in Nat, length \in 1 .. PACKET_SIZE,
         s # << >> => s[Len(s)].line + 1 = number,
         t = s \o LineBytes(number, length)
  PROVE  Intact(t) /\ t # << >> /\ t[Len(t)].line = number
<1> DEFINE l == LineBytes(number, length)
<1>1. /\ l \in Seq(Byte) /\ Len(l) = length
      /\ \A i \in 1 .. length :
           l[i].line = number /\ l[i].at = i /\ (l[i].newline <=> i = length)
  <2>1. l \in Seq(Byte) /\ Len(l) = length
    BY LineBytesType
  <2>2. ASSUME NEW i \in 1 .. length
        PROVE  l[i].line = number /\ l[i].at = i /\ (l[i].newline <=> i = length)
    BY LineByte
  <2> QED
    BY <2>1, <2>2
<1> HIDE DEF l
<1> DEFINE n == Len(s)
<1>2. /\ n \in Nat /\ Len(t) = n + length /\ length \in Nat /\ length > 0
      /\ \A i \in 1 .. n : t[i] = s[i]
      /\ \A i \in 1 .. length : t[n + i] = l[i]
      /\ (s # << >> <=> n > 0) /\ t # << >>
  <2>1. t = s \o l
    BY DEF l
  <2>2. length \in Nat /\ length > 0
    BY PacketAssumption
  <2> HIDE DEF n
  <2>3. n \in Nat /\ Len(t) = n + length /\ (s # << >> <=> n > 0)
    <3>1. n \in Nat /\ (s # << >> <=> n > 0)
      BY <1>1, Joined DEF n
    <3>2. Len(s \o l) = Len(s) + Len(l)
      BY <1>1, Joined
    <3> QED
      BY <1>1, <2>1, <3>1, <3>2 DEF n
  <2>4. t # << >>
    BY <1>1, <2>1, <2>2, <2>3, Joined DEF n
  <2>5. /\ \A i \in 1 .. n : t[i] = s[i]
        /\ \A i \in 1 .. length : t[n + i] = l[i]
    BY <1>1, <2>1, Joined DEF n
  <2> QED
    BY <2>2, <2>3, <2>4, <2>5
<1> HIDE DEF n
<1>3. \A i \in n + 1 .. n + length :
        t[i].line = number /\ t[i].at = i - n /\ (t[i].newline <=> i = n + length)
  <2> SUFFICES ASSUME NEW i \in n + 1 .. n + length
               PROVE  t[i].line = number /\ t[i].at = i - n /\ (t[i].newline <=> i = n + length)
    OBVIOUS
  <2>1. i - n \in 1 .. length /\ n + (i - n) = i
    BY <1>2
  <2>2. t[i] = l[i - n]
    BY <1>2, <2>1
  <2> QED
    BY <1>1, <1>2, <2>1, <2>2
<1>4. n > 0 => s[1].at = 1 /\ s[n].newline /\ s[n].line + 1 = number
  BY <1>2 DEF Intact, n
<1>5. t[1].at = 1 /\ t[Len(t)].newline /\ t[Len(t)].line = number
  <2>1. t[Len(t)].newline /\ t[Len(t)].line = number
    BY <1>2, <1>3
  <2>2. CASE n = 0
    BY <1>2, <1>3, <2>2
  <2>3. CASE n > 0
    <3>1. t[1] = s[1]
      BY <1>2, <2>3
    <3> QED
      BY <1>4, <2>1, <2>3, <3>1
  <2> QED
    BY <1>2, <2>1, <2>2, <2>3
<1>6. ASSUME NEW i \in 1 .. Len(t), NEW j \in 1 .. Len(t), i < j,
             \A k \in i .. j - 1 : ~ t[k].newline
      PROVE  t[j].line = t[i].line /\ t[j].at = t[i].at + (j - i)
  <2>1. CASE j <= n
    <3>1. i \in 1 .. n /\ j \in 1 .. n
      BY <1>2, <1>6, <2>1
    <3>2. \A k \in i .. j - 1 : ~ s[k].newline
      <4> SUFFICES ASSUME NEW k \in i .. j - 1 PROVE ~ s[k].newline
        OBVIOUS
      <4>1. k \in 1 .. n
        BY <1>2, <3>1
      <4> QED
        BY <1>2, <1>6, <4>1
    <3>3. s[j].line = s[i].line /\ s[j].at = s[i].at + (j - i)
      BY <1>6, <3>1, <3>2 DEF Intact, n
    <3> QED
      BY <1>2, <3>1, <3>3
  <2>2. CASE i > n
    <3>1. i \in n + 1 .. n + length /\ j \in n + 1 .. n + length
      BY <1>2, <1>6, <2>2
    <3>2. /\ t[i].line = number /\ t[i].at = i - n
          /\ t[j].line = number /\ t[j].at = j - n
      BY <1>3, <3>1
    <3>3. j - n = (i - n) + (j - i)
      BY <1>2, <3>1
    <3> QED
      BY <3>2, <3>3
  <2>3. CASE i <= n /\ j > n
    <3>1. n \in i .. j - 1 /\ n \in 1 .. n /\ n > 0
      BY <1>2, <1>6, <2>3
    <3> QED
      BY <1>2, <1>4, <1>6, <3>1
  <2> QED
    BY <1>2, <2>1, <2>2, <2>3
<1>7. ASSUME NEW i \in 1 .. Len(t) - 1, t[i].newline
      PROVE  t[i + 1].line = t[i].line + 1 /\ t[i + 1].at = 1
  <2>1. CASE i < n
    <3>1. i \in 1 .. n - 1 /\ i \in 1 .. n /\ i + 1 \in 1 .. n
      BY <1>2, <2>1
    <3>2. s[i].newline
      BY <1>2, <1>7, <3>1
    <3>3. s[i + 1].line = s[i].line + 1 /\ s[i + 1].at = 1
      BY <3>1, <3>2 DEF Intact, n
    <3> QED
      BY <1>2, <3>1, <3>3
  <2>2. CASE i = n
    <3>1. n > 0 /\ n \in 1 .. n /\ n + 1 \in n + 1 .. n + length /\ n + 1 - n = 1
      BY <1>2, <2>2
    <3>2. t[n] = s[n] /\ t[n + 1].line = number /\ t[n + 1].at = 1
      BY <1>2, <1>3, <3>1
    <3> QED
      BY <1>4, <2>2, <3>1, <3>2
  <2>3. CASE i > n
    BY <1>2, <1>3, <1>7, <2>3
  <2> QED
    BY <1>2, <2>1, <2>2, <2>3
<1>8. Intact(t)
  <2>1. t # << >> => t[1].at = 1 /\ t[Len(t)].newline
    BY <1>5
  <2>2. \A i, j \in 1 .. Len(t) :
          i < j /\ (\A k \in i .. j - 1 : ~ t[k].newline) =>
            t[j].line = t[i].line /\ t[j].at = t[i].at + (j - i)
    BY <1>6
  <2>3. \A i \in 1 .. Len(t) - 1 :
          t[i].newline => t[i + 1].line = t[i].line + 1 /\ t[i + 1].at = 1
    BY <1>7
  <2> QED
    BY <2>1, <2>2, <2>3, Zenon DEF Intact
<1> QED
  BY <1>2, <1>5, <1>8

\* What follows a line is intact.
LEMMA IntactRest ==
  ASSUME NEW c \in Seq(Byte), NEW r \in Seq(Byte), c # << >>, c[Len(c)].newline,
         Intact(c \o r)
  PROVE  Intact(r)
<1> DEFINE s == c \o r
           n == Len(c)
<1>1. /\ n \in Nat /\ n > 0 /\ Len(r) \in Nat /\ Len(s) = n + Len(r)
      /\ (r # << >> <=> Len(r) > 0) /\ s # << >>
  BY Joined
<1>2. /\ \A i \in 1 .. n : s[i] = c[i]
      /\ \A i \in 1 .. Len(r) : s[n + i] = r[i]
  BY Joined
<1> HIDE DEF s, n
<1>3. /\ s[Len(s)].newline
      /\ \A i, j \in 1 .. Len(s) :
           i < j /\ (\A k \in i .. j - 1 : ~ s[k].newline) =>
             s[j].line = s[i].line /\ s[j].at = s[i].at + (j - i)
      /\ \A i \in 1 .. Len(s) - 1 :
           s[i].newline => s[i + 1].line = s[i].line + 1 /\ s[i + 1].at = 1
  BY <1>1, Zenon DEF Intact, s
<1>4. r # << >> => r[1].at = 1 /\ r[Len(r)].newline
  <2> SUFFICES ASSUME r # << >> PROVE r[1].at = 1 /\ r[Len(r)].newline
    OBVIOUS
  <2>1. n \in 1 .. Len(s) - 1 /\ 1 \in 1 .. Len(r) /\ Len(r) \in 1 .. Len(r) /\ n \in 1 .. n
    BY <1>1
  <2>2. s[n].newline
    BY <1>2, <2>1 DEF n
  <2>3. s[n + 1] = r[1] /\ s[Len(s)] = r[Len(r)]
    BY <1>1, <1>2, <2>1
  <2> QED
    BY <1>3, <2>1, <2>2, <2>3
<1>5. ASSUME NEW i \in 1 .. Len(r), NEW j \in 1 .. Len(r), i < j,
             \A k \in i .. j - 1 : ~ r[k].newline
      PROVE  r[j].line = r[i].line /\ r[j].at = r[i].at + (j - i)
  <2>1. /\ n + i \in 1 .. Len(s) /\ n + j \in 1 .. Len(s) /\ n + i < n + j
        /\ (n + j) - (n + i) = j - i
    BY <1>1, <1>5
  <2>2. ASSUME NEW k \in n + i .. (n + j) - 1
        PROVE  ~ s[k].newline
    <3>1. k - n \in i .. j - 1 /\ k - n \in 1 .. Len(r) /\ n + (k - n) = k
      BY <1>1, <1>5
    <3> QED
      BY <1>2, <1>5, <3>1
  <2>3. s[n + j].line = s[n + i].line /\ s[n + j].at = s[n + i].at + (j - i)
    <3> DEFINE a == n + i
               e == n + j
    <3>1. a \in 1 .. Len(s) /\ e \in 1 .. Len(s) /\ a < e /\ e - a = j - i
      BY <2>1
    <3>2. \A k \in a .. e - 1 : ~ s[k].newline
      BY <2>2
    <3> HIDE DEF a, e
    <3>3. s[e].line = s[a].line /\ s[e].at = s[a].at + (e - a)
      BY <1>3, <3>1, <3>2
    <3> QED
      BY <3>1, <3>3 DEF a, e
  <2> QED
    BY <1>2, <2>3
<1>6. ASSUME NEW i \in 1 .. Len(r) - 1, r[i].newline
      PROVE  r[i + 1].line = r[i].line + 1 /\ r[i + 1].at = 1
  <2>1. /\ n + i \in 1 .. Len(s) - 1 /\ i \in 1 .. Len(r) /\ i + 1 \in 1 .. Len(r)
        /\ n + (i + 1) = (n + i) + 1
    BY <1>1
  <2>2. s[n + i] = r[i] /\ s[(n + i) + 1] = r[i + 1]
    BY <1>2, <2>1
  <2> QED
    BY <1>3, <1>6, <2>1, <2>2
<1>7. /\ \A i, j \in 1 .. Len(r) :
           i < j /\ (\A k \in i .. j - 1 : ~ r[k].newline) =>
             r[j].line = r[i].line /\ r[j].at = r[i].at + (j - i)
      /\ \A i \in 1 .. Len(r) - 1 :
           r[i].newline => r[i + 1].line = r[i].line + 1 /\ r[i + 1].at = 1
  BY <1>5, <1>6
<1> QED
  BY <1>4, <1>7, Zenon DEF Intact

\* Up to its first newline, what is intact is of one line.
LEMMA OneLine ==
  ASSUME NEW s \in Seq(Byte), Intact(s), NEW n \in 1 .. Len(s),
         \A i \in 1 .. n - 1 : ~ s[i].newline
  PROVE  \A i \in 1 .. n : s[i].line = s[1].line /\ s[i].at = i
<1> SUFFICES ASSUME NEW i \in 1 .. n
             PROVE  s[i].line = s[1].line /\ s[i].at = i
  OBVIOUS
<1>1. Len(s) \in Nat /\ 1 \in 1 .. Len(s) /\ i \in 1 .. Len(s) /\ s # << >>
  BY Joined
<1>2. s[1].at = 1
  BY <1>1 DEF Intact
<1>3. CASE i = 1
  BY <1>2, <1>3
<1>4. CASE i # 1
  <2>1. 1 < i /\ \A k \in 1 .. i - 1 : ~ s[k].newline
    BY <1>1, <1>4
  <2>2. s[i].line = s[1].line /\ s[i].at = s[1].at + (i - 1)
    BY <1>1, <2>1 DEF Intact
  <2> QED
    BY <1>1, <1>2, <2>2
<1> QED
  BY <1>3, <1>4

\* Lines that fit into a packet: one that has been read to the end, or a packet
\* full, holds a newline.
LEMMA PacketHoldsALine ==
  ASSUME NEW b \in Seq(Byte), NEW r \in Seq(Byte), NEW n, Intact(b \o r), Fits(b \o r, n),
         b # << >>, r = << >> \/ Len(b) >= PACKET_SIZE
  PROVE  HasLine(b)
<1> SUFFICES ASSUME ~ HasLine(b) PROVE FALSE
  OBVIOUS
<1> DEFINE s == b \o r
           m == Len(b)
<1>1. /\ s \in Seq(Byte) /\ m \in Nat /\ m > 0 /\ Len(r) \in Nat /\ Len(s) = m + Len(r)
      /\ (r # << >> <=> Len(r) > 0) /\ s # << >>
  BY Joined
<1>2. \A i \in 1 .. m : s[i] = b[i]
  BY Joined
<1> HIDE DEF s
<1>3. \A i \in 1 .. m : ~ s[i].newline
  BY <1>2 DEF HasLine
<1>4. CASE r = << >>
  <2>1. Len(s) = m /\ m \in 1 .. m
    BY <1>1, <1>4
  <2>2. s[m].newline
    BY <1>1, <2>1 DEF Intact, s
  <2> QED
    BY <1>3, <2>1, <2>2
<1>5. CASE r # << >> /\ m >= PACKET_SIZE
  <2>1. m + 1 \in 1 .. Len(s) /\ m + 1 \in 1 .. m + 1 /\ m + 1 > PACKET_SIZE
        /\ m + 1 - 1 = m /\ ~ (m + 1 <= PACKET_SIZE)
    BY <1>1, <1>5, PacketAssumption
  <2>2. Intact(s)
    BY DEF s
  <2>3. s[m + 1].at = m + 1
    <3> DEFINE e == m + 1
    <3>1. e \in 1 .. Len(s) /\ e \in 1 .. e
      BY <2>1
    <3>2. \A i \in 1 .. e - 1 : ~ s[i].newline
      BY <1>1, <1>3, <2>1
    <3> HIDE DEF e
    <3>3. s[e].at = e
      BY <1>1, <2>2, <3>1, <3>2, OneLine
    <3> QED
      BY <3>3 DEF e
  <2>4. s[m + 1].at <= PACKET_SIZE
    BY <2>1 DEF Fits, s
  <2> QED
    BY <2>1, <2>3, <2>4
<1> QED
  BY <1>4, <1>5

-----------------------------------------------------------------------------
(***************************************************************************)
(* The inductive invariant.                                                *)
(***************************************************************************)

\* What is on its way from lircd to ir_func: whole lines, up to the last one.
StreamInv ==
  /\ Intact(Stream)
  /\ Fits(Stream, Len(lines))
  /\ Stream # << >> => Stream[Len(Stream)].line = Len(lines)

\* The library: a code is there only between lirc_nextcode and the push, and is
\* cut at its first newline.
ClientInv ==
  /\ packet_size >= PACKET_SIZE
  /\ irPc # "push" => code = NULL
  /\ code # NULL =>
       code[Len(code)].newline /\ \A i \in 1 .. Len(code) - 1 : ~ code[i].newline
  /\ BufferHoldsTheBytes
  /\ NoCodeOnlyWithoutLircd

\* The lines the timer loop looks up are there.
TimerInv ==
  /\ \A i \in 1 .. Len(ir_queue) : ir_queue[i] \in 1 .. Len(lines)
  /\ held => lines # << >>

IrInv == IrTypeOK /\ StreamInv /\ ClientInv /\ TimerInv

\* The number of the line that ir_func pushes next.
NextLine == IF Stream = << >> THEN Len(lines) + 1 ELSE Stream[1].line

\* The stream is one of bytes.
LEMMA StreamType ==
  ASSUME IrTypeOK
  PROVE  Stream \in Seq(Byte)
  BY ConcatProperties DEF IrTypeOK, Stream

\* lirc_nextcode cuts the buffer at the first newline, and loses nothing.
LEMMA ReturnFromCuts ==
  ASSUME NEW b \in Seq(Byte), ReturnFrom(b)
  PROVE  /\ code' \in Seq(Byte) /\ lirc_buffer' \in Seq(Byte)
         /\ code' \o lirc_buffer' = b
         /\ Len(lirc_buffer') + Len(code') = Len(b)
         /\ HasLine(b) <=> code' # NULL
         /\ code' # NULL =>
              /\ code'[Len(code')].newline
              /\ \A i \in 1 .. Len(code') - 1 : ~ code'[i].newline
<1>1. CASE HasLine(b)
  <2> DEFINE n == LineEnd(b)
  <2>1. n \in 1 .. Len(b) /\ b[n].newline /\ \A j \in 1 .. n - 1 : ~ b[j].newline
    BY <1>1, LineEndIsFirst
  <2>2. code' = SubSeq(b, 1, n) /\ lirc_buffer' = SubSeq(b, n + 1, Len(b))
    BY <1>1 DEF ReturnFrom
  <2> HIDE DEF n
  <2>3. n \in 0 .. Len(b) /\ n \in Nat /\ n > 0 /\ Len(b) \in Nat /\ n \in 1 .. n
    BY <2>1, LenProperties
  <2>4. /\ code' \in Seq(Byte) /\ Len(code') = n
        /\ \A i \in 1 .. n : code'[i] = b[i]
    BY <2>2, <2>3, Cut
  <2>5. /\ lirc_buffer' \in Seq(Byte) /\ Len(lirc_buffer') = Len(b) - n
        /\ code' \o lirc_buffer' = b
    BY <2>2, <2>3, Cut
  <2>6. code' # NULL
    BY <2>3, <2>4, EmptySeq DEF NULL
  <2>7. code'[Len(code')].newline /\ \A i \in 1 .. Len(code') - 1 : ~ code'[i].newline
    BY <2>1, <2>3, <2>4
  <2> QED
    BY <1>1, <2>3, <2>4, <2>5, <2>6, <2>7
<1>2. CASE ~ HasLine(b)
  <2>1. code' = << >> /\ lirc_buffer' = b
    BY <1>2 DEF ReturnFrom, NULL
  <2>2. code' \in Seq(Byte) /\ Len(code') = 0 /\ Len(b) \in Nat
    BY <2>1, EmptySeq, LenProperties
  <2>3. code' \o lirc_buffer' = b
    BY <2>1, ConcatEmptySeq
  <2> QED
    BY <1>2, <2>1, <2>2, <2>3 DEF NULL
<1> QED
  BY <1>1, <1>2

\* Steps that leave the lines and the bytes alone.
LEMMA StreamSame ==
  ASSUME StreamInv, Stream' = Stream, lines' = lines
  PROVE  StreamInv'
  BY DEF StreamInv, Intact, Fits

\* A line of lircd is appended to the stream.
LEMMA SignalStep ==
  ASSUME IrInv, NEW key \in Keys \cup {UnknownKey}, NEW press \in Nat, Signal(key, press)
  PROVE  IrInv' /\ Channel!Write
<1>1. PICK length \in LineLengths : socket' = socket \o LineBytes(Len(lines) + 1, length)
  BY DEF Signal
<1> DEFINE number == Len(lines) + 1
           l == LineBytes(number, length)
<1>2. /\ lines' = Append(lines, [key |-> key, press |-> press]) /\ held' = TRUE
      /\ UNCHANGED <<lircdUp, lirc_buffer, packet_size, code, irPc, ir_queue,
                     cTaste, old_cTaste, acted, exit_app, process>>
  BY DEF Signal, clientVars, keyVars, mainVars
<1>3. [key |-> key, press |-> press] \in Line
  BY DEF Line
<1>4. lines \in Seq(Line) /\ Len(lines) \in Nat
  BY LenProperties DEF IrInv, IrTypeOK
<1>5. lines' \in Seq(Line) /\ Len(lines') = number /\ number \in Nat /\ lines' # << >>
  BY <1>2, <1>3, <1>4, AppendProperties
<1>6. length \in 1 .. PACKET_SIZE
  BY LengthAssumption
<1>7. l \in Seq(Byte) /\ Len(l) = length
  BY <1>5, <1>6, LineBytesType
<1>8. /\ socket \in Seq(Byte) /\ code \in Seq(Byte) /\ lirc_buffer \in Seq(Byte)
      /\ code \o lirc_buffer \in Seq(Byte)
  BY ConcatProperties DEF IrInv, IrTypeOK
<1>9. Stream' = Stream \o l /\ socket' \in Seq(Byte)
  <2> HIDE DEF l
  <2>1. socket' = socket \o l
    BY <1>1 DEF l
  <2>2. socket' \in Seq(Byte)
    BY <1>7, <1>8, <2>1, ConcatProperties
  <2>3. Stream' = (code \o lirc_buffer) \o (socket \o l)
    BY <1>2, <2>1 DEF Stream
  <2> QED
    BY <1>7, <1>8, <2>2, <2>3, Regroup DEF Stream
<1>10. IrTypeOK'
  BY <1>2, <1>5, <1>9 DEF IrInv, IrTypeOK
<1>11. Stream \in Seq(Byte)
  BY StreamType DEF IrInv
<1>12. StreamInv'
  <2>1. Stream # << >> => Stream[Len(Stream)].line + 1 = number
    BY DEF IrInv, StreamInv
  <2>2. Intact(Stream') /\ Stream' # << >> /\ Stream'[Len(Stream')].line = number
    <3>1. Intact(Stream)
      BY DEF IrInv, StreamInv
    <3> DEFINE t == Stream \o LineBytes(number, length)
    <3> HIDE DEF number
    <3>2. t = Stream \o LineBytes(number, length) /\ Stream' = t
      BY <1>9
    <3> HIDE DEF t
    <3>3. Intact(t) /\ t # << >> /\ t[Len(t)].line = number
      <4>1. number \in Nat
        BY <1>5
      <4> QED
        BY <4>1, <1>6, <1>11, <2>1, <3>1, <3>2, IntactLine, Zenon
    <3> QED
      BY <3>2, <3>3
  <2>3. Fits(Stream', number)
    <3> SUFFICES ASSUME NEW i \in 1 .. Len(Stream \o l)
                 PROVE  /\ (Stream \o l)[i].at <= PACKET_SIZE
                        /\ (Stream \o l)[i].line \in 1 .. number
      BY <1>9 DEF Fits
    <3>1. /\ Len(Stream) \in Nat /\ length \in Nat
          /\ Len(Stream \o l) = Len(Stream) + length
          /\ \A j \in 1 .. Len(Stream) : (Stream \o l)[j] = Stream[j]
          /\ \A j \in 1 .. length : (Stream \o l)[Len(Stream) + j] = l[j]
      <4> HIDE DEF l
      <4>1. length \in Nat
        BY <1>6
      <4>2. Len(Stream) \in Nat /\ Len(Stream \o l) = Len(Stream) + length
        BY <1>7, <1>11, Joined
      <4>3. \A j \in 1 .. Len(Stream) : (Stream \o l)[j] = Stream[j]
        BY <1>7, <1>11, Joined
      <4>4. \A j \in 1 .. length : (Stream \o l)[Len(Stream) + j] = l[j]
        BY <1>7, <1>11, Joined
      <4> QED
        BY <4>1, <4>2, <4>3, <4>4
    <3>2. CASE i <= Len(Stream)
      <4>1. i \in 1 .. Len(Stream)
        BY <3>1, <3>2
      <4>2. Stream[i].at <= PACKET_SIZE /\ Stream[i].line \in 1 .. Len(lines)
        BY <4>1 DEF IrInv, StreamInv, Fits
      <4>3. Stream[i].line \in 1 .. number
        BY <1>4, <4>2
      <4> QED
        BY <3>1, <4>1, <4>2, <4>3
    <3>3. CASE i > Len(Stream)
      <4> DEFINE j == i - Len(Stream)
      <4>1. j \in 1 .. length /\ Len(Stream) + j = i /\ j <= PACKET_SIZE /\ number \in 1 .. number
        BY <1>4, <1>6, <3>1, <3>3, PacketAssumption
      <4> HIDE DEF j
      <4>2. l[j].at = j /\ l[j].line = number
        BY <4>1, LineByte
      <4> QED
        BY <3>1, <4>1, <4>2
    <3> QED
      BY <3>1, <3>2, <3>3
  <2> QED
    BY <1>5, <2>2, <2>3 DEF StreamInv
<1>13. ClientInv'
  BY <1>2 DEF IrInv, ClientInv, BufferHoldsTheBytes, NoCodeOnlyWithoutLircd
<1>14. TimerInv'
  <2>1. \A i \in 1 .. Len(ir_queue) : ir_queue[i] \in 1 .. number
    BY <1>4 DEF IrInv, TimerInv
  <2> QED
    BY <1>2, <1>5, <2>1 DEF TimerInv
<1>15. Stream' # << >> /\ Stream'[1].line = NextLine
  <2> HIDE DEF l
  <2>1. /\ Len(Stream) \in Nat /\ length \in Nat /\ length > 0
        /\ Stream # << >> <=> Len(Stream) > 0
        /\ Stream \o l # << >> <=> Len(Stream) + Len(l) > 0
        /\ \A j \in 1 .. Len(Stream) : (Stream \o l)[j] = Stream[j]
        /\ \A j \in 1 .. Len(l) : (Stream \o l)[Len(Stream) + j] = l[j]
    BY <1>6, <1>7, <1>11, Joined
  <2>2. Stream' # << >>
    BY <1>7, <1>9, <2>1
  <2>3. CASE Stream = << >>
    <3>1. Len(Stream) = 0 /\ 1 \in 1 .. length /\ 1 \in 1 .. Len(l)
      BY <1>7, <2>1, <2>3
    <3>2. l[1].line = number
      BY <3>1, LineByte DEF l
    <3>3. (Stream \o l)[0 + 1] = l[1]
      BY <2>1, <3>1
    <3> QED
      BY <1>9, <2>2, <2>3, <3>2, <3>3 DEF NextLine
  <2>4. CASE Stream # << >>
    <3>1. 1 \in 1 .. Len(Stream)
      BY <2>1, <2>4
    <3> QED
      BY <1>9, <2>1, <2>2, <2>4, <3>1 DEF NextLine
  <2> QED
    BY <2>3, <2>4
<1>16. NextLine' = NextLine
  BY <1>15 DEF NextLine
<1>17. Channel!Write
  BY <1>2, <1>5, <1>16 DEF Channel!Write, NextLine
<1> QED
  BY <1>10, <1>12, <1>13, <1>14, <1>17 DEF IrInv

\* A line is returned that was in the buffer already.
LEMMA FromBufferStep ==
  ASSUME IrInv, NextCodeFromBuffer
  PROVE  IrInv' /\ UNCHANGED <<Stream, lines, ir_queue>>
<1>1. /\ irPc = "lirc_nextcode" /\ HasLine(lirc_buffer) /\ ReturnFrom(lirc_buffer)
      /\ irPc' = "push" /\ packet_size' = packet_size
      /\ UNCHANGED <<lines, held, socket, lircdUp, ir_queue, cTaste, old_cTaste, acted,
                     exit_app, process>>
  BY DEF NextCodeFromBuffer, lircdVars, keyVars, mainVars
<1>2. lirc_buffer \in Seq(Byte) /\ socket \in Seq(Byte) /\ code = << >>
  BY <1>1 DEF IrInv, IrTypeOK, ClientInv, NULL
<1>3. /\ code' \in Seq(Byte) /\ lirc_buffer' \in Seq(Byte)
      /\ code' \o lirc_buffer' = lirc_buffer
      /\ Len(lirc_buffer') + Len(code') = Len(lirc_buffer)
      /\ code' # NULL
      /\ code'[Len(code')].newline
      /\ \A i \in 1 .. Len(code') - 1 : ~ code'[i].newline
  BY <1>1, <1>2, ReturnFromCuts
<1>4. Stream' = Stream
  BY <1>1, <1>2, <1>3, ConcatEmptySeq DEF Stream
<1>5. StreamInv'
  BY <1>1, <1>4, StreamSame DEF IrInv
<1>6. Len(lirc_buffer) <= packet_size
  <2>1. Len(code) = 0 /\ Len(lirc_buffer) \in Nat
    BY <1>2, EmptySeq, LenProperties
  <2> QED
    BY <2>1 DEF IrInv, ClientInv, BufferHoldsTheBytes
<1>7. ClientInv'
  BY <1>1, <1>3, <1>6 DEF IrInv, ClientInv, BufferHoldsTheBytes, NoCodeOnlyWithoutLircd
<1>8. IrTypeOK' /\ TimerInv'
  BY <1>1, <1>3 DEF IrInv, IrTypeOK, TimerInv
<1> QED
  BY <1>1, <1>4, <1>5, <1>7, <1>8 DEF IrInv

\* A line is returned that had to be read: there is one, as lines are written
\* whole and fit into a packet.
LEMMA FromSocketStep ==
  ASSUME IrInv, NextCodeFromSocket
  PROVE  IrInv' /\ UNCHANGED <<Stream, lines, ir_queue>>
<1> DEFINE room == packet_size' - Len(lirc_buffer)
           n == IF room < Len(socket) THEN room ELSE Len(socket)
           b == lirc_buffer \o SubSeq(socket, 1, n)
           rest == SubSeq(socket, n + 1, Len(socket))
<1>1. /\ irPc = "lirc_nextcode" /\ socket # << >> /\ ReturnFrom(b) /\ socket' = rest
      /\ packet_size' = IF Len(lirc_buffer) >= packet_size
                        THEN packet_size + PACKET_SIZE ELSE packet_size
      /\ irPc' = "push"
      /\ UNCHANGED <<lines, held, lircdUp, ir_queue, cTaste, old_cTaste, acted, exit_app, process>>
  BY DEF NextCodeFromSocket, keyVars, mainVars
<1>2. /\ lirc_buffer \in Seq(Byte) /\ socket \in Seq(Byte) /\ code = << >>
      /\ Len(lirc_buffer) \in Nat /\ Len(socket) \in Nat /\ Len(socket) > 0
      /\ packet_size \in Nat /\ Len(code) = 0
  BY <1>1, LenProperties, EmptySeq DEF IrInv, IrTypeOK, ClientInv, NULL
<1>3. Len(lirc_buffer) <= packet_size /\ packet_size >= PACKET_SIZE
  BY <1>2 DEF IrInv, ClientInv, BufferHoldsTheBytes
<1>4. /\ packet_size' \in Nat /\ packet_size' >= PACKET_SIZE
      /\ packet_size' > Len(lirc_buffer)
  BY <1>1, <1>2, <1>3, PacketAssumption
<1>5. /\ n \in 0 .. Len(socket) /\ n > 0 /\ Len(lirc_buffer) + n <= packet_size'
      /\ n = Len(socket) \/ Len(lirc_buffer) + n = packet_size'
  BY <1>2, <1>4
<1> HIDE DEF n
<1>6. /\ SubSeq(socket, 1, n) \in Seq(Byte) /\ Len(SubSeq(socket, 1, n)) = n
      /\ rest \in Seq(Byte) /\ Len(rest) = Len(socket) - n
      /\ SubSeq(socket, 1, n) \o rest = socket
  BY <1>2, <1>5, Cut
<1> HIDE DEF rest
<1>7. /\ b \in Seq(Byte) /\ Len(b) = Len(lirc_buffer) + n /\ b # << >>
      /\ b \o rest = lirc_buffer \o socket
  <2>1. b \in Seq(Byte) /\ Len(b) = Len(lirc_buffer) + n
    BY <1>2, <1>6, ConcatProperties
  <2>2. b # << >>
    BY <1>2, <1>5, <2>1, EmptySeq
  <2>3. b \o rest = lirc_buffer \o (SubSeq(socket, 1, n) \o rest)
    BY <1>2, <1>6, Regroup
  <2> QED
    BY <1>6, <2>1, <2>2, <2>3
<1> HIDE DEF b
<1>8. Stream = b \o rest
  BY <1>2, <1>7, ConcatEmptySeq DEF Stream
<1>9. HasLine(b)
  <2>1. rest = << >> \/ Len(b) >= PACKET_SIZE
    BY <1>2, <1>4, <1>5, <1>6, <1>7, EmptySeq
  <2>2. Intact(b \o rest) /\ Fits(b \o rest, Len(lines))
    BY <1>8 DEF IrInv, StreamInv
  <2> QED
    BY <1>6, <1>7, <2>1, <2>2, PacketHoldsALine
<1>10. /\ code' \in Seq(Byte) /\ lirc_buffer' \in Seq(Byte)
       /\ code' \o lirc_buffer' = b
       /\ Len(lirc_buffer') + Len(code') = Len(b)
       /\ code' # NULL
       /\ code'[Len(code')].newline
       /\ \A i \in 1 .. Len(code') - 1 : ~ code'[i].newline
  BY <1>1, <1>7, <1>9, ReturnFromCuts
<1>11. Stream' = Stream
  BY <1>1, <1>8, <1>10 DEF Stream
<1>12. StreamInv'
  BY <1>1, <1>11, StreamSame DEF IrInv
<1>13. ClientInv'
  BY <1>1, <1>4, <1>5, <1>7, <1>10 DEF ClientInv, BufferHoldsTheBytes, NoCodeOnlyWithoutLircd
<1>14. IrTypeOK' /\ TimerInv'
  BY <1>1, <1>4, <1>6, <1>10 DEF IrInv, IrTypeOK, TimerInv
<1> QED
  BY <1>1, <1>11, <1>12, <1>13, <1>14 DEF IrInv

\* The code is pushed, and what follows it begins with a line.
LEMMA PushStep ==
  ASSUME IrInv, PushCode
  PROVE  IrInv'
<1>1. CASE code = NULL
  <2>1. process' = "aborted" /\ UNCHANGED <<ir_queue, irPc, code, lirc_buffer, packet_size,
          lines, held, socket, lircdUp, cTaste, old_cTaste, acted, exit_app>>
    BY <1>1 DEF PushCode, lircdVars, keyVars
  <2>2. Stream' = Stream
    BY <2>1 DEF Stream
  <2>3. StreamInv'
    BY <2>1, <2>2, StreamSame DEF IrInv
  <2>4. ClientInv' /\ TimerInv'
    BY <2>1 DEF IrInv, ClientInv, TimerInv, BufferHoldsTheBytes, NoCodeOnlyWithoutLircd
  <2>5. IrTypeOK'
    BY <2>1 DEF IrInv, IrTypeOK
  <2> QED
    BY <2>3, <2>4, <2>5 DEF IrInv
<1>2. CASE code # NULL
  <2>1. /\ ir_queue' = Append(ir_queue, code[1].line) /\ code' = << >>
        /\ irPc' \in {"lirc_nextcode", "done"}
        /\ UNCHANGED <<process, lirc_buffer, packet_size, lines, held, socket, lircdUp,
                       cTaste, old_cTaste, acted, exit_app>>
    BY <1>2 DEF PushCode, WhileNotExit, lircdVars, keyVars, NULL
  <2>2. /\ code \in Seq(Byte) /\ lirc_buffer \in Seq(Byte) /\ socket \in Seq(Byte)
        /\ lirc_buffer \o socket \in Seq(Byte) /\ code # << >>
        /\ packet_size \in Nat /\ ir_queue \in Seq(Nat)
    BY <1>2, ConcatProperties DEF IrInv, IrTypeOK, NULL
  <2> DEFINE r == lirc_buffer \o socket
  <2>3. Stream = code \o r /\ Stream' = r
    BY <2>1, <2>2, ConcatAssociative, ConcatEmptySeq DEF Stream
  <2> HIDE DEF r
  <2>4. /\ Len(code) \in Nat /\ Len(code) > 0 /\ Len(r) \in Nat
        /\ Len(Stream) = Len(code) + Len(r)
        /\ \A i \in 1 .. Len(code) : Stream[i] = code[i]
        /\ \A i \in 1 .. Len(r) : Stream[Len(code) + i] = r[i]
        /\ (r # << >> => Len(r) > 0) /\ Stream # << >>
    <3>1. r \in Seq(Byte)
      BY <2>2 DEF r
    <3> QED
      BY <2>2, <2>3, <3>1, CodeAndRest
  <2>5. Intact(r)
    BY <1>2, <2>2, <2>3, IntactRest DEF IrInv, StreamInv, ClientInv, r
  <2>6. Fits(r, Len(lines))
    <3> SUFFICES ASSUME NEW i \in 1 .. Len(r)
                 PROVE  r[i].at <= PACKET_SIZE /\ r[i].line \in 1 .. Len(lines)
      BY DEF Fits
    <3>1. Len(code) + i \in 1 .. Len(Stream) /\ Stream[Len(code) + i] = r[i]
      BY <2>4
    <3> QED
      BY <3>1 DEF IrInv, StreamInv, Fits
  <2>7. r # << >> => r[Len(r)].line = Len(lines)
    <3> SUFFICES ASSUME r # << >> PROVE r[Len(r)].line = Len(lines)
      OBVIOUS
    <3>1. Len(r) \in 1 .. Len(r)
      BY <2>4
    <3>2. Stream[Len(Stream)] = r[Len(r)]
      BY <2>4, <3>1
    <3> QED
      BY <2>4, <3>2 DEF IrInv, StreamInv
  <2>8. StreamInv'
    BY <2>1, <2>3, <2>5, <2>6, <2>7 DEF StreamInv
  <2>9. ClientInv'
    <3>1. Len(code') = 0 /\ Len(lirc_buffer) \in Nat /\ Len(lirc_buffer) <= packet_size
      BY <2>1, <2>2, <2>4, EmptySeq, LenProperties DEF IrInv, ClientInv, BufferHoldsTheBytes
    <3> QED
      BY <2>1, <2>2, <3>1 DEF IrInv, ClientInv, BufferHoldsTheBytes, NoCodeOnlyWithoutLircd, NULL
  <2>10. code[1].line \in 1 .. Len(lines) /\ Len(lines) \in Nat
    <3>1. 1 \in 1 .. Len(code) /\ 1 \in 1 .. Len(Stream)
      BY <2>4
    <3>2. Stream[1] = code[1]
      BY <2>4, <3>1
    <3> QED
      BY <3>1, <3>2, LenProperties DEF IrInv, StreamInv, Fits, IrTypeOK
  <2>11. ir_queue' \in Seq(Nat) /\ \A i \in 1 .. Len(ir_queue') : ir_queue'[i] \in 1 .. Len(lines)
    BY <2>1, <2>2, <2>10, AppendProperties DEF IrInv, TimerInv
  <2>12. IrTypeOK' /\ TimerInv'
    BY <2>1, <2>2, <2>11, EmptySeq DEF IrInv, IrTypeOK, TimerInv
  <2> QED
    BY <2>8, <2>9, <2>12 DEF IrInv
<1> QED
  BY <1>1, <1>2

\* The line that is pushed is the next one, and then the one after it is.
LEMMA PushDelivers ==
  ASSUME IrInv, PushCode, code # NULL
  PROVE  Channel!Deliver
<1>1. /\ ir_queue' = Append(ir_queue, code[1].line) /\ code' = << >>
      /\ UNCHANGED <<lirc_buffer, lines, socket>>
  BY DEF PushCode, lircdVars, NULL
<1>2. /\ code \in Seq(Byte) /\ lirc_buffer \in Seq(Byte) /\ socket \in Seq(Byte)
      /\ lirc_buffer \o socket \in Seq(Byte) /\ code # << >>
  BY ConcatProperties DEF IrInv, IrTypeOK, NULL
<1> DEFINE r == lirc_buffer \o socket
           n == Len(code)
<1>3. Stream = code \o r /\ Stream' = r
  BY <1>1, <1>2, ConcatAssociative, ConcatEmptySeq DEF Stream
<1> HIDE DEF r
<1>4. /\ n \in Nat /\ n > 0 /\ Len(r) \in Nat /\ Len(Stream) = n + Len(r)
      /\ \A i \in 1 .. n : Stream[i] = code[i]
      /\ \A i \in 1 .. Len(r) : Stream[n + i] = r[i]
      /\ (r # << >> => Len(r) > 0) /\ Stream # << >>
  <2>1. r \in Seq(Byte)
    BY <1>2 DEF r
  <2> QED
    BY <1>2, <1>3, <2>1, CodeAndRest
<1>5. Stream \in Seq(Byte) /\ Intact(Stream)
  BY StreamType DEF IrInv, StreamInv
<1>6. code[n].newline /\ \A i \in 1 .. n - 1 : ~ code[i].newline
  BY DEF IrInv, ClientInv
<1> HIDE DEF n
<1>7. n \in 1 .. Len(Stream) /\ n \in 1 .. n /\ 1 \in 1 .. n /\ 1 \in 1 .. Len(Stream)
  BY <1>4
<1>8. Stream[n].newline /\ \A i \in 1 .. n - 1 : ~ Stream[i].newline
  BY <1>4, <1>6, <1>7
<1>9. Stream[n].line = Stream[1].line /\ code[1].line = Stream[1].line
  BY <1>4, <1>5, <1>7, <1>8, OneLine
<1>10. Stream[1].line \in 1 .. Len(lines) /\ Len(lines) \in Nat
  BY <1>7, LenProperties DEF IrInv, IrTypeOK, StreamInv, Fits
<1>11. NextLine = Stream[1].line
  BY <1>4 DEF NextLine
<1>12. NextLine' = Stream[1].line + 1
  <2>1. CASE r = << >>
    <3>1. Len(Stream) = n
      BY <1>4, <2>1, EmptySeq
    <3>2. Stream[n].line = Len(lines)
      BY <1>4, <3>1 DEF IrInv, StreamInv
    <3> QED
      BY <1>1, <1>3, <1>9, <2>1, <3>2 DEF NextLine
  <2>2. CASE r # << >>
    <3>1. n \in 1 .. Len(Stream) - 1 /\ 1 \in 1 .. Len(r)
      BY <1>4, <2>2
    <3>2. Stream[n + 1].line = Stream[n].line + 1
      BY <1>5, <1>8, <3>1 DEF Intact
    <3>3. Stream[n + 1] = r[1]
      BY <1>4, <3>1
    <3> QED
      BY <1>3, <1>9, <2>2, <3>2, <3>3 DEF NextLine
  <2> QED
    BY <2>1, <2>2
<1>13. NextLine <= Len(lines)
  BY <1>10, <1>11
<1> QED
  BY <1>1, <1>9, <1>11, <1>12, <1>13 DEF Channel!Deliver, NextLine

\* Steps that move no byte: those of lircd, of ir_func, and towards the end of
\* the program.
Quiet ==
  \/ Release \/ LircdStops \/ lirc_init \/ NextCodeFails
  \/ Sigterm \/ MainReturns \/ UNCHANGED irVars

\* They keep the invariant and the lines.
LEMMA QuietStep ==
  ASSUME IrInv, Quiet
  PROVE  IrInv' /\ UNCHANGED <<Stream, lines, ir_queue>>
<1> USE DEF lircdVars, clientVars, keyVars, mainVars
<1>1. /\ UNCHANGED <<lines, socket, lirc_buffer, packet_size, ir_queue, cTaste, old_cTaste, acted>>
      /\ (held' => held) /\ held' \in BOOLEAN
      /\ (lircdUp' => lircdUp) /\ lircdUp' \in BOOLEAN
      /\ process' \in {process, "exited", "terminated"} /\ exit_app' \in BOOLEAN
  <2>1. held \in BOOLEAN /\ lircdUp \in BOOLEAN /\ exit_app \in BOOLEAN
    BY DEF IrInv, IrTypeOK
  <2>2. CASE Release
    BY <2>1, <2>2 DEF Release
  <2>3. CASE LircdStops
    BY <2>1, <2>3 DEF LircdStops
  <2>4. CASE lirc_init \/ NextCodeFails
    BY <2>1, <2>4 DEF lirc_init, NextCodeFails
  <2>5. CASE UNCHANGED irVars
    BY <2>1, <2>5 DEF irVars
  <2>6. CASE Sigterm
    BY <2>1, <2>6 DEF Sigterm
  <2>7. CASE MainReturns
    BY <2>1, <2>7 DEF MainReturns
  <2> QED
    BY <2>2, <2>3, <2>4, <2>5, <2>6, <2>7 DEF Quiet
<1>2. \/ irPc' = irPc /\ code' = code
      \/ irPc' \in {"lirc_nextcode", "done"} /\ irPc = "lirc_init" /\ code' = code
      \/ irPc' = "push" /\ irPc = "lirc_nextcode" /\ code' = NULL /\ ~ lircdUp'
  <2>1. CASE Release \/ LircdStops \/ Sigterm \/ MainReturns \/ UNCHANGED irVars
    BY <2>1 DEF Release, LircdStops, Sigterm, MainReturns, irVars
  <2>2. CASE lirc_init
    BY <2>2 DEF lirc_init, WhileNotExit
  <2>3. CASE NextCodeFails
    BY <2>3 DEF NextCodeFails
  <2> QED
    BY <2>1, <2>2, <2>3 DEF Quiet
<1>3. code' = code
  BY <1>2 DEF IrInv, ClientInv
<1>4. Stream' = Stream
  BY <1>1, <1>3 DEF Stream
<1>5. StreamInv'
  BY <1>1, <1>4, StreamSame DEF IrInv
<1>6. ClientInv'
  <2>1. irPc' # "push" => irPc # "push"
    BY <1>2
  <2>2. NoCodeOnlyWithoutLircd'
    BY <1>1, <1>2, <1>3 DEF IrInv, ClientInv, NoCodeOnlyWithoutLircd
  <2> QED
    BY <1>1, <1>3, <2>1, <2>2 DEF IrInv, ClientInv, BufferHoldsTheBytes
<1>7. IrTypeOK'
  BY <1>1, <1>2, <1>3 DEF IrInv, IrTypeOK
<1>8. TimerInv'
  BY <1>1 DEF IrInv, TimerInv
<1> QED
  BY <1>1, <1>4, <1>5, <1>6, <1>7, <1>8 DEF IrInv

\* The line a key acts by is one of lircd.
LEMMA RoundStep ==
  ASSUME IrInv, Round
  PROVE  IrInv' /\ UNCHANGED <<Stream, lines>>
<1>1. /\ ir_queue' = << >> /\ old_cTaste' = cTaste'
      /\ UNCHANGED <<lines, held, socket, lircdUp, lirc_buffer, packet_size, code, irPc,
                     exit_app, process>>
  BY DEF Round, lircdVars, clientVars, mainVars
<1>2. ir_queue # << >> => LastLine \in Line
  <2> SUFFICES ASSUME ir_queue # << >> PROVE LastLine \in Line
    OBVIOUS
  <2>1. ir_queue \in Seq(Nat) /\ lines \in Seq(Line)
    BY DEF IrInv, IrTypeOK
  <2>2. Len(ir_queue) \in 1 .. Len(ir_queue)
    BY <2>1, EmptySeq
  <2>3. ir_queue[Len(ir_queue)] \in 1 .. Len(lines)
    BY <2>2 DEF IrInv, TimerInv
  <2> QED
    BY <2>1, <2>3, ElementOfSeq DEF LastLine
<1>3. cTaste' \in Keys \cup {NoKey}
  <2>1. CASE ir_queue = << >>
    BY <2>1 DEF Round
  <2>2. CASE ir_queue # << >> /\ LastLine.key = UnknownKey
    BY <2>2 DEF Round, IrInv, IrTypeOK
  <2>3. CASE ir_queue # << >> /\ LastLine.key # UnknownKey
    <3>1. LastLine.key \in Keys
      BY <1>2, <2>3 DEF Line
    <3> QED
      BY <2>3, <3>1 DEF Round
  <2> QED
    BY <2>1, <2>2, <2>3
<1>4. acted' \in SUBSET Nat
  <2>1. CASE ir_queue = << >>
    <3>1. acted' = acted
      BY <2>1 DEF Round
    <3> QED
      BY <3>1 DEF IrInv, IrTypeOK
  <2>2. CASE ir_queue # << >>
    <3>1. LastLine.press \in Nat
      BY <1>2, <2>2 DEF Line
    <3>2. acted' \in {acted, acted \cup {LastLine.press}}
      BY DEF Round
    <3> QED
      BY <3>1, <3>2 DEF IrInv, IrTypeOK
  <2> QED
    BY <2>1, <2>2
<1>5. IrTypeOK'
  BY <1>1, <1>3, <1>4 DEF IrInv, IrTypeOK
<1>6. Stream' = Stream
  BY <1>1 DEF Stream
<1>7. StreamInv'
  BY <1>1, <1>6, StreamSame DEF IrInv
<1>8. ClientInv'
  BY <1>1 DEF IrInv, ClientInv, BufferHoldsTheBytes, NoCodeOnlyWithoutLircd
<1>9. TimerInv'
  BY <1>1, EmptySeq DEF IrInv, TimerInv
<1> QED
  BY <1>1, <1>5, <1>6, <1>7, <1>8, <1>9 DEF IrInv

\* A key is pressed, or held.
LEMMA KeyStep ==
  ASSUME IrInv, (\E key \in Keys \cup {UnknownKey} : Press(key)) \/ Hold
  PROVE  IrInv' /\ Channel!Write
<1>1. lines # << >> => lines[Len(lines)] \in Line
  BY EmptySeq, ElementOfSeq DEF IrInv, IrTypeOK
<1>2. ASSUME NEW key \in Keys \cup {UnknownKey}, Press(key)
      PROVE  IrInv' /\ Channel!Write
  <2> DEFINE press == IF lines = << >> THEN 1 ELSE lines[Len(lines)].press + 1
  <2>1. press \in Nat
    BY <1>1 DEF Line
  <2>2. Signal(key, press)
    BY <1>2 DEF Press
  <2> HIDE DEF press
  <2> QED
    BY <2>1, <2>2, SignalStep
<1>3. CASE Hold
  <2>1. lines # << >> /\ Signal(lines[Len(lines)].key, lines[Len(lines)].press)
    BY <1>3 DEF Hold, IrInv, TimerInv
  <2>2. lines[Len(lines)].key \in Keys \cup {UnknownKey} /\ lines[Len(lines)].press \in Nat
    BY <1>1, <2>1 DEF Line
  <2> QED
    BY <2>1, <2>2, SignalStep
<1> QED
  BY <1>2, <1>3

-----------------------------------------------------------------------------
\* The invariant is inductive, for every packet size and every length of a line
\* that fits into a packet, whatever the moments at which ir_func reads.
THEOREM IrInvariant == IrSpec => []IrInv
<1>1. IrInit => IrInv
  <2> SUFFICES ASSUME IrInit PROVE IrInv
    OBVIOUS
  <2>1. IrTypeOK
    BY EmptySeq, PacketAssumption DEF IrInit, IrTypeOK, NULL
  <2>2. Stream = << >> /\ Len(Stream) = 0
    BY EmptySeq, ConcatEmptySeq DEF IrInit, Stream, NULL
  <2>3. StreamInv
    BY <2>2 DEF StreamInv, Intact, Fits
  <2>4. ClientInv /\ TimerInv
    BY EmptySeq, PacketAssumption
    DEF IrInit, ClientInv, TimerInv, BufferHoldsTheBytes, NoCodeOnlyWithoutLircd, NULL
  <2> QED
    BY <2>1, <2>3, <2>4 DEF IrInv
<1>2. IrInv /\ [IrNext]_irVars => IrInv'
  BY KeyStep, QuietStep, FromBufferStep, FromSocketStep, PushStep, RoundStep
  DEF IrNext, IrThread, Quiet
<1> QED
  BY <1>1, <1>2, PTL DEF IrSpec

\* The variables have their types; the key of a round is one TimerFunc knows.
THEOREM IrTypeCorrect == IrSpec => []IrTypeOK
<1>1. IrInv => IrTypeOK
  BY DEF IrInv
<1> QED
  BY <1>1, IrInvariant, PTL

\* lirc_nextcode never writes beyond its buffer.
THEOREM BufferIsNotOverrun == IrSpec => []BufferHoldsTheBytes
<1>1. IrInv => BufferHoldsTheBytes
  BY DEF IrInv, ClientInv
<1> QED
  BY <1>1, IrInvariant, PTL

\* lirc_nextcode returns without a code, and ir_func aborts the process, only
\* when lircd has gone.
THEOREM NoCodeWithoutLircd == IrSpec => []NoCodeOnlyWithoutLircd
<1>1. IrInv => NoCodeOnlyWithoutLircd
  BY DEF IrInv, ClientInv
<1> QED
  BY <1>1, IrInvariant, PTL

\* No byte is lost, doubled or moved between lircd and ir_func.
THEOREM StreamStaysIntact == IrSpec => []StreamIsIntact
<1>1. IrInv => StreamIsIntact
  BY DEF IrInv, StreamInv, Intact, StreamIsIntact
<1> QED
  BY <1>1, IrInvariant, PTL

\* What ir_func pushes is one line and nothing of another.
THEOREM CodeIsOneLine == IrSpec => []CodeIsALine
<1>1. IrInv => CodeIsALine
  <2> SUFFICES ASSUME IrInv, code # NULL, NEW i \in 1 .. Len(code)
               PROVE  /\ code[i].line = code[1].line /\ code[i].at = i
                      /\ code[i].newline <=> i = Len(code)
    BY DEF CodeIsALine
  <2>1. /\ code \in Seq(Byte) /\ lirc_buffer \o socket \in Seq(Byte)
        /\ Stream = code \o (lirc_buffer \o socket) /\ Stream \in Seq(Byte)
    BY Regroup, ConcatProperties, StreamType DEF IrInv, IrTypeOK, Stream
  <2> DEFINE n == Len(code)
             r == lirc_buffer \o socket
  <2> HIDE DEF r
  <2>2. /\ n \in Nat /\ Len(r) \in Nat /\ Len(Stream) = n + Len(r)
        /\ \A j \in 1 .. n : Stream[j] = code[j]
    BY <2>1, Joined DEF r
  <2>3. code[n].newline /\ \A j \in 1 .. n - 1 : ~ code[j].newline
    BY DEF IrInv, ClientInv
  <2> HIDE DEF n
  <2>4. n \in 1 .. Len(Stream) /\ 1 \in 1 .. n /\ i \in 1 .. n
    BY <2>2 DEF n
  <2>5. \A j \in 1 .. n - 1 : ~ Stream[j].newline
    BY <2>2, <2>3
  <2>6. Intact(Stream)
    BY DEF IrInv, StreamInv
  <2>7. \A j \in 1 .. n : Stream[j].line = Stream[1].line /\ Stream[j].at = j
    BY <2>1, <2>4, <2>5, <2>6, OneLine
  <2>8. code[i].line = code[1].line /\ code[i].at = i
    BY <2>2, <2>4, <2>7
  <2>9. code[i].newline <=> i = n
    BY <2>2, <2>3, <2>4
  <2> QED
    BY <2>8, <2>9 DEF n
<1> QED
  BY <1>1, IrInvariant, PTL

\* The client library and ir_func implement the channel: every line of lircd is
\* pushed once and in order, wherever the room in the buffer cuts them, however
\* many come with one read, and whatever the size of the packets.
THEOREM EveryLineOnceInOrder == IrSpec => LinesArriveInOrder
<1>1. IrInit => Channel!ChannelInit
  <2> SUFFICES ASSUME IrInit PROVE Channel!ChannelInit
    OBVIOUS
  <2>1. Stream = << >> /\ Len(lines) = 0 /\ ir_queue = << >>
    BY EmptySeq, ConcatEmptySeq DEF IrInit, Stream, NULL
  <2> QED
    BY <2>1 DEF Channel!ChannelInit
<1>2. IrInv /\ [IrNext]_irVars => [Channel!ChannelNext]_(Channel!channelVars)
  <2> SUFFICES ASSUME IrInv, [IrNext]_irVars
               PROVE  Channel!ChannelNext \/ UNCHANGED (Channel!channelVars)
    OBVIOUS
  <2>1. CASE (\E key \in Keys \cup {UnknownKey} : Press(key)) \/ Hold
    BY <2>1, KeyStep DEF Channel!ChannelNext
  <2>2. CASE Quiet
    <3>1. UNCHANGED <<Stream, lines, ir_queue>>
      BY <2>2, QuietStep
    <3> QED
      BY <3>1 DEF Channel!channelVars
  <2>3. CASE NextCodeFromBuffer \/ NextCodeFromSocket
    <3>1. UNCHANGED <<Stream, lines, ir_queue>>
      BY <2>3, FromBufferStep, FromSocketStep
    <3> QED
      BY <3>1 DEF Channel!channelVars
  <2>4. CASE PushCode /\ code # NULL
    BY <2>4, PushDelivers DEF Channel!ChannelNext
  <2>5. CASE PushCode /\ code = NULL
    <3>1. UNCHANGED <<Stream, lines, ir_queue>>
      BY <2>5 DEF PushCode, lircdVars, Stream
    <3> QED
      BY <3>1 DEF Channel!channelVars
  <2>6. CASE Round
    <3>1. UNCHANGED <<Stream, lines>> /\ ir_queue' = << >>
      BY <2>6, RoundStep DEF Round
    <3> QED
      BY <3>1 DEF Channel!ChannelNext, Channel!LookAtAll
  <2> QED
    BY <2>1, <2>2, <2>3, <2>4, <2>5, <2>6 DEF IrNext, IrThread, Quiet
<1> QED
  BY <1>1, <1>2, IrInvariant, PTL DEF IrSpec, LinesArriveInOrder, Channel!ChannelSpec
=============================================================================
