---------------------------- MODULE WireProofs ----------------------------
(***************************************************************************)
(* Proofs about the protocol, for any messages whose fields have the       *)
(* widths the code sends them with: each end reads what the other wrote,   *)
(* whole and in order, whatever byte the connection is lost after.         *)
(***************************************************************************)
EXTENDS Wire, FiniteSetTheorems, SequenceTheorems, TLAPS

-----------------------------------------------------------------------------
(***************************************************************************)
(* Numbers of one and of two bytes.                                        *)
(***************************************************************************)
LEMMA OctetIs ==
  ASSUME NEW n
  PROVE  n \in Octet <=> n \in Int /\ 0 <= n /\ n <= 255
  BY DEF Octet, Below

LEMMA WordIs ==
  ASSUME NEW n
  PROVE  n \in Word <=> n \in Int /\ 0 <= n /\ n <= 65535
  BY DEF Word, Below

LEMMA LowByte ==
  ASSUME NEW n \in Int
  PROVE  n % 256 \in Int /\ 0 <= n % 256 /\ n % 256 <= 255
  OBVIOUS

LEMMA LowWord ==
  ASSUME NEW n \in Int
  PROVE  n % 65536 \in Int /\ 0 <= n % 65536 /\ n % 65536 <= 65535
  OBVIOUS

\* The two bytes of a number.
LEMMA TwoBytes ==
  ASSUME NEW n \in Int
  PROVE  /\ (n % 65536) \div 256 \in Octet /\ n % 256 \in Octet
         /\ 256 * ((n % 65536) \div 256) + (n % 256) = n % 65536
<1>1. (n % 65536) % 256 = n % 256
  OBVIOUS
<1> DEFINE m == n % 65536
<1>2. m \in Int /\ 0 <= m /\ m <= 65535
  BY LowWord
<1> HIDE DEF m
<1> DEFINE h == m \div 256
           l == m % 256
<1>3. h \in Int /\ l \in Int /\ m = 256 * h + l /\ 0 <= l /\ l <= 255
  BY <1>2
<1> HIDE DEF h, l
<1>4. 0 <= h /\ h <= 255
  BY <1>2, <1>3
<1>5. QED BY <1>1, <1>3, <1>4, OctetIs DEF m, h, l

-----------------------------------------------------------------------------
(***************************************************************************)
(* Streams.  What is left of a stream after its first k bytes, that it     *)
(* starts like w (as far as it has come), and that a read yields x when    *)
(* all of w has come.                                                      *)
(***************************************************************************)
After(s, k) == IF s # Short /\ k <= Len(s) THEN SubSeq(s, k + 1, Len(s)) ELSE Short

Starts(s, w) ==
    s \in Seq(Octet) => \A i \in 1..Len(w) : i <= Len(s) => s[i] = w[i]

Gets(e, s, w, x) == e.rest = After(s, Len(w)) /\ (e.rest # Short => e.v = x)

LEMMA ShortIsShort == Short \notin Seq(Octet) /\ Len(Short) = 1
<1>1. Short[1] = -1 /\ Len(Short) = 1
  BY DEF Short
<1>2. ASSUME Short \in Seq(Octet) PROVE FALSE
  <2>1. Short[1] \in Octet
    BY <1>1, <1>2, ElementOfSeq
  <2>2. QED BY <1>1, <2>1, OctetIs
<1>3. QED BY <1>1, <1>2

LEMMA AfterIs ==
  ASSUME NEW s \in Streams, NEW k \in Nat
  PROVE  /\ After(s, k) \in Streams
         /\ s \in Seq(Octet) /\ k <= Len(s) =>
               /\ After(s, k) \in Seq(Octet)
               /\ Len(After(s, k)) = Len(s) - k
               /\ \A i \in 1..(Len(s) - k) : After(s, k)[i] = s[k + i]
         /\ s = Short \/ k > Len(s) => After(s, k) = Short
         /\ s = Short \/ (s \in Seq(Octet) /\ Len(s) \in Nat)
<1>1. CASE s \in Seq(Octet) /\ k <= Len(s)
  <2>1. s # Short /\ Len(s) \in Nat /\ After(s, k) = SubSeq(s, k + 1, Len(s))
    BY <1>1, ShortIsShort DEF After
  <2>2. /\ SubSeq(s, k + 1, Len(s)) \in Seq(Octet)
        /\ Len(SubSeq(s, k + 1, Len(s))) = Len(s) - k
        /\ \A i \in 1..(Len(s) - k) : SubSeq(s, k + 1, Len(s))[i] = s[k + i]
    BY <1>1, <2>1, SubSeqProperties
  <2>3. QED BY <1>1, <2>1, <2>2 DEF Streams
<1>2. CASE s = Short \/ k > Len(s)
  <2>1. Len(s) \in Nat
    BY ShortIsShort, LenProperties DEF Streams
  <2>2. QED BY <1>2, <2>1, ShortIsShort DEF After, Streams
<1>3. QED
  <2>1. Len(s) \in Nat
    BY ShortIsShort, LenProperties DEF Streams
  <2>2. QED BY <1>1, <1>2, <2>1, ShortIsShort DEF Streams

LEMMA AfterAfter ==
  ASSUME NEW s \in Streams, NEW j \in Nat, NEW k \in Nat
  PROVE  After(After(s, j), k) = After(s, j + k)
<1>1. CASE s \in Seq(Octet) /\ j + k <= Len(s)
  <2> DEFINE t == After(s, j)
             u == After(t, k)
             v == After(s, j + k)
  <2>1. Len(s) \in Nat /\ j <= Len(s) /\ j + k \in Nat
    BY <1>1, LenProperties
  <2>2. /\ t \in Seq(Octet) /\ t \in Streams /\ Len(t) = Len(s) - j
        /\ \A i \in 1..(Len(s) - j) : t[i] = s[j + i]
    BY <1>1, <2>1, AfterIs
  <2>3. /\ v \in Seq(Octet) /\ Len(v) = Len(s) - (j + k)
        /\ \A i \in 1..(Len(s) - (j + k)) : v[i] = s[j + k + i]
    BY <1>1, <2>1, AfterIs
  <2> HIDE DEF t, v
  <2>4. k <= Len(t)
    BY <1>1, <2>1, <2>2
  <2>41. /\ u \in Seq(Octet) /\ Len(u) = Len(t) - k
        /\ \A i \in 1..(Len(t) - k) : u[i] = t[k + i]
    BY <2>2, <2>4, AfterIs
  <2> HIDE DEF u
  <2>42. Len(u) = Len(v)
    BY <1>1, <2>1, <2>2, <2>3, <2>41
  <2>43. ASSUME NEW i \in 1..Len(u) PROVE u[i] = v[i]
    <3>1. /\ i \in 1..(Len(t) - k) /\ k + i \in 1..(Len(s) - j)
          /\ i \in 1..(Len(s) - (j + k)) /\ j + (k + i) = j + k + i
      BY <1>1, <2>1, <2>2, <2>3, <2>41
    <3>2. QED BY <3>1, <2>2, <2>3, <2>41
  <2>5. Len(u) = Len(v) /\ \A i \in 1..Len(u) : u[i] = v[i]
    BY <2>42, <2>43
  <2>6. u = v
    BY <2>3, <2>41, <2>5, SeqEqual
  <2>7. QED BY <2>6 DEF u, v, t
<1>2. CASE s = Short \/ j + k > Len(s)
  <2>1. Len(s) \in Nat /\ After(s, j + k) = Short /\ j + k \in Nat
    BY <1>2, AfterIs, ShortIsShort
  <2>2. CASE s = Short \/ j > Len(s)
    <3>1. After(s, j) = Short
      BY <2>2, AfterIs
    <3>2. QED BY <2>1, <3>1 DEF After
  <2>3. CASE s # Short /\ j <= Len(s)
    <3> DEFINE t == After(s, j)
    <3>1. t \in Streams /\ Len(t) = Len(s) - j
      BY <2>3, AfterIs DEF Streams
    <3> HIDE DEF t
    <3>2. k > Len(t)
      BY <1>2, <2>1, <2>3, <3>1
    <3>3. After(t, k) = Short
      BY <3>1, <3>2, AfterIs
    <3>4. QED BY <2>1, <3>3 DEF t
  <2>4. QED BY <2>1, <2>2, <2>3
<1>3. QED
  <2>1. Len(s) \in Nat
    BY ShortIsShort, LenProperties DEF Streams
  <2>2. QED BY <1>1, <1>2, <2>1 DEF Streams

LEMMA AfterNothing ==
  ASSUME NEW s \in Streams
  PROVE  After(s, 0) = s
<1>1. CASE s = Short
  BY <1>1 DEF After
<1>2. CASE s \in Seq(Octet)
  <2>1. Len(s) \in Nat /\ After(s, 0) = SubSeq(s, 1, Len(s))
    BY <1>2, ShortIsShort, LenProperties DEF After
  <2>2. QED BY <1>2, <2>1, SubSeqFull
<1>3. QED BY <1>1, <1>2 DEF Streams

\* Two pieces of what is written, one after the other.
LEMMA Pieces ==
  ASSUME NEW s \in Streams, NEW u \in Seq(Octet), NEW w \in Seq(Octet)
  PROVE  /\ u \o w \in Seq(Octet) /\ Len(u \o w) = Len(u) + Len(w)
         /\ Starts(s, u \o w) => Starts(s, u) /\ Starts(After(s, Len(u)), w)
<1>1. /\ u \o w \in Seq(Octet) /\ Len(u \o w) = Len(u) + Len(w)
      /\ \A i \in 1..(Len(u) + Len(w)) :
            (u \o w)[i] = IF i <= Len(u) THEN u[i] ELSE w[i - Len(u)]
      /\ Len(u) \in Nat /\ Len(w) \in Nat
  BY ConcatProperties, LenProperties
<1> DEFINE uw == u \o w
           t == After(s, Len(u))
<1>2. ASSUME Starts(s, uw), s \in Seq(Octet) PROVE Starts(s, u) /\ Starts(t, w)
  <2> HIDE DEF uw
  <2>1. Len(s) \in Nat
    BY <1>2, LenProperties
  <2>2. Starts(s, u)
    BY <1>1, <1>2, <2>1 DEF Starts, uw
  <2>3. CASE Len(u) <= Len(s)
    <3>1. /\ t \in Seq(Octet) /\ Len(t) = Len(s) - Len(u)
          /\ \A i \in 1..(Len(s) - Len(u)) : t[i] = s[Len(u) + i]
      BY <1>1, <1>2, <2>3, AfterIs
    <3> HIDE DEF t
    <3>2. ASSUME NEW i \in 1..Len(w), i <= Len(t) PROVE t[i] = w[i]
      <4>1. Len(u) + i \in 1..Len(uw) /\ Len(u) + i <= Len(s) /\ i \in 1..(Len(s) - Len(u))
        BY <1>1, <2>1, <2>3, <3>1, <3>2 DEF uw
      <4>2. s[Len(u) + i] = uw[Len(u) + i]
        BY <1>2, <4>1 DEF Starts
      <4>3. uw[Len(u) + i] = w[i]
        BY <1>1 DEF uw
      <4>4. QED BY <3>1, <4>1, <4>2, <4>3
    <3>3. QED BY <2>2, <3>2 DEF Starts
  <2>4. CASE Len(u) > Len(s)
    <3>1. t = Short
      BY <1>1, <2>4, AfterIs
    <3> HIDE DEF t
    <3>2. QED BY <2>2, <3>1, ShortIsShort DEF Starts
  <2>5. QED BY <1>1, <2>1, <2>3, <2>4
<1>3. ASSUME s = Short PROVE Starts(s, u) /\ Starts(t, w)
  <2>1. t = Short
    BY <1>3 DEF After
  <2> HIDE DEF t
  <2>2. QED BY <1>3, <2>1, ShortIsShort DEF Starts
<1>4. QED BY <1>1, <1>2, <1>3 DEF Streams

\* The same with the read of each piece.
LEMMA Then ==
  ASSUME NEW s \in Streams, NEW u \in Seq(Octet), NEW w \in Seq(Octet), Starts(s, u \o w),
         NEW t, t = After(s, Len(u))
  PROVE  /\ Starts(s, u) /\ Starts(t, w) /\ t \in Streams
         /\ After(t, Len(w)) = After(s, Len(u \o w))
<1>1. Len(u) \in Nat /\ Len(w) \in Nat
  BY LenProperties
<1>2. After(s, Len(u)) \in Streams
  BY <1>1, AfterIs
<1>3. After(After(s, Len(u)), Len(w)) = After(s, Len(u) + Len(w))
  BY <1>1, AfterAfter
<1>4. Len(u \o w) = Len(u) + Len(w) /\ Starts(s, u) /\ Starts(After(s, Len(u)), w)
  BY Pieces
<1>5. QED BY <1>2, <1>3, <1>4

-----------------------------------------------------------------------------
(***************************************************************************)
(* Numbers and strings.                                                    *)
(***************************************************************************)
LEMMA ByteRead ==
  ASSUME NEW n \in Int
  PROVE  /\ Byte(n) \in Seq(Octet) /\ Len(Byte(n)) = 1
         /\ \A s \in Streams : Starts(s, Byte(n)) => Gets(ReadByte(s), s, Byte(n), n % 256)
<1> DEFINE b == Byte(n)
<1>1. b \in Seq(Octet) /\ Len(b) = 1 /\ b[1] = n % 256
  <2>1. n % 256 \in Octet
    BY LowByte, OctetIs
  <2>2. QED BY <2>1 DEF Byte
<1> HIDE DEF b
<1>2. ASSUME NEW s \in Streams, Starts(s, b) PROVE Gets(ReadByte(s), s, b, n % 256)
  <2>1. CASE s = Short
    BY <1>1, <2>1 DEF ReadByte, Read, Gets, After
  <2>2. CASE s \in Seq(Octet) /\ s = <<>>
    <3>1. After(s, 1) = Short
      BY <2>2, AfterIs
    <3>2. QED BY <1>1, <2>2, <3>1 DEF ReadByte, Read, Gets
  <2>3. CASE s \in Seq(Octet) /\ s # <<>>
    <3>1. s # Short /\ Len(s) \in Nat /\ Len(s) >= 1
      BY <2>3, ShortIsShort, LenProperties, EmptySeq
    <3>2. ReadByte(s) = Read(Head(s), Tail(s))
      BY <2>3, <3>1 DEF ReadByte
    <3>3. Head(s) = s[1] /\ Tail(s) = SubSeq(s, 2, Len(s))
      BY <2>3, HeadTailProperties, TailIsSubSeq
    <3>4. s[1] = b[1]
      BY <1>1, <1>2, <2>3, <3>1 DEF Starts
    <3>5. After(s, 1) = SubSeq(s, 2, Len(s))
      BY <3>1 DEF After
    <3>6. QED BY <1>1, <3>2, <3>3, <3>4, <3>5 DEF Gets, Read
  <2>4. QED BY <2>1, <2>2, <2>3 DEF Streams
<1>3. QED BY <1>1, <1>2 DEF b

LEMMA NumRead ==
  ASSUME NEW n \in Int
  PROVE  /\ Num(n) \in Seq(Octet) /\ Len(Num(n)) = 2
         /\ \A s \in Streams : Starts(s, Num(n)) => Gets(ReadNum(s), s, Num(n), n % 65536)
<1> DEFINE b == Num(n)
           hi == (n % 65536) \div 256
           lo == n % 256
<1>1. hi \in Octet /\ lo \in Octet /\ 256 * hi + lo = n % 65536
  BY TwoBytes
<1>2. b = <<hi, lo>>
  BY DEF Num
<1> HIDE DEF hi, lo, b
<1>3. b \in Seq(Octet) /\ Len(b) = 2 /\ b[1] = hi /\ b[2] = lo
  BY <1>1, <1>2
<1>4. ASSUME NEW s \in Streams, Starts(s, b) PROVE Gets(ReadNum(s), s, b, n % 65536)
  <2>1. CASE s = Short
    BY <1>3, <2>1, ShortIsShort DEF ReadNum, Read, Gets, After
  <2>2. CASE s \in Seq(Octet) /\ Len(s) < 2
    <3>1. After(s, 2) = Short
      BY <2>2, AfterIs
    <3>2. QED BY <1>3, <2>2, <3>1 DEF ReadNum, Read, Gets
  <2>3. CASE s \in Seq(Octet) /\ ~(Len(s) < 2)
    <3>1. s # Short /\ Len(s) \in Nat /\ Len(s) >= 2
      BY <2>3, ShortIsShort, LenProperties
    <3>2. ReadNum(s) = Read(256 * s[1] + s[2], SubSeq(s, 3, Len(s)))
      BY <2>3 DEF ReadNum
    <3>3. s[1] = hi /\ s[2] = lo
      BY <1>3, <1>4, <2>3, <3>1 DEF Starts
    <3>4. After(s, 2) = SubSeq(s, 3, Len(s))
      BY <3>1 DEF After
    <3>5. QED BY <1>1, <1>3, <3>2, <3>3, <3>4 DEF Gets, Read
  <2>4. QED BY <2>1, <2>2, <2>3 DEF Streams
<1>5. QED BY <1>3, <1>4 DEF b

LEMMA StrRead ==
  ASSUME NEW t \in Text
  PROVE  /\ Str(t) \in Seq(Octet) /\ Len(Str(t)) >= 2
         /\ \A s \in Streams : Starts(s, Str(t)) => Gets(ReadStr(s), s, Str(t), t)
<1>1. t \in Seq(Octet) /\ Len(t) \in Nat
  BY LenProperties DEF Text, Lists
<1>0. Len(t) % 65536 = Len(t)
  <2>1. Len(t) <= 65535
    BY DEF Text, Lists
  <2>2. QED BY <1>1, <2>1
<1> DEFINE k == Num(Len(t))
<1>2. k \in Seq(Octet) /\ Len(k) = 2
  BY <1>1, NumRead
<1>3. Str(t) = k \o t
  BY DEF Str
<1> HIDE DEF k
<1>31. k \o t \in Seq(Octet) /\ Len(k \o t) = Len(k) + Len(t)
  BY <1>1, <1>2, ConcatProperties
<1>32. Str(t) \in Seq(Octet) /\ Len(Str(t)) = 2 + Len(t)
  BY <1>2, <1>3, <1>31
<1>4. ASSUME NEW s \in Streams, Starts(s, Str(t)) PROVE Gets(ReadStr(s), s, Str(t), t)
  <2> DEFINE n == ReadNum(s)
             r == n.rest
  <2>1. Starts(s, k \o t)
    BY <1>3, <1>4
  <2>2. Starts(s, k)
    BY <1>1, <1>2, <2>1, Pieces
  <2>3. Gets(n, s, k, Len(t))
    BY <1>0, <1>1, <2>2, NumRead DEF k
  <2> HIDE DEF n
  <2>4. r = After(s, 2) /\ (r # Short => n.v = Len(t))
    BY <1>2, <2>3 DEF Gets
  <2>5. Starts(r, t) /\ r \in Streams /\ After(r, Len(t)) = After(s, Len(Str(t)))
    BY <1>1, <1>2, <1>3, <1>31, <2>1, <2>4, Then
  <2>6. ReadStr(s) = IF r = Short \/ n.v > Len(r) THEN Read(<<>>, Short)
                     ELSE Read(SubSeq(r, 1, n.v), SubSeq(r, n.v + 1, Len(r)))
    BY DEF ReadStr, n
  <2> HIDE DEF r
  <2>7. CASE r = Short \/ n.v > Len(r)
    <3>1. r = Short \/ Len(t) > Len(r)
      BY <2>4, <2>7
    <3>2. After(r, Len(t)) = Short
      BY <1>1, <2>5, <3>1, AfterIs
    <3>3. QED BY <2>5, <2>6, <2>7, <3>2 DEF Gets, Read
  <2>8. CASE ~(r = Short \/ n.v > Len(r))
    <3>1. r \in Seq(Octet) /\ Len(r) \in Nat /\ n.v = Len(t) /\ Len(t) <= Len(r)
      BY <1>1, <2>4, <2>5, <2>8, LenProperties DEF Streams
    <3>2. After(r, Len(t)) = SubSeq(r, Len(t) + 1, Len(r))
      BY <2>8, <3>1 DEF After
    <3>3. /\ SubSeq(r, 1, Len(t)) \in Seq(Octet) /\ Len(SubSeq(r, 1, Len(t))) = Len(t)
          /\ \A i \in 1..Len(t) : SubSeq(r, 1, Len(t))[i] = r[i]
      <4>1. \A i \in 1..Len(t) : 1 + i - 1 = i
        BY <1>1
      <4>2. QED BY <1>1, <3>1, <4>1, SubSeqProperties
    <3>4. \A i \in 1..Len(t) : r[i] = t[i]
      BY <1>1, <2>5, <3>1 DEF Starts
    <3>5. SubSeq(r, 1, Len(t)) = t
      BY <1>1, <3>3, <3>4, SeqEqual
    <3>6. QED BY <2>5, <2>6, <2>8, <3>1, <3>2, <3>5 DEF Gets, Read
  <2>9. QED BY <2>7, <2>8
<1>5. QED BY <1>1, <1>32, <1>4

-----------------------------------------------------------------------------
(***************************************************************************)
(* Fields.                                                                 *)
(***************************************************************************)
Part(p, D) == [f \in D |-> p[f]]

\* A record is read field by field: e has read those of D, from a stream
\* that starts like w.  The type is read apart.
Got(e, s, w, p, D) ==
    /\ w \in Seq(Octet) /\ (D \ {"type"} # {} => Len(w) >= 1)
    /\ Starts(s, w) => Gets(e, s, w, Part(p, D))

LEMMA OneMore ==
  ASSUME NEW s \in Streams, NEW p, NEW D, NEW name, NEW sofar, NEW u, Got(sofar, s, u, p, D),
         NEW w \in Seq(Octet), Len(w) >= 1 \/ D \ {"type"} # {},
         NEW e,
         Starts(s, u) /\ sofar.rest \in Streams /\ Starts(sofar.rest, w)
            => Gets(e, sofar.rest, w, p[name])
  PROVE  Got(Field(sofar, name, e), s, u \o w, p, D \cup {name})
<1> DEFINE t == sofar.rest
           uw == u \o w
           d == Field(sofar, name, e)
<1>1. u \in Seq(Octet)
  BY DEF Got
<1>2. /\ uw \in Seq(Octet) /\ Len(uw) = Len(u) + Len(w)
      /\ Len(u) \in Nat /\ Len(w) \in Nat
  BY <1>1, ConcatProperties, LenProperties
<1>3. Len(uw) >= 1
  <2>1. Len(u) >= 1 \/ Len(w) >= 1
    BY DEF Got
  <2>2. QED BY <1>2, <2>1
<1>4. ASSUME Starts(s, uw) PROVE Gets(d, s, uw, Part(p, D \cup {name}))
  <2>1. Starts(s, u)
    BY <1>1, <1>4, Pieces
  <2>2. t = After(s, Len(u)) /\ (t # Short => sofar.v = Part(p, D))
    BY <2>1 DEF Got, Gets
  <2>3. Starts(t, w) /\ t \in Streams /\ After(t, Len(w)) = After(s, Len(uw))
    BY <1>1, <1>4, <2>2, Then
  <2>4. e.rest = After(t, Len(w)) /\ (e.rest # Short => e.v = p[name])
    BY <2>1, <2>3 DEF Gets
  <2>5. t = Short => e.rest = Short
    BY <2>4 DEF After
  <2> HIDE DEF t, uw
  <2>6. ASSUME e.rest # Short
        PROVE  With(sofar.v, name, e.v) = Part(p, D \cup {name})
    <3>1. e.v = p[name] /\ sofar.v = [f \in D |-> p[f]]
      BY <2>2, <2>4, <2>5, <2>6 DEF Part
    <3>2. QED BY <3>1 DEF Part, With
  <2>7. d.rest = e.rest /\ d.v = With(sofar.v, name, e.v)
    BY DEF Field, Read
  <2> HIDE DEF d
  <2>8. QED BY <2>3, <2>4, <2>6, <2>7 DEF Gets
<1> HIDE DEF d, uw
<1>5. Got(d, s, uw, p, D \cup {name})
  BY <1>2, <1>3, <1>4 DEF Got
<1>6. QED BY <1>5 DEF d, uw

\* Nothing is read yet, or only the type, which is a code.
LEMMA NothingGot ==
  ASSUME NEW s \in Streams, NEW p
  PROVE  Got(Begin(s), s, <<>>, p, {})
<1>1. Part(p, {}) = <<>> /\ <<>> \in Seq(Octet) /\ Len(<<>>) = 0
  BY DEF Part
<1>2. QED BY <1>1, AfterNothing DEF Got, Gets, Begin, Read

LEMMA FirstGot ==
  ASSUME NEW s \in Streams, NEW p, NEW D, NEW w \in Seq(Octet), NEW e,
         Got(e, s, <<>> \o w, p, {} \cup D)
  PROVE  Got(e, s, w, p, D)
<1>1. <<>> \o w = w /\ {} \cup D = D
  BY ConcatEmptySeq
<1>2. QED BY <1>1

LEMMA WholeGot ==
  ASSUME NEW s \in Streams, NEW p, NEW D, NEW w, NEW e, Got(e, s, w, p, D),
         p = [f \in D |-> p[f]], Starts(s, w)
  PROVE  Gets(e, s, w, p)
  BY DEF Got, Part

-----------------------------------------------------------------------------
(***************************************************************************)
(* Codes, Booleans, places and optionals.                                  *)
(***************************************************************************)
LEMMA CodeRead ==
  ASSUME NEW table, NEW x \in DOMAIN table, table[x] \in Octet,
         \A y \in DOMAIN table : table[y] = table[x] => y = x
  PROVE  /\ Code(table, x) \in Seq(Octet) /\ Len(Code(table, x)) = 1
         /\ \A s \in Streams :
               Starts(s, Code(table, x)) => Gets(ReadCode(s, table), s, Code(table, x), x)
<1>1. table[x] \in Int /\ table[x] % 256 = table[x]
  BY OctetIs
<1> DEFINE w == Byte(table[x])
<1>2. w \in Seq(Octet) /\ Len(w) = 1 /\ Code(table, x) = w
  BY <1>1, ByteRead DEF Code
<1>3. ASSUME NEW s \in Streams, Starts(s, w) PROVE Gets(ReadCode(s, table), s, w, x)
  <2> DEFINE b == ReadByte(s)
             of == {y \in DOMAIN table : table[y] = b.v}
             c == IF of = {} THEN "undefined" ELSE CHOOSE y \in of : TRUE
  <2>1. Gets(b, s, w, table[x])
    BY <1>1, <1>3, ByteRead
  <2>2. ReadCode(s, table) = Read(c, b.rest)
    BY DEF ReadCode
  <2> HIDE DEF b, w
  <2>3. ASSUME b.rest # Short PROVE c = x
    <3>1. b.v = table[x]
      BY <2>1, <2>3 DEF Gets
    <3>2. of = {x}
      BY <3>1
    <3>3. QED BY <3>2
  <2> HIDE DEF c
  <2>4. QED BY <2>1, <2>2, <2>3 DEF Gets, Read
<1>4. QED BY <1>2, <1>3

LEMMA RequestTypeRead ==
  ASSUME NEW x \in DOMAIN RequestCode
  PROVE  /\ Code(RequestCode, x) \in Seq(Octet) /\ Len(Code(RequestCode, x)) = 1
         /\ \A s \in Streams : Starts(s, Code(RequestCode, x)) =>
               Gets(ReadRequestType(s), s, Code(RequestCode, x), x)
<1>1. RequestCode[x] \in Octet /\ \A y \in DOMAIN RequestCode :
         RequestCode[y] = RequestCode[x] => y = x
  BY OctetIs DEF RequestCode
<1>2. QED BY <1>1, CodeRead DEF ReadRequestType

LEMMA GunRead ==
  ASSUME NEW x \in DOMAIN GunCode
  PROVE  /\ Code(GunCode, x) \in Seq(Octet) /\ Len(Code(GunCode, x)) = 1
         /\ \A s \in Streams : Starts(s, Code(GunCode, x)) =>
               Gets(ReadGun(s), s, Code(GunCode, x), x)
<1>1. GunCode[x] \in Octet /\ \A y \in DOMAIN GunCode : GunCode[y] = GunCode[x] => y = x
  BY OctetIs DEF GunCode
<1>2. QED BY <1>1, CodeRead DEF ReadGun

LEMMA WeaponRead ==
  ASSUME NEW x \in DOMAIN WeaponCode
  PROVE  /\ Code(WeaponCode, x) \in Seq(Octet) /\ Len(Code(WeaponCode, x)) = 1
         /\ \A s \in Streams : Starts(s, Code(WeaponCode, x)) =>
               Gets(ReadWeapon(s), s, Code(WeaponCode, x), x)
<1>1. WeaponCode[x] \in Octet /\ \A y \in DOMAIN WeaponCode :
         WeaponCode[y] = WeaponCode[x] => y = x
  BY OctetIs DEF WeaponCode
<1>2. QED BY <1>1, CodeRead DEF ReadWeapon

LEMMA BoolRead ==
  ASSUME NEW b \in BOOLEAN
  PROVE  /\ Bool(b) \in Seq(Octet) /\ Len(Bool(b)) = 1
         /\ \A s \in Streams : Starts(s, Bool(b)) => Gets(ReadBool(s), s, Bool(b), b)
<1> DEFINE n == IF b THEN 1 ELSE 0
<1>1. n \in Int /\ n % 256 = n /\ (n = 1 <=> b)
  OBVIOUS
<1>2. Bool(b) = Byte(n)
  BY DEF Bool
<1> HIDE DEF n
<1>3. ASSUME NEW s \in Streams, Starts(s, Byte(n)) PROVE Gets(ReadBool(s), s, Byte(n), b)
  <2>1. Gets(ReadByte(s), s, Byte(n), n)
    BY <1>1, <1>3, ByteRead
  <2>2. ReadByte(s).rest # Short => (ReadByte(s).v = 1) = b
    BY <1>1, <2>1 DEF Gets
  <2>3. QED BY <2>1, <2>2 DEF Gets, ReadBool, Read
<1>4. QED BY <1>1, <1>2, <1>3, ByteRead

LEMMA CodeByte ==
  ASSUME NEW k \in Octet
  PROVE  <<k>> = Byte(k) /\ k % 256 = k /\ k \in Int
<1>1. k \in Int /\ k % 256 = k
  BY OctetIs
<1>2. QED BY <1>1 DEF Byte

LEMMA TypeGot ==
  ASSUME NEW s \in Streams, NEW p, NEW type, p.type = type
  PROVE  Got(BeginWith(type, s), s, <<>>, p, {"type"})
<1>1. Part(p, {"type"}) = [type |-> type]
  BY DEF Part
<1>2. <<>> \in Seq(Octet) /\ Len(<<>>) = 0 /\ {"type"} \ {"type"} = {}
  OBVIOUS
<1>3. QED BY <1>1, <1>2, AfterNothing DEF Got, Gets, BeginWith, Read

\* The number as the byte says it.
AsByte(n) == n % 256

LEMMA GetByteGot ==
  ASSUME NEW s \in Streams, NEW p, NEW D, NEW name, NEW sofar, NEW u, Got(sofar, s, u, p, D),
         NEW n \in Int, p[name] = AsByte(n)
  PROVE  Got(GetByte(sofar, name), s, u \o Byte(n), p, D \cup {name})
<1> DEFINE w == Byte(n)
           e == ReadByte(sofar.rest)
<1>0. /\ w \in Seq(Octet) /\ Len(w) = 1
      /\ \A t \in Streams : Starts(t, w) => Gets(ReadByte(t), t, w, AsByte(n))
  BY ByteRead DEF AsByte
<1> HIDE DEF w
<1>1. w \in Seq(Octet) /\ Len(w) >= 1
  BY <1>0, LenProperties
<1>2. sofar.rest \in Streams /\ Starts(sofar.rest, w) => Gets(e, sofar.rest, w, p[name])
  BY <1>0
<1>3. GetByte(sofar, name) = Field(sofar, name, e)
  BY DEF GetByte
<1> HIDE DEF e
<1>4. Got(Field(sofar, name, e), s, u \o w, p, D \cup {name})
  BY <1>1, <1>2, OneMore
<1>5. QED BY <1>3, <1>4 DEF w

\* The number as the two bytes say it.
AsWord(n) == n % 65536

LEMMA GetNumGot ==
  ASSUME NEW s \in Streams, NEW p, NEW D, NEW name, NEW sofar, NEW u, Got(sofar, s, u, p, D),
         NEW n \in Int, p[name] = AsWord(n)
  PROVE  Got(GetNum(sofar, name), s, u \o Num(n), p, D \cup {name})
<1> DEFINE w == Num(n)
           e == ReadNum(sofar.rest)
<1>0. /\ w \in Seq(Octet) /\ Len(w) = 2
      /\ \A t \in Streams : Starts(t, w) => Gets(ReadNum(t), t, w, AsWord(n))
  BY NumRead DEF AsWord
<1> HIDE DEF w
<1>1. w \in Seq(Octet) /\ Len(w) >= 1
  BY <1>0, LenProperties
<1>2. sofar.rest \in Streams /\ Starts(sofar.rest, w) => Gets(e, sofar.rest, w, p[name])
  BY <1>0
<1>3. GetNum(sofar, name) = Field(sofar, name, e)
  BY DEF GetNum
<1> HIDE DEF e
<1>4. Got(Field(sofar, name, e), s, u \o w, p, D \cup {name})
  BY <1>1, <1>2, OneMore
<1>5. QED BY <1>3, <1>4 DEF w

LEMMA GetStrGot ==
  ASSUME NEW s \in Streams, NEW p, NEW D, NEW name, NEW sofar, NEW u, Got(sofar, s, u, p, D),
         NEW text \in Text, p[name] = text
  PROVE  Got(GetStr(sofar, name), s, u \o Str(text), p, D \cup {name})
<1> DEFINE w == Str(text)
           e == ReadStr(sofar.rest)
<1>0. /\ w \in Seq(Octet) /\ Len(w) >= 2
      /\ \A t \in Streams : Starts(t, w) => Gets(ReadStr(t), t, w, text)
  BY StrRead
<1> HIDE DEF w
<1>1. w \in Seq(Octet) /\ Len(w) >= 1
  BY <1>0, LenProperties
<1>2. sofar.rest \in Streams /\ Starts(sofar.rest, w) => Gets(e, sofar.rest, w, p[name])
  BY <1>0
<1>3. GetStr(sofar, name) = Field(sofar, name, e)
  BY DEF GetStr
<1> HIDE DEF e
<1>4. Got(Field(sofar, name, e), s, u \o w, p, D \cup {name})
  BY <1>1, <1>2, OneMore
<1>5. QED BY <1>3, <1>4 DEF w

LEMMA GetRequestTypeGot ==
  ASSUME NEW s \in Streams, NEW p, NEW D, NEW name, NEW sofar, NEW u, Got(sofar, s, u, p, D),
         NEW x \in DOMAIN RequestCode, p[name] = x
  PROVE  Got(GetRequestType(sofar, name), s, u \o Code(RequestCode, x), p, D \cup {name})
<1> DEFINE w == Code(RequestCode, x)
           e == ReadRequestType(sofar.rest)
<1>0. /\ w \in Seq(Octet) /\ Len(w) = 1
      /\ \A t \in Streams : Starts(t, w) => Gets(ReadRequestType(t), t, w, x)
  BY RequestTypeRead
<1> HIDE DEF w
<1>1. w \in Seq(Octet) /\ Len(w) >= 1
  BY <1>0, LenProperties
<1>2. sofar.rest \in Streams /\ Starts(sofar.rest, w) => Gets(e, sofar.rest, w, p[name])
  BY <1>0
<1>3. GetRequestType(sofar, name) = Field(sofar, name, e)
  BY DEF GetRequestType
<1> HIDE DEF e
<1>4. Got(Field(sofar, name, e), s, u \o w, p, D \cup {name})
  BY <1>1, <1>2, OneMore
<1>5. QED BY <1>3, <1>4 DEF w

LEMMA GetGunGot ==
  ASSUME NEW s \in Streams, NEW p, NEW D, NEW name, NEW sofar, NEW u, Got(sofar, s, u, p, D),
         NEW x \in DOMAIN GunCode, p[name] = x
  PROVE  Got(GetGun(sofar, name), s, u \o Code(GunCode, x), p, D \cup {name})
<1> DEFINE w == Code(GunCode, x)
           e == ReadGun(sofar.rest)
<1>0. /\ w \in Seq(Octet) /\ Len(w) = 1
      /\ \A t \in Streams : Starts(t, w) => Gets(ReadGun(t), t, w, x)
  BY GunRead
<1> HIDE DEF w
<1>1. w \in Seq(Octet) /\ Len(w) >= 1
  BY <1>0, LenProperties
<1>2. sofar.rest \in Streams /\ Starts(sofar.rest, w) => Gets(e, sofar.rest, w, p[name])
  BY <1>0
<1>3. GetGun(sofar, name) = Field(sofar, name, e)
  BY DEF GetGun
<1> HIDE DEF e
<1>4. Got(Field(sofar, name, e), s, u \o w, p, D \cup {name})
  BY <1>1, <1>2, OneMore
<1>5. QED BY <1>3, <1>4 DEF w

LEMMA GetWeaponGot ==
  ASSUME NEW s \in Streams, NEW p, NEW D, NEW name, NEW sofar, NEW u, Got(sofar, s, u, p, D),
         NEW x \in DOMAIN WeaponCode, p[name] = x
  PROVE  Got(GetWeapon(sofar, name), s, u \o Code(WeaponCode, x), p, D \cup {name})
<1> DEFINE w == Code(WeaponCode, x)
           e == ReadWeapon(sofar.rest)
<1>0. /\ w \in Seq(Octet) /\ Len(w) = 1
      /\ \A t \in Streams : Starts(t, w) => Gets(ReadWeapon(t), t, w, x)
  BY WeaponRead
<1> HIDE DEF w
<1>1. w \in Seq(Octet) /\ Len(w) >= 1
  BY <1>0, LenProperties
<1>2. sofar.rest \in Streams /\ Starts(sofar.rest, w) => Gets(e, sofar.rest, w, p[name])
  BY <1>0
<1>3. GetWeapon(sofar, name) = Field(sofar, name, e)
  BY DEF GetWeapon
<1> HIDE DEF e
<1>4. Got(Field(sofar, name, e), s, u \o w, p, D \cup {name})
  BY <1>1, <1>2, OneMore
<1>5. QED BY <1>3, <1>4 DEF w

LEMMA GetBoolGot ==
  ASSUME NEW s \in Streams, NEW p, NEW D, NEW name, NEW sofar, NEW u, Got(sofar, s, u, p, D),
         NEW b \in BOOLEAN, p[name] = b
  PROVE  Got(GetBool(sofar, name), s, u \o Bool(b), p, D \cup {name})
<1> DEFINE w == Bool(b)
           e == ReadBool(sofar.rest)
<1>0. /\ w \in Seq(Octet) /\ Len(w) = 1
      /\ \A t \in Streams : Starts(t, w) => Gets(ReadBool(t), t, w, b)
  BY BoolRead
<1> HIDE DEF w
<1>1. w \in Seq(Octet) /\ Len(w) >= 1
  BY <1>0, LenProperties
<1>2. sofar.rest \in Streams /\ Starts(sofar.rest, w) => Gets(e, sofar.rest, w, p[name])
  BY <1>0
<1>3. GetBool(sofar, name) = Field(sofar, name, e)
  BY DEF GetBool
<1> HIDE DEF e
<1>4. Got(Field(sofar, name, e), s, u \o w, p, D \cup {name})
  BY <1>1, <1>2, OneMore
<1>5. QED BY <1>3, <1>4 DEF w

LEMMA PosRead ==
  ASSUME NEW p \in Points
  PROVE  /\ Pos(p) \in Seq(Octet) /\ Len(Pos(p)) >= 1
         /\ \A s \in Streams : Starts(s, Pos(p)) => Gets(ReadPos(s), s, Pos(p), Wrapped(p))
<1> DEFINE q == Wrapped(p)
           wx == Num(p.x)
           wy == Num(p.y)
<1>1. p.x \in Int /\ p.y \in Int /\ q["x"] = AsWord(p.x) /\ q["y"] = AsWord(p.y)
  BY DEF Points, Wrapped, AsWord
<1>2. q = [f \in {"x", "y"} |-> q[f]]
  BY DEF Wrapped
<1> HIDE DEF q
<1>3. wx \in Seq(Octet) /\ Len(wx) = 2 /\ wy \in Seq(Octet) /\ Len(wy) = 2
  BY <1>1, NumRead
<1>4. Pos(p) = wx \o wy
  BY DEF Pos
<1>5. ASSUME NEW s \in Streams
      PROVE  Got(ReadPos(s), s, wx \o wy, q, {"x", "y"})
  <2>1. Got(GetNum(Begin(s), "x"), s, <<>> \o wx, q, {} \cup {"x"})
    BY <1>1, NothingGot, GetNumGot
  <2> HIDE DEF wx
  <2>2. Got(GetNum(Begin(s), "x"), s, wx, q, {"x"})
    BY <1>3, <2>1, FirstGot
  <2>3. Got(GetNum(GetNum(Begin(s), "x"), "y"), s, wx \o wy, q, {"x"} \cup {"y"})
    BY <1>1, <2>2, GetNumGot
  <2>4. {"x"} \cup {"y"} = {"x", "y"}
    OBVIOUS
  <2>5. QED BY <2>3, <2>4 DEF ReadPos
<1> HIDE DEF wx, wy
<1>6. wx \o wy \in Seq(Octet) /\ Len(wx \o wy) = 4
  <2>1. wx \o wy \in Seq(Octet) /\ Len(wx \o wy) = Len(wx) + Len(wy)
    BY <1>3, ConcatProperties
  <2>2. QED BY <1>3, <2>1
<1>7. ASSUME NEW s \in Streams, Starts(s, wx \o wy)
      PROVE  Gets(ReadPos(s), s, wx \o wy, q)
  BY <1>2, <1>5, <1>7, WholeGot
<1>8. QED BY <1>4, <1>6, <1>7 DEF q

\* An optional: whether there is one, and what or its padding.
LEMMA OptionalRead ==
  ASSUME NEW s \in Streams, NEW has \in BOOLEAN, NEW w \in Seq(Octet), NEW x,
         NEW b, b = ReadBool(s), NEW e,
         b.rest \in Streams /\ Starts(b.rest, w) => Gets(e, b.rest, w, x),
         Starts(s, Bool(has) \o w)
  PROVE  Gets(Optional(b, e), s, Bool(has) \o w, IF has THEN {x} ELSE {})
<1> DEFINE u == Bool(has)
           t == b.rest
<1>1. u \in Seq(Octet) /\ Len(u) = 1 /\ Starts(s, u \o w)
  BY BoolRead
<1>2. Starts(s, u)
  <2> HIDE DEF u
  <2>1. QED BY <1>1, Pieces
<1>3. Gets(b, s, u, has)
  BY <1>2, BoolRead
<1> HIDE DEF u
<1>4. t = After(s, Len(u)) /\ (t # Short => b.v = has)
  BY <1>3 DEF Gets
<1>5. Starts(t, w) /\ t \in Streams /\ After(t, Len(w)) = After(s, Len(u \o w))
  <2> HIDE DEF t
  <2>1. QED BY <1>1, <1>4, Then
<1>6. e.rest = After(t, Len(w)) /\ (e.rest # Short => e.v = x)
  BY <1>5 DEF Gets
<1> HIDE DEF t
<1>7. t = Short => e.rest = Short
  BY <1>6 DEF After
<1>8. /\ Optional(b, e).rest = e.rest
      /\ Optional(b, e).v = IF b.v THEN {e.v} ELSE {}
  BY DEF Optional, Read
<1> DEFINE o == Optional(b, e)
<1> HIDE DEF o
<1>9. Gets(o, s, u \o w, IF has THEN {x} ELSE {})
  BY <1>4, <1>5, <1>6, <1>7, <1>8 DEF Gets, o
<1>10. QED BY <1>9 DEF u, o

\* An optional has at most one value.
LEMMA OptionalIs ==
  ASSUME NEW S, NEW o \in Optionals(S), NEW padding
  PROVE  o = {} \/ (ValueOf(o, padding) \in S /\ o = {ValueOf(o, padding)})
<1>1. CASE o # {}
  <2>1. PICK x : x \in o
    BY <1>1
  <2>2. o = {x} /\ x \in S
    BY <2>1 DEF Optionals
  <2>3. ValueOf(o, padding) = x
    BY <2>2 DEF ValueOf
  <2>4. QED BY <2>2, <2>3
<1>2. QED BY <1>1

-----------------------------------------------------------------------------
(***************************************************************************)
(* The lobby.                                                              *)
(***************************************************************************)
LEMMA RequestRead ==
  ASSUME NEW r \in AllRequests
  PROVE  /\ WriteRequest(r) \in Seq(Octet) /\ Len(WriteRequest(r)) >= 1
         /\ \A s \in Streams :
               Starts(s, WriteRequest(r)) => Gets(ReadRequest(s), s, WriteRequest(r), r)
<1> DEFINE w1 == Code(RequestCode, r.type)
           w2 == Str(r.text)
           D == {"type", "text"}
<1>1. /\ r.type \in DOMAIN RequestCode /\ r.text \in Text
      /\ r["type"] = r.type /\ r["text"] = r.text
      /\ r = [f \in D |-> r[f]]
  BY DEF AllRequests
<1>2. w1 \in Seq(Octet)
  BY <1>1, RequestTypeRead
<1>3. WriteRequest(r) = w1 \o w2
  BY DEF WriteRequest
<1>4. ASSUME NEW s \in Streams
      PROVE  Got(ReadRequest(s), s, w1 \o w2, r, D)
  <2> DEFINE e1 == GetRequestType(Begin(s), "type")
  <2>1. Got(e1, s, <<>> \o w1, r, {} \cup {"type"})
    BY <1>1, NothingGot, GetRequestTypeGot
  <2> HIDE DEF e1, w1
  <2>2. Got(e1, s, w1, r, {"type"})
    BY <1>2, <2>1, FirstGot
  <2>3. Got(GetStr(e1, "text"), s, w1 \o w2, r, {"type"} \cup {"text"})
    BY <1>1, <2>2, GetStrGot
  <2>4. {"type"} \cup {"text"} = D
    OBVIOUS
  <2>5. QED BY <2>3, <2>4 DEF ReadRequest, e1
<1> DEFINE w == w1 \o w2
<1>5. \A s \in Streams : Got(ReadRequest(s), s, w, r, D)
  BY <1>4
<1> HIDE DEF w
<1>6. w \in Seq(Octet) /\ Len(w) >= 1
  <2>1. Short \in Streams /\ "text" \in D \ {"type"}
    BY DEF Streams
  <2> HIDE DEF D
  <2>2. Got(ReadRequest(Short), Short, w, r, D) /\ D \ {"type"} # {}
    BY <1>5, <2>1
  <2>3. QED BY <2>2 DEF Got
<1>7. \A s \in Streams : Starts(s, w) => Gets(ReadRequest(s), s, w, r)
  BY <1>1, <1>5, WholeGot
<1>8. QED BY <1>3, <1>6, <1>7 DEF w

\* Only of a created game there is a name in the answer.
LEMMA AnswerRead ==
  ASSUME NEW a \in Answers, a.type # "create_game" => a.name = <<>>
  PROVE  /\ WriteAnswer(a) \in Seq(Octet) /\ Len(WriteAnswer(a)) >= 1
         /\ \A s \in Streams :
               Starts(s, WriteAnswer(a)) => Gets(ReadAnswer(s), s, WriteAnswer(a), a)
<1> DEFINE w1 == Code(RequestCode, a.type)
           w2 == Byte(a.status)
           w3 == IF a.type = "create_game" THEN Str(a.name) ELSE <<>>
           D == {"type", "status", "name"}
<1>1. /\ a.type \in DOMAIN RequestCode /\ a.status \in Octet /\ a.name \in Text
      /\ a["type"] = a.type /\ a["status"] = a.status /\ a["name"] = a.name
      /\ a = [f \in D |-> a[f]]
  <2>1. Success \in Octet
    BY OctetIs DEF Success
  <2>2. <<>> \in Text
    BY DEF Text, Lists
  <2>3. QED BY <2>1, <2>2, WireAssumption DEF Answers
<1>2. /\ w1 \in Seq(Octet) /\ w2 \in Seq(Octet) /\ w3 \in Seq(Octet)
      /\ a.status \in Int /\ AsByte(a.status) = a.status
  <2>1. w1 \in Seq(Octet)
    BY <1>1, RequestTypeRead
  <2>2. a.status \in Int /\ AsByte(a.status) = a.status
    BY <1>1, CodeByte DEF AsByte
  <2>3. w2 \in Seq(Octet)
    BY <2>2, ByteRead
  <2>4. Str(a.name) \in Seq(Octet)
    BY <1>1, StrRead
  <2>5. QED BY <2>1, <2>2, <2>3, <2>4
<1>3. WriteAnswer(a) = (w1 \o w2) \o w3
  BY DEF WriteAnswer
<1>4. ASSUME NEW s \in Streams
      PROVE  Got(ReadAnswer(s), s, (w1 \o w2) \o w3, a, D)
  <2> DEFINE e1 == GetRequestType(Begin(s), "type")
             e2 == GetByte(e1, "status")
             e3 == IF e2.v.type = "create_game" THEN ReadStr(e2.rest)
                   ELSE Read(<<>>, e2.rest)
             u2 == w1 \o w2
  <2>1. Got(e1, s, <<>> \o w1, a, {} \cup {"type"})
    BY <1>1, NothingGot, GetRequestTypeGot
  <2> HIDE DEF e1, w1
  <2>2. Got(e1, s, w1, a, {"type"})
    BY <1>2, <2>1, FirstGot
  <2>3. Got(e2, s, u2, a, {"type"} \cup {"status"})
    BY <1>1, <1>2, <2>2, GetByteGot
  <2> HIDE DEF w2, e2
  <2>4. ASSUME Starts(s, u2), e2.rest \in Streams, Starts(e2.rest, w3)
        PROVE  Gets(e3, e2.rest, w3, a["name"])
    <3>1. Gets(e2, s, u2, Part(a, {"type"} \cup {"status"}))
      BY <2>3, <2>4 DEF Got
    <3>2. e2.rest # Short => e2.v.type = a.type
      BY <1>1, <3>1 DEF Gets, Part
    <3>3. CASE a.type = "create_game" /\ e2.rest # Short
      <4>1. w3 = Str(a.name) /\ e3 = ReadStr(e2.rest)
        BY <3>2, <3>3
      <4>2. QED BY <1>1, <2>4, <4>1, StrRead
    <3>4. CASE a.type # "create_game" /\ e2.rest # Short
      <4>1. w3 = <<>> /\ e3 = Read(<<>>, e2.rest) /\ a["name"] = <<>>
        BY <1>1, <3>2, <3>4
      <4>2. Gets(e3, e2.rest, <<>>, <<>>)
        BY <2>4, <4>1, AfterNothing DEF Gets, Read
      <4>3. QED BY <4>1, <4>2
    <3>5. CASE e2.rest = Short
      <4>1. Short \in Streams /\ Short # <<>> /\ Len(Short) = 1
        <5>1. <<>> \in Seq(Octet)
          OBVIOUS
        <5>2. QED BY <5>1, ShortIsShort DEF Streams
      <4>2. After(Short, Len(w3)) = Short
        BY DEF After
      <4>3. ReadStr(Short).rest = Short
        BY <4>1 DEF ReadStr, ReadNum, Read
      <4>4. e3.rest = Short
        BY <3>5, <4>3 DEF Read
      <4>5. QED
        <5> HIDE DEF e3, w3
        <5>1. QED BY <3>5, <4>2, <4>4 DEF Gets
    <3>6. QED BY <3>3, <3>4, <3>5
  <2> HIDE DEF e3, w3, u2
  <2>5. Got(Field(e2, "name", e3), s, u2 \o w3, a, ({"type"} \cup {"status"}) \cup {"name"})
    <3> DEFINE E == {"type"} \cup {"status"}
    <3>1. E \ {"type"} # {} /\ w3 \in Seq(Octet) /\ Got(e2, s, u2, a, E)
      BY <1>2, <2>3
    <3> HIDE DEF E
    <3>2. Got(Field(e2, "name", e3), s, u2 \o w3, a, E \cup {"name"})
      BY <2>4, <3>1, OneMore
    <3>3. QED BY <3>2 DEF E
  <2>6. ({"type"} \cup {"status"}) \cup {"name"} = D
    OBVIOUS
  <2>7. ReadAnswer(s) = Field(e2, "name", e3)
    BY DEF ReadAnswer, GetGameName, e1, e2, e3
  <2>8. QED BY <2>5, <2>6, <2>7 DEF u2
<1> DEFINE w == (w1 \o w2) \o w3
<1>5. \A s \in Streams : Got(ReadAnswer(s), s, w, a, D)
  BY <1>4
<1> HIDE DEF w
<1>6. w \in Seq(Octet) /\ Len(w) >= 1
  <2>1. Short \in Streams /\ "status" \in D \ {"type"}
    BY DEF Streams
  <2> HIDE DEF D
  <2>2. Got(ReadAnswer(Short), Short, w, a, D) /\ D \ {"type"} # {}
    BY <1>5, <2>1
  <2>3. QED BY <2>2 DEF Got
<1>7. \A s \in Streams : Starts(s, w) => Gets(ReadAnswer(s), s, w, a)
  BY <1>1, <1>5, WholeGot
<1>8. QED BY <1>3, <1>6, <1>7 DEF w

\* What is read depends on a code.
LEMMA ByteShort ==
  ASSUME NEW s \in Streams, ReadByte(s).rest = Short
  PROVE  ReadByte(s).v = 0
<1>1. CASE s \in {<<>>, Short}
  BY <1>1 DEF ReadByte, Read
<1>2. CASE s \notin {<<>>, Short}
  <2>1. s \in Seq(Octet) /\ s # <<>> /\ ReadByte(s).rest = Tail(s)
    BY <1>2 DEF Streams, ReadByte, Read
  <2>2. Tail(s) \in Seq(Octet)
    BY <2>1, HeadTailProperties
  <2>3. QED BY <2>1, <2>2, ShortIsShort
<1>3. QED BY <1>1, <1>2

LEMMA Dispatched ==
  ASSUME NEW s \in Streams, NEW k \in Octet, NEW w \in Seq(Octet), NEW x,
         NEW b, b = ReadByte(s), NEW e,
         b.rest \in Streams /\ Starts(b.rest, w) => Gets(e, b.rest, w, x),
         NEW d, b.v = k => d = e, b.rest = Short => d.rest = Short,
         Starts(s, <<k>> \o w)
  PROVE  Gets(d, s, <<k>> \o w, x)
<1> DEFINE u == <<k>>
           t == b.rest
<1>1. u \in Seq(Octet) /\ Len(u) = 1
  OBVIOUS
<1>2. u = Byte(k) /\ k % 256 = k /\ k \in Int
  BY CodeByte
<1> HIDE DEF u
<1>3. Starts(s, u \o w)
  BY DEF u
<1>4. Gets(b, s, u, k)
  <2>1. Starts(s, u)
    BY <1>1, <1>3, Pieces
  <2>2. QED BY <1>2, <2>1, ByteRead
<1>5. t = After(s, Len(u)) /\ (t # Short => b.v = k)
  BY <1>4 DEF Gets
<1> HIDE DEF t
<1>6. Starts(t, w) /\ t \in Streams /\ After(t, Len(w)) = After(s, Len(u \o w))
  BY <1>1, <1>3, <1>5, Then
<1>7. Gets(e, t, w, x)
  BY <1>6 DEF t
<1>8. CASE t # Short
  <2>1. d = e
    BY <1>5, <1>8
  <2>2. QED BY <1>6, <1>7, <2>1 DEF Gets, u
<1>9. CASE t = Short
  <2>1. After(t, Len(w)) = Short /\ d.rest = Short
    BY <1>9 DEF After, t
  <2>2. QED BY <1>6, <2>1 DEF Gets, u
<1>10. QED BY <1>8, <1>9

-----------------------------------------------------------------------------
(***************************************************************************)
(* Commands, without the code of their kind and with it.                   *)
(***************************************************************************)
\* A command of one field after its type.
LEMMA OneFieldRead ==
  ASSUME NEW s \in Streams, NEW p, NEW name, p = [f \in {"type", name} |-> p[f]],
         NEW w, NEW e, Got(e, s, <<>> \o w, p, {"type"} \cup {name}), w \in Seq(Octet),
         Starts(s, w)
  PROVE  Gets(e, s, w, p)
<1>1. <<>> \o w = w /\ {"type"} \cup {name} = {"type", name}
  BY ConcatEmptySeq
<1>2. Got(e, s, w, p, {"type", name})
  BY <1>1
<1>3. QED BY <1>2, WholeGot

LEMMA DirectionIs ==
  ASSUME NEW d \in DOMAIN DirectionCode
  PROVE  /\ DirectionCode[d] + 1 \in Octet
         /\ \A x \in DOMAIN DirectionCode : DirectionCode[x] = DirectionCode[d] => x = d
         /\ DirectionCode[d] \in Int
  BY OctetIs DEF DirectionCode

LEMMA MoveRead ==
  ASSUME NEW c \in [type : {"move"}, dir : DOMAIN DirectionCode, on : BOOLEAN]
  PROVE  /\ WriteMove(c) \in Seq(Octet)
         /\ \A s \in Streams :
               Starts(s, WriteMove(c)) => Gets(ReadMove(s), s, WriteMove(c), c)
<1> DEFINE n == DirectionCode[c.dir] + 1
           w1 == Byte(n)
           w2 == Bool(c.on)
<1>1. /\ c.dir \in DOMAIN DirectionCode /\ c.on \in BOOLEAN
      /\ c = [type |-> "move", dir |-> c.dir, on |-> c.on]
  OBVIOUS
<1>2. n \in Octet /\ n \in Int /\ n % 256 = n
  <2>1. n \in Octet
    BY <1>1, DirectionIs
  <2> HIDE DEF n
  <2>2. QED BY <2>1, CodeByte
<1> HIDE DEF n
<1>3. w1 \in Seq(Octet) /\ w2 \in Seq(Octet) /\ WriteMove(c) = w1 \o w2
  BY <1>1, <1>2, ByteRead, BoolRead DEF WriteMove, n
<1>4. w1 \o w2 \in Seq(Octet)
  BY <1>3, ConcatProperties
<1>5. ASSUME NEW s \in Streams, Starts(s, w1 \o w2)
      PROVE  Gets(ReadMove(s), s, w1 \o w2, c)
  <2> DEFINE b == ReadByte(s)
             on == ReadBool(b.rest)
             t == b.rest
             of == {d \in DOMAIN DirectionCode : DirectionCode[d] = b.v - 1}
             dir == IF of = {} THEN "undefined" ELSE CHOOSE d \in of : TRUE
  <2>1. Starts(s, w1)
    <3> HIDE DEF w1, w2
    <3>1. QED BY <1>3, <1>5, Pieces
  <2>2. Gets(b, s, w1, n)
    BY <1>2, <2>1, ByteRead
  <2> HIDE DEF b, w1
  <2>3. t = After(s, Len(w1)) /\ (t # Short => b.v = n)
    BY <2>2 DEF Gets
  <2>4. Starts(t, w2) /\ t \in Streams /\ After(t, Len(w2)) = After(s, Len(w1 \o w2))
    <3> HIDE DEF t, w2
    <3>1. QED BY <1>3, <1>5, <2>3, Then
  <2>5. Gets(on, t, w2, c.on)
    BY <1>1, <2>4, BoolRead
  <2> HIDE DEF on, t, w2
  <2>6. on.rest = After(t, Len(w2)) /\ (on.rest # Short => on.v = c.on)
    BY <2>5 DEF Gets
  <2>7. t = Short => on.rest = Short
    BY <2>6 DEF After
  <2>8. t # Short => dir = c.dir
    <3>1. ASSUME t # Short PROVE of = {c.dir}
      <4>1. b.v - 1 = DirectionCode[c.dir]
        BY <1>1, <2>3, <3>1, DirectionIs DEF n
      <4>2. QED BY <1>1, <4>1, DirectionIs
    <3>2. QED BY <3>1
  <2>9. /\ ReadMove(s).rest = on.rest
        /\ ReadMove(s).v = [type |-> "move", dir |-> dir, on |-> on.v]
    BY DEF ReadMove, Read, b, on, t
  <2> HIDE DEF dir
  <2>10. QED BY <1>1, <2>4, <2>6, <2>7, <2>8, <2>9 DEF Gets
<1>6. QED BY <1>3, <1>4, <1>5

LEMMA ReadCommandIs ==
  ASSUME NEW s \in Streams, NEW b, b = ReadByte(s)
  PROVE  /\ b.v = 9 => ReadCommand(s) = ReadMove(b.rest)
         /\ b.v = 8 => ReadCommand(s) = ReadRotate(b.rest)
         /\ b.v = 16 => ReadCommand(s) = ReadSwitch(b.rest, "action")
         /\ b.v = 19 => ReadCommand(s) = ReadSwitch(b.rest, "defuse")
         /\ b.v = 17 => ReadCommand(s) = ReadEquip(b.rest)
         /\ b.v = 20 => ReadCommand(s) = Read([type |-> "pick_up"], b.rest)
         /\ b.v = 6 => ReadCommand(s) = ReadBuyGun(b.rest)
         /\ b.v = 7 => ReadCommand(s) = ReadBuyAmmo(b.rest)
         /\ b.v = 21 => ReadCommand(s) = Read([type |-> "start"], b.rest)
         /\ b.rest = Short => ReadCommand(s).rest = Short
<1>1. b.rest = Short => b.v = 0
  BY ByteShort
<1> DEFINE other == Read([type |-> "unknown"], b.rest)
<1>2. other.rest = b.rest
  BY DEF Read
<1> HIDE DEF other
<1>3. b.v = 0 => ReadCommand(s) = other
  BY DEF ReadCommand, other
<1>4. QED BY <1>1, <1>2, <1>3 DEF ReadCommand

LEMMA SwitchRead ==
  ASSUME NEW c, NEW type, c \in [type : {type}, on : BOOLEAN]
  PROVE  /\ Bool(c.on) \in Seq(Octet)
         /\ \A s \in Streams :
               Starts(s, Bool(c.on)) => Gets(ReadSwitch(s, type), s, Bool(c.on), c)
<1> DEFINE w == Bool(c.on)
<1>1. c.on \in BOOLEAN /\ c.type = type /\ c["on"] = c.on /\ c = [f \in {"type", "on"} |-> c[f]]
  OBVIOUS
<1>2. w \in Seq(Octet)
  BY <1>1, BoolRead
<1>3. ASSUME NEW s \in Streams, Starts(s, w) PROVE Gets(ReadSwitch(s, type), s, w, c)
  <2>1. Got(GetBool(BeginWith(type, s), "on"), s, <<>> \o w, c, {"type"} \cup {"on"})
    BY <1>1, TypeGot, GetBoolGot
  <2> HIDE DEF w
  <2>2. QED BY <1>1, <1>2, <1>3, <2>1, OneFieldRead DEF ReadSwitch
<1>4. QED BY <1>2, <1>3

LEMMA RotateRead ==
  ASSUME NEW c \in [type : {"rotate"}, angle : Angles]
  PROVE  /\ Num(AngleCode(c.angle)) \in Seq(Octet)
         /\ \A s \in Streams : Starts(s, Num(AngleCode(c.angle))) =>
               Gets(ReadRotate(s), s, Num(AngleCode(c.angle)), Arriving(c))
<1> DEFINE n == AngleCode(c.angle)
           w == Num(n)
           d == Arriving(c)
<1>1. c.angle \in Int /\ c.type = "rotate" /\ c = [type |-> "rotate", angle |-> c.angle]
  BY DEF Angles
<1>2. n \in Int /\ AsWord(n) = n
  <2> DEFINE m == Truncated(c.angle * 65535, 360)
  <2>1. m \in Int
    <3>1. c.angle * 65535 \in Int
      BY <1>1
    <3> DEFINE a == c.angle * 65535
    <3> HIDE DEF a
    <3>2. a \in Int => Truncated(a, 360) \in Int
      BY DEF Truncated
    <3>3. QED BY <3>1, <3>2 DEF a
  <2> HIDE DEF m
  <2>2. m % 65536 \in Int /\ (m % 65536) % 65536 = m % 65536
    BY <2>1
  <2>3. QED BY <2>2 DEF AngleCode, AsWord, m
<1> HIDE DEF n
<1>3. w \in Seq(Octet)
  BY <1>2, NumRead
<1>4. d = [type |-> "rotate", angle |-> n]
  BY <1>1 DEF Arriving, n
<1>5. d.type = "rotate" /\ d["angle"] = AsWord(n) /\ d = [f \in {"type", "angle"} |-> d[f]]
  BY <1>2, <1>4
<1> HIDE DEF d
<1>6. ASSUME NEW s \in Streams, Starts(s, w) PROVE Gets(ReadRotate(s), s, w, d)
  <2>1. Got(GetNum(BeginWith("rotate", s), "angle"), s, <<>> \o w, d, {"type"} \cup {"angle"})
    BY <1>2, <1>5, TypeGot, GetNumGot
  <2> HIDE DEF w
  <2>2. QED BY <1>3, <1>5, <1>6, <2>1, OneFieldRead DEF ReadRotate
<1>7. QED BY <1>3, <1>6 DEF n, d

LEMMA EquipRead ==
  ASSUME NEW c \in [type : {"equip"}, weapon : DOMAIN WeaponCode]
  PROVE  /\ Code(WeaponCode, c.weapon) \in Seq(Octet)
         /\ \A s \in Streams : Starts(s, Code(WeaponCode, c.weapon)) =>
               Gets(ReadEquip(s), s, Code(WeaponCode, c.weapon), c)
<1> DEFINE w == Code(WeaponCode, c.weapon)
<1>1. /\ c.weapon \in DOMAIN WeaponCode /\ c.type = "equip" /\ c["weapon"] = c.weapon
      /\ c = [f \in {"type", "weapon"} |-> c[f]]
  OBVIOUS
<1>2. w \in Seq(Octet)
  BY <1>1, WeaponRead
<1>3. ASSUME NEW s \in Streams, Starts(s, w) PROVE Gets(ReadEquip(s), s, w, c)
  <2>1. Got(GetWeapon(BeginWith("equip", s), "weapon"), s, <<>> \o w, c,
            {"type"} \cup {"weapon"})
    BY <1>1, TypeGot, GetWeaponGot
  <2> HIDE DEF w
  <2>2. QED BY <1>1, <1>2, <1>3, <2>1, OneFieldRead DEF ReadEquip
<1>4. QED BY <1>2, <1>3

LEMMA BuyGunRead ==
  ASSUME NEW c \in [type : {"buy_gun"}, gun : DOMAIN GunCode]
  PROVE  /\ Code(GunCode, c.gun) \in Seq(Octet)
         /\ \A s \in Streams : Starts(s, Code(GunCode, c.gun)) =>
               Gets(ReadBuyGun(s), s, Code(GunCode, c.gun), c)
<1> DEFINE w == Code(GunCode, c.gun)
<1>1. /\ c.gun \in DOMAIN GunCode /\ c.type = "buy_gun" /\ c["gun"] = c.gun
      /\ c = [f \in {"type", "gun"} |-> c[f]]
  OBVIOUS
<1>2. w \in Seq(Octet)
  BY <1>1, GunRead
<1>3. ASSUME NEW s \in Streams, Starts(s, w) PROVE Gets(ReadBuyGun(s), s, w, c)
  <2>1. Got(GetGun(BeginWith("buy_gun", s), "gun"), s, <<>> \o w, c, {"type"} \cup {"gun"})
    BY <1>1, TypeGot, GetGunGot
  <2> HIDE DEF w
  <2>2. QED BY <1>1, <1>2, <1>3, <2>1, OneFieldRead DEF ReadBuyGun
<1>4. QED BY <1>2, <1>3

LEMMA BuyAmmoRead ==
  ASSUME NEW c \in [type : {"buy_ammo"}, on : BOOLEAN]
  PROVE  LET w == Code(WeaponCode, IF c.on THEN "primary" ELSE "secondary")
         IN  /\ w \in Seq(Octet)
             /\ \A s \in Streams : Starts(s, w) => Gets(ReadBuyAmmo(s), s, w, c)
<1> DEFINE x == IF c.on THEN "primary" ELSE "secondary"
           w == Code(WeaponCode, x)
<1>1. /\ x \in DOMAIN WeaponCode /\ (x = "primary") = c.on
      /\ c = [type |-> "buy_ammo", on |-> c.on]
  BY DEF WeaponCode
<1> HIDE DEF x
<1>2. w \in Seq(Octet)
  BY <1>1, WeaponRead
<1>3. ASSUME NEW s \in Streams, Starts(s, w) PROVE Gets(ReadBuyAmmo(s), s, w, c)
  <2> DEFINE e == ReadWeapon(s)
  <2>1. Gets(e, s, w, x)
    BY <1>1, <1>3, WeaponRead
  <2>2. /\ ReadBuyAmmo(s).rest = e.rest
        /\ ReadBuyAmmo(s).v = [type |-> "buy_ammo", on |-> e.v = "primary"]
    BY DEF ReadBuyAmmo, Read
  <2> HIDE DEF e, w
  <2>3. QED BY <1>1, <2>1, <2>2 DEF Gets
<1>4. QED BY <1>2, <1>3 DEF x

\* A command without fields.
LEMMA BareRead ==
  ASSUME NEW c, NEW type, c \in [type : {type}]
  PROVE  \A s \in Streams : Gets(Read([type |-> type], s), s, <<>>, c)
<1>1. c = [type |-> type] /\ Len(<<>>) = 0
  OBVIOUS
<1>2. QED BY <1>1, AfterNothing DEF Gets, Read

LEMMA CommandRead ==
  ASSUME NEW c \in AllCommands
  PROVE  /\ WriteCommand(c) \in Seq(Octet)
         /\ \A s \in Streams : Starts(s, WriteCommand(c)) =>
               Gets(ReadCommand(s), s, WriteCommand(c), Arriving(c))
<1> DEFINE Done(w) ==
             /\ w \in Seq(Octet)
             /\ \A s \in Streams : Starts(s, w) => Gets(ReadCommand(s), s, w, Arriving(c))
<1>1. CASE c \in [type : {"move"}, dir : DOMAIN DirectionCode, on : BOOLEAN]
  <2> DEFINE w == WriteMove(c)
             x == c
  <2>1. c.type = "move" /\ Arriving(c) = c /\ WriteCommand(c) = << 9 >> \o w /\ 9 \in Octet
    BY <1>1, OctetIs DEF WriteCommand, Arriving
  <2>2. /\ w \in Seq(Octet)
        /\ \A s \in Streams : Starts(s, w) => Gets(ReadMove(s), s, w, x)
    BY <1>1, MoveRead
  <2> HIDE DEF w, x
  <2>3. ASSUME NEW s \in Streams, Starts(s, << 9 >> \o w)
        PROVE  Gets(ReadCommand(s), s, << 9 >> \o w, x)
    <3> DEFINE b == ReadByte(s)
               d == ReadCommand(s)
               e == ReadMove(b.rest)
    <3>1. (b.v = 9 => d = e) /\ (b.rest = Short => d.rest = Short)
      BY ReadCommandIs
    <3>2. b.rest \in Streams /\ Starts(b.rest, w) => Gets(e, b.rest, w, x)
      BY <2>2
    <3> HIDE DEF d, e
    <3>3. Gets(d, s, << 9 >> \o w, x)
      BY <2>1, <2>2, <2>3, <3>1, <3>2, Dispatched
    <3>4. QED BY <3>3 DEF d
  <2>4. << 9 >> \o w \in Seq(Octet)
    <3>1. << 9 >> \in Seq(Octet)
      BY <2>1
    <3>2. QED BY <2>2, <3>1, ConcatProperties
  <2>5. Done(<< 9 >> \o w)
    BY <2>1, <2>3, <2>4 DEF x
  <2>6. QED BY <2>1, <2>5
<1>2. CASE c \in [type : {"rotate"}, angle : Angles]
  <2> DEFINE w == Num(AngleCode(c.angle))
             x == Arriving(c)
  <2>1. c.type = "rotate" /\ WriteCommand(c) = << 8 >> \o w /\ 8 \in Octet
    BY <1>2, OctetIs DEF WriteCommand, Arriving
  <2>2. /\ w \in Seq(Octet)
        /\ \A s \in Streams : Starts(s, w) => Gets(ReadRotate(s), s, w, x)
    BY <1>2, RotateRead
  <2> HIDE DEF w, x
  <2>3. ASSUME NEW s \in Streams, Starts(s, << 8 >> \o w)
        PROVE  Gets(ReadCommand(s), s, << 8 >> \o w, x)
    <3> DEFINE b == ReadByte(s)
               d == ReadCommand(s)
               e == ReadRotate(b.rest)
    <3>1. (b.v = 8 => d = e) /\ (b.rest = Short => d.rest = Short)
      BY ReadCommandIs
    <3>2. b.rest \in Streams /\ Starts(b.rest, w) => Gets(e, b.rest, w, x)
      BY <2>2
    <3> HIDE DEF d, e
    <3>3. Gets(d, s, << 8 >> \o w, x)
      BY <2>1, <2>2, <2>3, <3>1, <3>2, Dispatched
    <3>4. QED BY <3>3 DEF d
  <2>4. << 8 >> \o w \in Seq(Octet)
    <3>1. << 8 >> \in Seq(Octet)
      BY <2>1
    <3>2. QED BY <2>2, <3>1, ConcatProperties
  <2>5. Done(<< 8 >> \o w)
    BY <2>1, <2>3, <2>4 DEF x
  <2>6. QED BY <2>1, <2>5
<1>3. CASE c \in [type : {"action"}, on : BOOLEAN]
  <2> DEFINE w == Bool(c.on)
             x == c
  <2>1. c.type = "action" /\ Arriving(c) = c /\ WriteCommand(c) = << 16 >> \o w /\ 16 \in Octet
    BY <1>3, OctetIs DEF WriteCommand, Arriving
  <2>2. /\ w \in Seq(Octet)
        /\ \A s \in Streams : Starts(s, w) => Gets(ReadSwitch(s, "action"), s, w, x)
    BY <1>3, SwitchRead
  <2> HIDE DEF w, x
  <2>3. ASSUME NEW s \in Streams, Starts(s, << 16 >> \o w)
        PROVE  Gets(ReadCommand(s), s, << 16 >> \o w, x)
    <3> DEFINE b == ReadByte(s)
               d == ReadCommand(s)
               e == ReadSwitch(b.rest, "action")
    <3>1. (b.v = 16 => d = e) /\ (b.rest = Short => d.rest = Short)
      BY ReadCommandIs
    <3>2. b.rest \in Streams /\ Starts(b.rest, w) => Gets(e, b.rest, w, x)
      BY <2>2
    <3> HIDE DEF d, e
    <3>3. Gets(d, s, << 16 >> \o w, x)
      BY <2>1, <2>2, <2>3, <3>1, <3>2, Dispatched
    <3>4. QED BY <3>3 DEF d
  <2>4. << 16 >> \o w \in Seq(Octet)
    <3>1. << 16 >> \in Seq(Octet)
      BY <2>1
    <3>2. QED BY <2>2, <3>1, ConcatProperties
  <2>5. Done(<< 16 >> \o w)
    BY <2>1, <2>3, <2>4 DEF x
  <2>6. QED BY <2>1, <2>5
<1>4. CASE c \in [type : {"defuse"}, on : BOOLEAN]
  <2> DEFINE w == Bool(c.on)
             x == c
  <2>1. c.type = "defuse" /\ Arriving(c) = c /\ WriteCommand(c) = << 19 >> \o w /\ 19 \in Octet
    BY <1>4, OctetIs DEF WriteCommand, Arriving
  <2>2. /\ w \in Seq(Octet)
        /\ \A s \in Streams : Starts(s, w) => Gets(ReadSwitch(s, "defuse"), s, w, x)
    BY <1>4, SwitchRead
  <2> HIDE DEF w, x
  <2>3. ASSUME NEW s \in Streams, Starts(s, << 19 >> \o w)
        PROVE  Gets(ReadCommand(s), s, << 19 >> \o w, x)
    <3> DEFINE b == ReadByte(s)
               d == ReadCommand(s)
               e == ReadSwitch(b.rest, "defuse")
    <3>1. (b.v = 19 => d = e) /\ (b.rest = Short => d.rest = Short)
      BY ReadCommandIs
    <3>2. b.rest \in Streams /\ Starts(b.rest, w) => Gets(e, b.rest, w, x)
      BY <2>2
    <3> HIDE DEF d, e
    <3>3. Gets(d, s, << 19 >> \o w, x)
      BY <2>1, <2>2, <2>3, <3>1, <3>2, Dispatched
    <3>4. QED BY <3>3 DEF d
  <2>4. << 19 >> \o w \in Seq(Octet)
    <3>1. << 19 >> \in Seq(Octet)
      BY <2>1
    <3>2. QED BY <2>2, <3>1, ConcatProperties
  <2>5. Done(<< 19 >> \o w)
    BY <2>1, <2>3, <2>4 DEF x
  <2>6. QED BY <2>1, <2>5
<1>5. CASE c \in [type : {"equip"}, weapon : DOMAIN WeaponCode]
  <2> DEFINE w == Code(WeaponCode, c.weapon)
             x == c
  <2>1. c.type = "equip" /\ Arriving(c) = c /\ WriteCommand(c) = << 17 >> \o w /\ 17 \in Octet
    BY <1>5, OctetIs DEF WriteCommand, Arriving
  <2>2. /\ w \in Seq(Octet)
        /\ \A s \in Streams : Starts(s, w) => Gets(ReadEquip(s), s, w, x)
    BY <1>5, EquipRead
  <2> HIDE DEF w, x
  <2>3. ASSUME NEW s \in Streams, Starts(s, << 17 >> \o w)
        PROVE  Gets(ReadCommand(s), s, << 17 >> \o w, x)
    <3> DEFINE b == ReadByte(s)
               d == ReadCommand(s)
               e == ReadEquip(b.rest)
    <3>1. (b.v = 17 => d = e) /\ (b.rest = Short => d.rest = Short)
      BY ReadCommandIs
    <3>2. b.rest \in Streams /\ Starts(b.rest, w) => Gets(e, b.rest, w, x)
      BY <2>2
    <3> HIDE DEF d, e
    <3>3. Gets(d, s, << 17 >> \o w, x)
      BY <2>1, <2>2, <2>3, <3>1, <3>2, Dispatched
    <3>4. QED BY <3>3 DEF d
  <2>4. << 17 >> \o w \in Seq(Octet)
    <3>1. << 17 >> \in Seq(Octet)
      BY <2>1
    <3>2. QED BY <2>2, <3>1, ConcatProperties
  <2>5. Done(<< 17 >> \o w)
    BY <2>1, <2>3, <2>4 DEF x
  <2>6. QED BY <2>1, <2>5
<1>6. CASE c \in [type : {"buy_gun"}, gun : DOMAIN GunCode]
  <2> DEFINE w == Code(GunCode, c.gun)
             x == c
  <2>1. c.type = "buy_gun" /\ Arriving(c) = c /\ WriteCommand(c) = << 6 >> \o w /\ 6 \in Octet
    BY <1>6, OctetIs DEF WriteCommand, Arriving
  <2>2. /\ w \in Seq(Octet)
        /\ \A s \in Streams : Starts(s, w) => Gets(ReadBuyGun(s), s, w, x)
    BY <1>6, BuyGunRead
  <2> HIDE DEF w, x
  <2>3. ASSUME NEW s \in Streams, Starts(s, << 6 >> \o w)
        PROVE  Gets(ReadCommand(s), s, << 6 >> \o w, x)
    <3> DEFINE b == ReadByte(s)
               d == ReadCommand(s)
               e == ReadBuyGun(b.rest)
    <3>1. (b.v = 6 => d = e) /\ (b.rest = Short => d.rest = Short)
      BY ReadCommandIs
    <3>2. b.rest \in Streams /\ Starts(b.rest, w) => Gets(e, b.rest, w, x)
      BY <2>2
    <3> HIDE DEF d, e
    <3>3. Gets(d, s, << 6 >> \o w, x)
      BY <2>1, <2>2, <2>3, <3>1, <3>2, Dispatched
    <3>4. QED BY <3>3 DEF d
  <2>4. << 6 >> \o w \in Seq(Octet)
    <3>1. << 6 >> \in Seq(Octet)
      BY <2>1
    <3>2. QED BY <2>2, <3>1, ConcatProperties
  <2>5. Done(<< 6 >> \o w)
    BY <2>1, <2>3, <2>4 DEF x
  <2>6. QED BY <2>1, <2>5
<1>7. CASE c \in [type : {"buy_ammo"}, on : BOOLEAN]
  <2> DEFINE w == Code(WeaponCode, IF c.on THEN "primary" ELSE "secondary")
             x == c
  <2>1. c.type = "buy_ammo" /\ Arriving(c) = c /\ WriteCommand(c) = << 7 >> \o w /\ 7 \in Octet
    BY <1>7, OctetIs DEF WriteCommand, Arriving
  <2>2. /\ w \in Seq(Octet)
        /\ \A s \in Streams : Starts(s, w) => Gets(ReadBuyAmmo(s), s, w, x)
    BY <1>7, BuyAmmoRead
  <2> HIDE DEF w, x
  <2>3. ASSUME NEW s \in Streams, Starts(s, << 7 >> \o w)
        PROVE  Gets(ReadCommand(s), s, << 7 >> \o w, x)
    <3> DEFINE b == ReadByte(s)
               d == ReadCommand(s)
               e == ReadBuyAmmo(b.rest)
    <3>1. (b.v = 7 => d = e) /\ (b.rest = Short => d.rest = Short)
      BY ReadCommandIs
    <3>2. b.rest \in Streams /\ Starts(b.rest, w) => Gets(e, b.rest, w, x)
      BY <2>2
    <3> HIDE DEF d, e
    <3>3. Gets(d, s, << 7 >> \o w, x)
      BY <2>1, <2>2, <2>3, <3>1, <3>2, Dispatched
    <3>4. QED BY <3>3 DEF d
  <2>4. << 7 >> \o w \in Seq(Octet)
    <3>1. << 7 >> \in Seq(Octet)
      BY <2>1
    <3>2. QED BY <2>2, <3>1, ConcatProperties
  <2>5. Done(<< 7 >> \o w)
    BY <2>1, <2>3, <2>4 DEF x
  <2>6. QED BY <2>1, <2>5
<1>8. CASE c \in [type : {"pick_up"}]
  <2>1. c.type = "pick_up" /\ Arriving(c) = c /\ WriteCommand(c) = << 20 >> /\ 20 \in Octet
    BY <1>8, OctetIs DEF WriteCommand, Arriving
  <2>2. << 20 >> \o <<>> = << 20 >> /\ <<>> \in Seq(Octet) /\ << 20 >> \in Seq(Octet)
    BY <2>1, ConcatEmptySeq
  <2> DEFINE w == <<>>
  <2>3. \A s \in Streams : Gets(Read([type |-> "pick_up"], s), s, w, c)
    BY <1>8, BareRead
  <2>4. w \in Seq(Octet) /\ << 20 >> \o w = << 20 >>
    BY <2>2
  <2> HIDE DEF w
  <2>5. ASSUME NEW s \in Streams, Starts(s, << 20 >> \o w)
        PROVE  Gets(ReadCommand(s), s, << 20 >> \o w, c)
    <3> DEFINE b == ReadByte(s)
               d == ReadCommand(s)
               e == Read([type |-> "pick_up"], b.rest)
    <3>1. (b.v = 20 => d = e) /\ (b.rest = Short => d.rest = Short)
      BY ReadCommandIs
    <3>2. b.rest \in Streams /\ Starts(b.rest, w) => Gets(e, b.rest, w, c)
      BY <2>3
    <3> HIDE DEF d, e
    <3>3. Gets(d, s, << 20 >> \o w, c)
      BY <2>1, <2>4, <2>5, <3>1, <3>2, Dispatched
    <3>4. QED BY <3>3 DEF d
  <2>6. Done(<< 20 >>)
    BY <2>1, <2>2, <2>4, <2>5
  <2>7. QED BY <2>1, <2>6
<1>9. CASE c \in [type : {"start"}]
  <2>1. c.type = "start" /\ Arriving(c) = c /\ WriteCommand(c) = << 21 >> /\ 21 \in Octet
    BY <1>9, OctetIs DEF WriteCommand, Arriving
  <2>2. << 21 >> \o <<>> = << 21 >> /\ <<>> \in Seq(Octet) /\ << 21 >> \in Seq(Octet)
    BY <2>1, ConcatEmptySeq
  <2> DEFINE w == <<>>
  <2>3. \A s \in Streams : Gets(Read([type |-> "start"], s), s, w, c)
    BY <1>9, BareRead
  <2>4. w \in Seq(Octet) /\ << 21 >> \o w = << 21 >>
    BY <2>2
  <2> HIDE DEF w
  <2>5. ASSUME NEW s \in Streams, Starts(s, << 21 >> \o w)
        PROVE  Gets(ReadCommand(s), s, << 21 >> \o w, c)
    <3> DEFINE b == ReadByte(s)
               d == ReadCommand(s)
               e == Read([type |-> "start"], b.rest)
    <3>1. (b.v = 21 => d = e) /\ (b.rest = Short => d.rest = Short)
      BY ReadCommandIs
    <3>2. b.rest \in Streams /\ Starts(b.rest, w) => Gets(e, b.rest, w, c)
      BY <2>3
    <3> HIDE DEF d, e
    <3>3. Gets(d, s, << 21 >> \o w, c)
      BY <2>1, <2>4, <2>5, <3>1, <3>2, Dispatched
    <3>4. QED BY <3>3 DEF d
  <2>6. Done(<< 21 >>)
    BY <2>1, <2>2, <2>4, <2>5
  <2>7. QED BY <2>1, <2>6
<1>10. QED
  BY <1>1, <1>2, <1>3, <1>4, <1>5, <1>6, <1>7, <1>8, <1>9 DEF AllCommands

-----------------------------------------------------------------------------
(***************************************************************************)
(* What is on its way: the pieces of b after the first k, one after the    *)
(* other, as far as they come; all of them if nothing was lost.  Piece i   *)
(* ends at at[i].                                                          *)
(***************************************************************************)
CutAt(s, b, k, full, at) ==
    /\ at \in [k..Len(b) -> Nat]
    /\ at[k] = 0
    /\ \A i, j \in k..Len(b) : i <= j => at[i] <= at[j]
    /\ Len(s) <= at[Len(b)] /\ (full => Len(s) = at[Len(b)])
    /\ \A i \in k..Len(b) : i > k =>
          /\ at[i] = at[i - 1] + Len(b[i])
          /\ \A j \in 1..Len(b[i]) : at[i - 1] + j <= Len(s) => s[at[i - 1] + j] = b[i][j]

Carries(s, b, k, full) ==
    /\ s \in Seq(Octet) /\ b \in Seq(Seq(Octet)) /\ k \in Nat /\ k <= Len(b)
    /\ \E at : CutAt(s, b, k, full, at)

LEMMA CarriesNothing == Carries(<<>>, <<>>, 0, TRUE)
<1> DEFINE at == [i \in 0..0 |-> 0]
<1>1. CutAt(<<>>, <<>>, 0, TRUE, at)
  BY DEF CutAt
<1>2. <<>> \in Seq(Octet) /\ <<>> \in Seq(Seq(Octet)) /\ Len(<<>>) = 0
  OBVIOUS
<1>3. QED BY <1>1, <1>2 DEF Carries

LEMMA CarriesLast ==
  ASSUME NEW s, NEW b, NEW k, NEW full, Carries(s, b, k, full), k = Len(b)
  PROVE  s = <<>>
<1>1. PICK at : CutAt(s, b, k, full, at)
  BY DEF Carries
<1>2. s \in Seq(Octet) /\ Len(s) <= 0
  BY <1>1 DEF CutAt, Carries
<1>3. QED BY <1>2, EmptySeq, LenProperties

LEMMA CarriesCut ==
  ASSUME NEW s, NEW b, NEW k, NEW full, Carries(s, b, k, full), NEW n \in 0..Len(s)
  PROVE  Carries(SubSeq(s, 1, n), b, k, FALSE)
<1>1. PICK at : CutAt(s, b, k, full, at)
  BY DEF Carries
<1>2. s \in Seq(Octet) /\ Len(s) \in Nat /\ b \in Seq(Seq(Octet)) /\ Len(b) \in Nat /\ k \in Nat
      /\ k <= Len(b)
  BY LenProperties DEF Carries
<1> DEFINE t == SubSeq(s, 1, n)
<1>3. /\ t \in Seq(Octet) /\ Len(t) = n
      /\ \A i \in 1..n : t[i] = s[i]
  BY <1>2, SubSeqProperties
<1> HIDE DEF t
<1>4. CutAt(t, b, k, FALSE, at)
  <2>1. at[Len(b)] \in Nat /\ n <= Len(s) /\ n \in Nat /\ Len(s) <= at[Len(b)]
    BY <1>1, <1>2 DEF CutAt
  <2>2. ASSUME NEW i \in k..Len(b), i > k, NEW j \in 1..Len(b[i]), at[i - 1] + j <= Len(t)
        PROVE  t[at[i - 1] + j] = b[i][j]
    <3>1. i - 1 \in k..Len(b) /\ b[i] \in Seq(Octet) /\ i \in 1..Len(b)
      BY <1>2, <2>2, ElementOfSeq
    <3>2. at[i - 1] \in Nat /\ j \in Nat /\ j >= 1
      BY <1>1, <3>1 DEF CutAt
    <3>3. at[i - 1] + j <= Len(s) /\ at[i - 1] + j \in 1..n
      BY <1>3, <2>1, <2>2, <3>2
    <3>4. s[at[i - 1] + j] = b[i][j]
      BY <1>1, <2>2, <3>3 DEF CutAt
    <3>5. QED BY <1>3, <3>3, <3>4
  <2>3. Len(t) <= at[Len(b)]
    BY <1>3, <2>1
  <2>4. QED BY <1>1, <2>2, <2>3 DEF CutAt
<1>5. QED BY <1>2, <1>3, <1>4 DEF Carries, t

\* One more piece is written.
LEMMA CarriesMore ==
  ASSUME NEW s, NEW b, NEW k, Carries(s, b, k, TRUE), NEW w \in Seq(Octet)
  PROVE  Carries(s \o w, Append(b, w), k, TRUE)
<1>1. PICK at : CutAt(s, b, k, TRUE, at)
  BY DEF Carries
<1> DEFINE n == Len(b)
           t == s \o w
           c == Append(b, w)
           to == [i \in k..(n + 1) |-> IF i = n + 1 THEN at[n] + Len(w) ELSE at[i]]
<1>2. /\ s \in Seq(Octet) /\ Len(s) \in Nat /\ b \in Seq(Seq(Octet)) /\ n \in Nat
      /\ k \in Nat /\ k <= n /\ Len(w) \in Nat
  BY LenProperties DEF Carries
<1>3. /\ t \in Seq(Octet) /\ Len(t) = Len(s) + Len(w)
      /\ \A i \in 1..(Len(s) + Len(w)) : t[i] = IF i <= Len(s) THEN s[i] ELSE w[i - Len(s)]
  BY <1>2, ConcatProperties
<1>4. /\ c \in Seq(Seq(Octet)) /\ Len(c) = n + 1 /\ c[n + 1] = w
      /\ \A i \in 1..n : c[i] = b[i]
  BY <1>2, AppendProperties
<1> HIDE DEF t, c
<1>5. /\ at \in [k..n -> Nat] /\ at[k] = 0 /\ Len(s) = at[n]
      /\ \A i, j \in k..n : i <= j => at[i] <= at[j]
      /\ \A i \in k..n : i > k =>
            /\ at[i] = at[i - 1] + Len(b[i])
            /\ \A j \in 1..Len(b[i]) : at[i - 1] + j <= Len(s) => s[at[i - 1] + j] = b[i][j]
  BY <1>1 DEF CutAt
<1> HIDE DEF n
<1>6. at[n] \in Nat /\ at[n] = Len(s)
  BY <1>2, <1>5
<1>7. /\ to \in [k..(n + 1) -> Nat] /\ to[n + 1] = Len(s) + Len(w)
      /\ \A i \in k..n : to[i] = at[i] /\ i \in k..(n + 1)
  BY <1>2, <1>5, <1>6
<1> HIDE DEF to
<1>8. ASSUME NEW i \in k..(n + 1), NEW j \in k..(n + 1), i <= j PROVE to[i] <= to[j]
  <2>1. CASE j = n + 1 /\ i # n + 1
    <3>1. i \in k..n /\ n \in k..n /\ i <= n
      BY <1>2, <2>1
    <3>2. at[i] <= at[n] /\ to[i] = at[i] /\ at[i] \in Nat
      BY <1>5, <1>7, <3>1
    <3>3. QED BY <1>2, <1>6, <1>7, <2>1, <3>2
  <2>2. CASE j # n + 1
    <3>1. i \in k..n /\ j \in k..n
      BY <1>2, <1>8, <2>2
    <3>2. QED BY <1>5, <1>7, <1>8, <3>1
  <2>3. CASE i = n + 1
    <3>1. j = n + 1
      BY <1>2, <1>8, <2>3
    <3>2. QED BY <1>2, <1>7, <2>3, <3>1
  <2>4. QED BY <2>1, <2>2, <2>3
<1>9. ASSUME NEW i \in k..(n + 1), i > k
      PROVE  /\ to[i] = to[i - 1] + Len(c[i])
             /\ \A j \in 1..Len(c[i]) : to[i - 1] + j <= Len(t) => t[to[i - 1] + j] = c[i][j]
  <2>1. CASE i = n + 1
    <3>1. i - 1 = n /\ n \in k..n /\ c[i] = w /\ to[i - 1] = Len(s)
      BY <1>2, <1>4, <1>6, <1>7, <2>1
    <3>2. ASSUME NEW j \in 1..Len(w) PROVE t[Len(s) + j] = w[j]
      <4>1. Len(s) + j \in 1..(Len(s) + Len(w)) /\ ~(Len(s) + j <= Len(s))
            /\ (Len(s) + j) - Len(s) = j
        BY <1>2
      <4>2. QED BY <1>3, <4>1
    <3>3. QED BY <1>7, <2>1, <3>1, <3>2
  <2>2. CASE i # n + 1
    <3>1. i \in k..n /\ i - 1 \in k..n /\ i \in 1..n
      BY <1>2, <1>9, <2>2
    <3>2. c[i] = b[i] /\ to[i] = at[i] /\ to[i - 1] = at[i - 1] /\ b[i] \in Seq(Octet)
      BY <1>2, <1>4, <1>7, <3>1, ElementOfSeq DEF n
    <3>3. at[i] = at[i - 1] + Len(b[i]) /\ at[i] <= at[n] /\ at[i - 1] \in Nat
      <4>1. n \in k..n /\ i <= n
        BY <1>2, <3>1
      <4>2. QED BY <1>5, <1>9, <3>1, <4>1
    <3>4. ASSUME NEW j \in 1..Len(b[i]) PROVE t[at[i - 1] + j] = b[i][j]
      <4>0. Len(b[i]) \in Nat
        BY <3>2, LenProperties
      <4>1. at[i - 1] + Len(b[i]) <= Len(s) /\ at[i - 1] \in Nat
        BY <1>6, <3>3
      <4>2. at[i - 1] + j <= Len(s) /\ at[i - 1] + j \in 1..(Len(s) + Len(w))
        <5> HIDE DEF n
        <5>1. j \in Nat /\ 1 <= j /\ j <= Len(b[i])
          BY <4>0
        <5> DEFINE p == at[i - 1]
                   h == Len(b[i])
                   l == Len(s)
                   v == Len(w)
        <5>2. l \in Nat /\ v \in Nat /\ h \in Nat /\ p \in Nat /\ p + h <= l
              /\ j \in Nat /\ 1 <= j /\ j <= h
          BY <1>2, <4>0, <4>1, <5>1
        <5> HIDE DEF p, h, l, v
        <5>3. p + j <= l /\ p + j \in 1..(l + v)
          BY <5>2
        <5>4. QED BY <5>3 DEF p, l, v
      <4>3. s[at[i - 1] + j] = b[i][j]
        BY <1>5, <1>9, <3>1, <4>2
      <4>4. QED BY <1>3, <4>2, <4>3
    <3>5. QED BY <3>2, <3>3, <3>4
  <2>3. QED BY <2>1, <2>2
<1>10. to[k] = 0 /\ Len(t) = to[Len(c)] /\ k <= Len(c)
  BY <1>2, <1>3, <1>4, <1>5, <1>7
<1>11. CutAt(t, c, k, TRUE, to)
  <2>1. Len(t) <= to[Len(c)]
    BY <1>2, <1>3, <1>10
  <2>2. QED BY <1>4, <1>7, <1>8, <1>9, <1>10, <2>1 DEF CutAt
<1>12. QED BY <1>2, <1>3, <1>4, <1>10, <1>11 DEF Carries, t, c

\* The next piece is read.
LEMMA CarriesNext ==
  ASSUME NEW s, NEW b, NEW k, NEW full, Carries(s, b, k, full), k < Len(b)
  PROVE  /\ s \in Streams /\ b[k + 1] \in Seq(Octet) /\ Starts(s, b[k + 1])
         /\ After(s, Len(b[k + 1])) # Short =>
               Carries(After(s, Len(b[k + 1])), b, k + 1, full)
<1>1. PICK at : CutAt(s, b, k, full, at)
  BY DEF Carries
<1> DEFINE n == Len(b)
           w == b[k + 1]
           t == After(s, Len(w))
           to == [i \in (k + 1)..n |-> at[i] - at[k + 1]]
<1>2. /\ s \in Seq(Octet) /\ Len(s) \in Nat /\ b \in Seq(Seq(Octet)) /\ n \in Nat
      /\ k \in Nat /\ k < n /\ k + 1 \in k..n /\ k \in k..n /\ k + 1 \in 1..n /\ n \in k..n
  BY LenProperties DEF Carries
<1>3. w \in Seq(Octet) /\ Len(w) \in Nat
  BY <1>2, ElementOfSeq, LenProperties
<1>4. /\ at \in [k..n -> Nat] /\ at[k] = 0
      /\ Len(s) <= at[n] /\ (full => Len(s) = at[n])
      /\ \A i, j \in k..n : i <= j => at[i] <= at[j]
      /\ \A i \in k..n : i > k =>
            /\ at[i] = at[i - 1] + Len(b[i])
            /\ \A j \in 1..Len(b[i]) : at[i - 1] + j <= Len(s) => s[at[i - 1] + j] = b[i][j]
  BY <1>1 DEF CutAt
<1> HIDE DEF n
<1>5. at[k + 1] = Len(w) /\ \A j \in 1..Len(w) : j <= Len(s) => s[j] = w[j]
  <2>1. k + 1 > k /\ (k + 1) - 1 = k /\ \A j \in 1..Len(w) : 0 + j = j
    BY <1>2, <1>3
  <2>2. /\ at[k + 1] = at[(k + 1) - 1] + Len(b[k + 1])
        /\ \A j \in 1..Len(b[k + 1]) :
              at[(k + 1) - 1] + j <= Len(s) => s[at[(k + 1) - 1] + j] = b[k + 1][j]
    BY <1>2, <1>4, <2>1
  <2>3. /\ at[k + 1] = 0 + Len(w)
        /\ \A j \in 1..Len(w) : 0 + j <= Len(s) => s[0 + j] = w[j]
    BY <1>4, <2>1, <2>2
  <2>4. QED BY <1>3, <2>1, <2>3
<1> HIDE DEF w
<1>6. Starts(s, w) /\ s \in Streams
  BY <1>2, <1>5 DEF Starts, Streams
<1>7. ASSUME t # Short PROVE Carries(t, b, k + 1, full)
  <2>1. Len(w) <= Len(s)
    BY <1>2, <1>3, <1>6, <1>7, AfterIs
  <2>2. /\ t \in Seq(Octet) /\ Len(t) = Len(s) - Len(w)
        /\ \A i \in 1..(Len(s) - Len(w)) : t[i] = s[Len(w) + i]
    BY <1>2, <1>3, <1>6, <2>1, AfterIs
  <2> HIDE DEF t
  <2>3. \A i \in (k + 1)..n : /\ i \in k..n /\ at[i] \in Nat /\ at[k + 1] <= at[i]
                              /\ k + 1 <= i
    <3>1. \A i \in (k + 1)..n : i \in k..n /\ k + 1 <= i
      BY <1>2
    <3>2. QED BY <1>2, <1>4, <3>1
  <2>4. to \in [(k + 1)..n -> Nat] /\ \A i \in (k + 1)..n : to[i] = at[i] - Len(w)
    <3> DEFINE c == Len(w)
    <3>1. \A i \in (k + 1)..n : at[i] \in Nat /\ c <= at[i]
      BY <1>5, <2>3
    <3>2. c = at[k + 1] /\ c \in Nat
      BY <1>3, <1>5
    <3> HIDE DEF c
    <3>3. \A i \in (k + 1)..n : to[i] = at[i] - c
      BY <3>2
    <3>4. \A i \in (k + 1)..n : at[i] - c \in Nat
      BY <3>1, <3>2
    <3>5. to \in [(k + 1)..n -> Nat]
      BY <3>2, <3>4
    <3>6. QED BY <3>3, <3>5 DEF c
  <2> HIDE DEF to
  <2>5. k + 1 \in (k + 1)..n /\ n \in (k + 1)..n
    BY <1>2
  <2>6. to[k + 1] = 0
    BY <1>3, <1>5, <2>4, <2>5
  <2>7. Len(t) <= to[n] /\ (full => Len(t) = to[n])
    <3>1. at[n] \in Nat /\ to[n] = at[n] - Len(w) /\ Len(t) = Len(s) - Len(w)
      BY <2>2, <2>3, <2>4, <2>5
    <3>2. Len(s) <= at[n] /\ (full => Len(s) = at[n])
      BY <1>4
    <3>3. QED BY <1>2, <1>3, <3>1, <3>2
  <2>8. \A i, j \in (k + 1)..n : i <= j => to[i] <= to[j]
    BY <1>3, <1>4, <2>3, <2>4
  <2>9. ASSUME NEW i \in (k + 1)..n, i > k + 1
        PROVE  /\ to[i] = to[i - 1] + Len(b[i])
               /\ \A j \in 1..Len(b[i]) :
                     to[i - 1] + j <= Len(t) => t[to[i - 1] + j] = b[i][j]
    <3>1. i \in k..n /\ i > k /\ i - 1 \in (k + 1)..n /\ i \in 1..n
      BY <1>2, <2>9
    <3>2. to[i] = at[i] - Len(w) /\ to[i - 1] = at[i - 1] - Len(w) /\ at[i - 1] \in Nat
          /\ Len(w) <= at[i - 1]
      BY <1>5, <2>3, <2>4, <3>1
    <3>3. b[i] \in Seq(Octet) /\ Len(b[i]) \in Nat
      BY <1>2, <3>1, ElementOfSeq, LenProperties DEF n
    <3>4. at[i] = at[i - 1] + Len(b[i])
      BY <1>4, <3>1
    <3>5. ASSUME NEW j \in 1..Len(b[i]), to[i - 1] + j <= Len(t)
          PROVE  t[to[i - 1] + j] = b[i][j]
      <4>1. /\ to[i - 1] + j \in 1..(Len(s) - Len(w)) /\ at[i - 1] + j <= Len(s)
            /\ Len(w) + (to[i - 1] + j) = at[i - 1] + j
        <5>1. /\ to[i - 1] + j <= Len(s) - Len(w) /\ j \in Nat /\ 1 <= j
          BY <2>2, <3>3, <3>5
        <5> DEFINE p == at[i - 1]
                   r == to[i - 1]
                   c == Len(w)
                   l == Len(s)
        <5>2. r = p - c /\ p \in Nat /\ c <= p /\ c \in Nat /\ l \in Nat
              /\ r + j <= l - c /\ j \in Nat /\ 1 <= j
          BY <1>2, <1>3, <3>2, <5>1
        <5> HIDE DEF p, r, c, l
        <5>3. r + j \in 1..(l - c) /\ p + j <= l /\ c + (r + j) = p + j
          BY <5>2
        <5>4. QED BY <5>3 DEF p, r, c, l
      <4>2. s[at[i - 1] + j] = b[i][j]
        BY <1>4, <3>1, <4>1
      <4>3. QED BY <2>2, <4>1, <4>2
    <3>6. to[i] = to[i - 1] + Len(b[i])
      BY <1>3, <3>2, <3>3, <3>4
    <3>7. QED BY <3>5, <3>6
  <2>10. CutAt(t, b, k + 1, full, to)
    BY <2>4, <2>6, <2>7, <2>8, <2>9 DEF CutAt, n
  <2>11. QED BY <1>2, <2>2, <2>10 DEF Carries, n
<1>8. QED BY <1>3, <1>6, <1>7 DEF w

-----------------------------------------------------------------------------
(***************************************************************************)
(* Places, optionals and bonifications.                                    *)
(***************************************************************************)
LEMMA GetPosGot ==
  ASSUME NEW s \in Streams, NEW p, NEW D, NEW name, NEW sofar, NEW u, Got(sofar, s, u, p, D),
         NEW place \in Points, p[name] = Wrapped(place)
  PROVE  Got(GetPos(sofar, name), s, u \o Pos(place), p, D \cup {name})
<1> DEFINE w == Pos(place)
           e == ReadPos(sofar.rest)
<1>1. /\ w \in Seq(Octet) /\ Len(w) >= 1
      /\ \A t \in Streams : Starts(t, w) => Gets(ReadPos(t), t, w, Wrapped(place))
  BY PosRead
<1> HIDE DEF w
<1>2. sofar.rest \in Streams /\ Starts(sofar.rest, w) => Gets(e, sofar.rest, w, p[name])
  BY <1>1
<1>3. GetPos(sofar, name) = Field(sofar, name, e)
  BY DEF GetPos
<1> HIDE DEF e
<1>4. Got(Field(sofar, name, e), s, u \o w, p, D \cup {name})
  BY <1>1, <1>2, OneMore
<1>5. QED BY <1>3, <1>4 DEF w

LEMMA PlaceRead ==
  ASSUME NEW o \in Optionals(Points)
  PROVE  /\ WritePlace(o) \in Seq(Octet) /\ Len(WritePlace(o)) >= 1
         /\ \A s \in Streams :
               Starts(s, WritePlace(o)) => Gets(ReadPlace(s), s, WritePlace(o), AllWrapped(o))
<1> DEFINE p == ValueOf(o, Origin)
           has == o # {}
           u == Bool(has)
           w == Pos(p)
           x == Wrapped(p)
           y == AllWrapped(o)
<1>1. p \in Points /\ y = IF has THEN {x} ELSE {}
  <2>1. CASE o = {}
    BY <2>1 DEF ValueOf, Origin, Points, AllWrapped
  <2>2. CASE o # {}
    <3>1. p \in Points /\ o = {p}
      BY <2>2, OptionalIs
    <3> HIDE DEF p
    <3>2. y = {x}
      BY <3>1 DEF AllWrapped
    <3>3. QED BY <2>2, <3>1, <3>2
  <2>3. QED BY <2>1, <2>2
<1> HIDE DEF p, y
<1>2. has \in BOOLEAN
  OBVIOUS
<1> HIDE DEF has
<1>3. /\ u \in Seq(Octet) /\ Len(u) = 1 /\ w \in Seq(Octet) /\ Len(w) >= 1
      /\ \A t \in Streams : Starts(t, w) => Gets(ReadPos(t), t, w, x)
  BY <1>1, <1>2, BoolRead, PosRead
<1>4. WritePlace(o) = u \o w
  BY DEF WritePlace, p, has
<1> HIDE DEF w, x
<1>5. u \o w \in Seq(Octet) /\ Len(u \o w) >= 1
  <2> HIDE DEF u
  <2>1. QED BY <1>3, ConcatProperties, LenProperties
<1>6. ASSUME NEW s \in Streams, Starts(s, u \o w) PROVE Gets(ReadPlace(s), s, u \o w, y)
  <2> DEFINE b == ReadBool(s)
             e == ReadPos(b.rest)
  <2>1. b.rest \in Streams /\ Starts(b.rest, w) => Gets(e, b.rest, w, x)
    BY <1>3
  <2>2. ReadPlace(s) = Optional(b, e)
    BY DEF ReadPlace
  <2>3. b = ReadBool(s)
    OBVIOUS
  <2> HIDE DEF b, e
  <2>4. Gets(Optional(b, e), s, u \o w, IF has THEN {x} ELSE {})
    BY <1>2, <1>3, <1>6, <2>1, <2>3, OptionalRead
  <2>5. QED BY <1>1, <2>2, <2>4
<1>7. QED BY <1>4, <1>5, <1>6 DEF y

LEMMA WinnerRead ==
  ASSUME NEW o \in Optionals(Octet)
  PROVE  /\ WriteWinner(o) \in Seq(Octet) /\ Len(WriteWinner(o)) >= 1
         /\ \A s \in Streams :
               Starts(s, WriteWinner(o)) => Gets(ReadWinner(s), s, WriteWinner(o), o)
<1> DEFINE n == ValueOf(o, 0)
           has == o # {}
           u == Bool(has)
           w == Byte(n)
<1>1. n \in Octet /\ o = IF has THEN {n} ELSE {}
  <2>1. CASE o = {}
    <3>1. n = 0 /\ ~has
      BY <2>1 DEF ValueOf
    <3>2. 0 \in Octet
      BY OctetIs
    <3> HIDE DEF n, has
    <3>3. QED BY <2>1, <3>1, <3>2
  <2>2. CASE o # {}
    BY <2>2, OptionalIs
  <2>3. QED BY <2>1, <2>2
<1> HIDE DEF n
<1>2. has \in BOOLEAN /\ n \in Int /\ n % 256 = n
  BY <1>1, CodeByte
<1>3. /\ u \in Seq(Octet) /\ Len(u) = 1 /\ w \in Seq(Octet) /\ Len(w) = 1
      /\ \A t \in Streams : Starts(t, w) => Gets(ReadByte(t), t, w, n)
  BY <1>2, BoolRead, ByteRead
<1>4. WriteWinner(o) = u \o w
  BY DEF WriteWinner, n
<1> HIDE DEF w, has
<1>5. u \o w \in Seq(Octet) /\ Len(u \o w) >= 1
  <2> HIDE DEF u
  <2>1. QED BY <1>3, ConcatProperties, LenProperties
<1>6. ASSUME NEW s \in Streams, Starts(s, u \o w) PROVE Gets(ReadWinner(s), s, u \o w, o)
  <2> DEFINE b == ReadBool(s)
             e == ReadByte(b.rest)
  <2>1. b.rest \in Streams /\ Starts(b.rest, w) => Gets(e, b.rest, w, n)
    BY <1>3
  <2>2. ReadWinner(s) = Optional(b, e) /\ b = ReadBool(s)
    BY DEF ReadWinner
  <2> HIDE DEF b, e
  <2>3. has \in BOOLEAN /\ w \in Seq(Octet)
    BY <1>2, <1>3
  <2>4. Gets(Optional(b, e), s, u \o w, IF has THEN {n} ELSE {})
    BY <1>6, <2>1, <2>2, <2>3, OptionalRead
  <2>5. QED BY <1>1, <2>2, <2>4
<1>7. QED BY <1>4, <1>5, <1>6

LEMMA BonificationRead ==
  ASSUME NEW n \in Int, Abs(n) \in Word
  PROVE  /\ WriteBonification(n) \in Seq(Octet) /\ Len(WriteBonification(n)) >= 1
         /\ \A s \in Streams : Starts(s, WriteBonification(n)) =>
               Gets(ReadBonification(s), s, WriteBonification(n), n)
<1> DEFINE k == IF n > 0 THEN 0 ELSE 1
           u == Byte(k)
           w == Num(Abs(n))
<1>1. /\ k \in Int /\ k % 256 = k /\ (k = 1 => n = -Abs(n)) /\ (k # 1 => n = Abs(n))
      /\ Abs(n) \in Int
  BY DEF Abs
<1>2. Abs(n) % 65536 = Abs(n)
  <2> DEFINE a == Abs(n)
  <2>1. a \in Int /\ 0 <= a /\ a <= 65535
    BY WordIs
  <2> HIDE DEF a
  <2>2. a % 65536 = a
    BY <2>1
  <2>3. QED BY <2>2 DEF a
<1> HIDE DEF k
<1>3. /\ u \in Seq(Octet) /\ Len(u) = 1 /\ w \in Seq(Octet) /\ Len(w) = 2
      /\ \A t \in Streams : Starts(t, w) => Gets(ReadNum(t), t, w, Abs(n))
  BY <1>1, <1>2, ByteRead, NumRead
<1>4. WriteBonification(n) = u \o w
  BY DEF WriteBonification, k
<1> HIDE DEF w
<1>5. u \o w \in Seq(Octet) /\ Len(u \o w) >= 1
  <2> HIDE DEF u
  <2>1. QED BY <1>3, ConcatProperties, LenProperties
<1>6. ASSUME NEW s \in Streams, Starts(s, u \o w)
      PROVE  Gets(ReadBonification(s), s, u \o w, n)
  <2> DEFINE b == ReadByte(s)
             t == b.rest
             e == ReadNum(t)
             d == ReadBonification(s)
  <2>1. Starts(s, u)
    <3> HIDE DEF u
    <3>1. QED BY <1>3, <1>6, Pieces
  <2>2. Gets(b, s, u, k)
    BY <1>1, <2>1, ByteRead
  <2> HIDE DEF b, u
  <2>3. t = After(s, Len(u)) /\ (t # Short => b.v = k)
    BY <2>2 DEF Gets
  <2>4. Starts(t, w) /\ t \in Streams /\ After(t, Len(w)) = After(s, Len(u \o w))
    <3> HIDE DEF t
    <3>1. QED BY <1>3, <1>6, <2>3, Then
  <2>5. e.rest = After(t, Len(w)) /\ (e.rest # Short => e.v = Abs(n))
    BY <1>3, <2>4 DEF Gets
  <2>6. d.rest = e.rest /\ d.v = IF b.v = 1 THEN -e.v ELSE e.v
    BY DEF ReadBonification, Read, b
  <2> HIDE DEF e, t, d
  <2>7. t = Short => e.rest = Short
    BY <2>5 DEF After
  <2>8. e.rest # Short => d.v = n
    BY <1>1, <2>3, <2>5, <2>6, <2>7
  <2>9. Gets(d, s, u \o w, n)
    BY <2>4, <2>5, <2>6, <2>8 DEF Gets
  <2>10. QED BY <2>9 DEF d
<1>7. QED BY <1>4, <1>5, <1>6

LEMMA GetPlaceGot ==
  ASSUME NEW s \in Streams, NEW p, NEW D, NEW name, NEW sofar, NEW u, Got(sofar, s, u, p, D),
         NEW o \in Optionals(Points), p[name] = AllWrapped(o)
  PROVE  Got(GetPlace(sofar, name), s, u \o WritePlace(o), p, D \cup {name})
<1> DEFINE w == WritePlace(o)
           e == ReadPlace(sofar.rest)
<1>1. /\ w \in Seq(Octet) /\ Len(w) >= 1
      /\ \A t \in Streams : Starts(t, w) => Gets(ReadPlace(t), t, w, AllWrapped(o))
  BY PlaceRead
<1> HIDE DEF w
<1>2. sofar.rest \in Streams /\ Starts(sofar.rest, w) => Gets(e, sofar.rest, w, p[name])
  BY <1>1
<1>3. GetPlace(sofar, name) = Field(sofar, name, e)
  BY DEF GetPlace
<1> HIDE DEF e
<1>4. Got(Field(sofar, name, e), s, u \o w, p, D \cup {name})
  BY <1>1, <1>2, OneMore
<1>5. QED BY <1>3, <1>4 DEF w

LEMMA GetWinnerGot ==
  ASSUME NEW s \in Streams, NEW p, NEW D, NEW name, NEW sofar, NEW u, Got(sofar, s, u, p, D),
         NEW o \in Optionals(Octet), p[name] = o
  PROVE  Got(GetWinner(sofar, name), s, u \o WriteWinner(o), p, D \cup {name})
<1> DEFINE w == WriteWinner(o)
           e == ReadWinner(sofar.rest)
<1>1. /\ w \in Seq(Octet) /\ Len(w) >= 1
      /\ \A t \in Streams : Starts(t, w) => Gets(ReadWinner(t), t, w, o)
  BY WinnerRead
<1> HIDE DEF w
<1>2. sofar.rest \in Streams /\ Starts(sofar.rest, w) => Gets(e, sofar.rest, w, p[name])
  BY <1>1
<1>3. GetWinner(sofar, name) = Field(sofar, name, e)
  BY DEF GetWinner
<1> HIDE DEF e
<1>4. Got(Field(sofar, name, e), s, u \o w, p, D \cup {name})
  BY <1>1, <1>2, OneMore
<1>5. QED BY <1>3, <1>4 DEF w

LEMMA GetBonificationGot ==
  ASSUME NEW s \in Streams, NEW p, NEW D, NEW name, NEW sofar, NEW u, Got(sofar, s, u, p, D),
         NEW n \in Int, Abs(n) \in Word, p[name] = n
  PROVE  Got(GetBonification(sofar, name), s, u \o WriteBonification(n), p, D \cup {name})
<1> DEFINE w == WriteBonification(n)
           e == ReadBonification(sofar.rest)
<1>1. /\ w \in Seq(Octet) /\ Len(w) >= 1
      /\ \A t \in Streams : Starts(t, w) => Gets(ReadBonification(t), t, w, n)
  BY BonificationRead
<1> HIDE DEF w
<1>2. sofar.rest \in Streams /\ Starts(sofar.rest, w) => Gets(e, sofar.rest, w, p[name])
  BY <1>1
<1>3. GetBonification(sofar, name) = Field(sofar, name, e)
  BY DEF GetBonification
<1> HIDE DEF e
<1>4. Got(Field(sofar, name, e), s, u \o w, p, D \cup {name})
  BY <1>1, <1>2, OneMore
<1>5. QED BY <1>3, <1>4 DEF w

-----------------------------------------------------------------------------
(***************************************************************************)
(* Loadouts and items.  In each record, u1, u2, ... are what is written    *)
(* up to a field and e1, e2, ... what is read of it.                       *)
(***************************************************************************)
LEMMA WordSame ==
  ASSUME NEW n \in Word
  PROVE  n \in Int /\ AsWord(n) = n
<1>1. n \in Int /\ 0 <= n /\ n <= 65535
  BY WordIs
<1>2. QED BY <1>1 DEF AsWord

LEMMA LoadoutRead ==
  ASSUME NEW l \in Loadouts
  PROVE  /\ WriteLoadout(l) \in Seq(Octet) /\ Len(WriteLoadout(l)) >= 1
         /\ \A s \in Streams : Starts(s, WriteLoadout(l)) =>
               Gets(ReadLoadout(s), s, WriteLoadout(l), l)
<1> DEFINE x == l
           D == {"money", "primary", "primary_ammo", "secondary", "secondary_ammo", "equipped",
                  "has_bomb"}
           w1 == Num(l.money)
           u1 == w1
           u2 == u1 \o Code(GunCode, l.primary)
           u3 == u2 \o Num(l.primary_ammo)
           u4 == u3 \o Code(GunCode, l.secondary)
           u5 == u4 \o Num(l.secondary_ammo)
           u6 == u5 \o Code(WeaponCode, l.equipped)
           u7 == u6 \o Bool(l.has_bomb)
<1>1. /\ l.money \in Int /\ x["money"] = AsWord(l.money)
      /\ l.primary \in DOMAIN GunCode /\ x["primary"] = l.primary
      /\ l.primary_ammo \in Int /\ x["primary_ammo"] = AsWord(l.primary_ammo)
      /\ l.secondary \in DOMAIN GunCode /\ x["secondary"] = l.secondary
      /\ l.secondary_ammo \in Int /\ x["secondary_ammo"] = AsWord(l.secondary_ammo)
      /\ l.equipped \in DOMAIN WeaponCode /\ x["equipped"] = l.equipped
      /\ l.has_bomb \in BOOLEAN /\ x["has_bomb"] = l.has_bomb
  BY WordSame DEF Loadouts
<1>2. x = [f \in D |-> x[f]]
  BY DEF Loadouts
<1> HIDE DEF x
<1>3. w1 \in Seq(Octet)
  BY <1>1, NumRead
<1>4. WriteLoadout(l) = u7
  BY DEF WriteLoadout
<1>5. ASSUME NEW s \in Streams PROVE Got(ReadLoadout(s), s, u7, x, D)
  <2> DEFINE e1 == GetNum(Begin(s), "money")
             e2 == GetGun(e1, "primary")
             e3 == GetNum(e2, "primary_ammo")
             e4 == GetGun(e3, "secondary")
             e5 == GetNum(e4, "secondary_ammo")
             e6 == GetWeapon(e5, "equipped")
             e7 == GetBool(e6, "has_bomb")
             D1 == {} \cup {"money"}
             D2 == D1 \cup {"primary"}
             D3 == D2 \cup {"primary_ammo"}
             D4 == D3 \cup {"secondary"}
             D5 == D4 \cup {"secondary_ammo"}
             D6 == D5 \cup {"equipped"}
             D7 == D6 \cup {"has_bomb"}
  <2>1. Got(e1, s, u1, x, D1)
    <3>1. Got(Begin(s), s, <<>>, x, {})
      BY NothingGot
    <3>2. Got(e1, s, <<>> \o w1, x, D1)
      BY <1>1, <3>1, GetNumGot
    <3> HIDE DEF e1, w1, D1
    <3>3. <<>> \o w1 = w1
      BY <1>3, ConcatEmptySeq
    <3>4. QED BY <3>2, <3>3
  <2> HIDE DEF e1, u1, D1
  <2>2. Got(e2, s, u2, x, D2)
    BY <1>1, <2>1, GetGunGot
  <2> HIDE DEF e2, u2, D2
  <2>3. Got(e3, s, u3, x, D3)
    BY <1>1, <2>2, GetNumGot
  <2> HIDE DEF e3, u3, D3
  <2>4. Got(e4, s, u4, x, D4)
    BY <1>1, <2>3, GetGunGot
  <2> HIDE DEF e4, u4, D4
  <2>5. Got(e5, s, u5, x, D5)
    BY <1>1, <2>4, GetNumGot
  <2> HIDE DEF e5, u5, D5
  <2>6. Got(e6, s, u6, x, D6)
    BY <1>1, <2>5, GetWeaponGot
  <2> HIDE DEF e6, u6, D6
  <2>7. Got(e7, s, u7, x, D7)
    BY <1>1, <2>6, GetBoolGot
  <2> HIDE DEF e7, u7, D7
  <2>8. D7 = D
    BY DEF D1, D2, D3, D4, D5, D6, D7
  <2>9. ReadLoadout(s) = e7
    BY DEF ReadLoadout, e1, e2, e3, e4, e5, e6, e7
  <2>10. QED BY <2>7, <2>8, <2>9
<1> DEFINE w == u7
<1>6. \A s \in Streams : Got(ReadLoadout(s), s, w, x, D)
  BY <1>5
<1> HIDE DEF w
<1>7. w \in Seq(Octet) /\ Len(w) >= 1
  <2>1. Short \in Streams /\ "money" \in D \ {"type"}
    BY DEF Streams
  <2> HIDE DEF D
  <2>2. Got(ReadLoadout(Short), Short, w, x, D) /\ D \ {"type"} # {}
    BY <1>6, <2>1
  <2>3. QED BY <2>2 DEF Got
<1>8. \A s \in Streams : Starts(s, w) => Gets(ReadLoadout(s), s, w, x)
  BY <1>2, <1>6, WholeGot
<1>9. QED BY <1>4, <1>7, <1>8 DEF w, x

LEMMA DroppedGunRead ==
  ASSUME NEW i \in [type : {"gun"}, position : Points, gun : DOMAIN GunCode, ammo : Word]
  PROVE  /\ WriteDroppedGun(i) \in Seq(Octet) /\ Len(WriteDroppedGun(i)) >= 1
         /\ \A s \in Streams : Starts(s, WriteDroppedGun(i)) =>
               Gets(ReadDroppedGun(s), s, WriteDroppedGun(i), ArrivingItem(i))
<1> DEFINE x == ArrivingItem(i)
           D == {"type", "position", "gun", "ammo"}
           w1 == Pos(i.position)
           u1 == w1
           u2 == u1 \o Code(GunCode, i.gun)
           u3 == u2 \o Num(i.ammo)
<1>1. /\ i.position \in Points /\ x["position"] = Wrapped(i.position)
      /\ i.gun \in DOMAIN GunCode /\ x["gun"] = i.gun
      /\ i.ammo \in Int /\ x["ammo"] = AsWord(i.ammo)
  BY WordSame DEF ArrivingItem
<1>2. x = [f \in D |-> x[f]] /\ x.type = "gun"
  BY DEF ArrivingItem
<1> HIDE DEF x
<1>3. w1 \in Seq(Octet)
  BY <1>1, PosRead
<1>4. WriteDroppedGun(i) = u3
  BY DEF WriteDroppedGun
<1>5. ASSUME NEW s \in Streams PROVE Got(ReadDroppedGun(s), s, u3, x, D)
  <2> DEFINE e1 == GetPos(BeginWith("gun", s), "position")
             e2 == GetGun(e1, "gun")
             e3 == GetNum(e2, "ammo")
             D1 == {"type"} \cup {"position"}
             D2 == D1 \cup {"gun"}
             D3 == D2 \cup {"ammo"}
  <2>1. Got(e1, s, u1, x, D1)
    <3>1. Got(BeginWith("gun", s), s, <<>>, x, {"type"})
      BY <1>2, TypeGot
    <3>2. Got(e1, s, <<>> \o w1, x, D1)
      BY <1>1, <3>1, GetPosGot
    <3> HIDE DEF e1, w1, D1
    <3>3. <<>> \o w1 = w1
      BY <1>3, ConcatEmptySeq
    <3>4. QED BY <3>2, <3>3
  <2> HIDE DEF e1, u1, D1
  <2>2. Got(e2, s, u2, x, D2)
    BY <1>1, <2>1, GetGunGot
  <2> HIDE DEF e2, u2, D2
  <2>3. Got(e3, s, u3, x, D3)
    BY <1>1, <2>2, GetNumGot
  <2> HIDE DEF e3, u3, D3
  <2>4. D3 = D
    BY DEF D1, D2, D3
  <2>5. ReadDroppedGun(s) = e3
    BY DEF ReadDroppedGun, e1, e2, e3
  <2>6. QED BY <2>3, <2>4, <2>5
<1> DEFINE w == u3
<1>6. \A s \in Streams : Got(ReadDroppedGun(s), s, w, x, D)
  BY <1>5
<1> HIDE DEF w
<1>7. w \in Seq(Octet) /\ Len(w) >= 1
  <2>1. Short \in Streams /\ "position" \in D \ {"type"}
    BY DEF Streams
  <2> HIDE DEF D
  <2>2. Got(ReadDroppedGun(Short), Short, w, x, D) /\ D \ {"type"} # {}
    BY <1>6, <2>1
  <2>3. QED BY <2>2 DEF Got
<1>8. \A s \in Streams : Starts(s, w) => Gets(ReadDroppedGun(s), s, w, x)
  BY <1>2, <1>6, WholeGot
<1>9. QED BY <1>4, <1>7, <1>8 DEF w, x

LEMMA GetLoadoutGot ==
  ASSUME NEW s \in Streams, NEW p, NEW D, NEW name, NEW sofar, NEW u, Got(sofar, s, u, p, D),
         NEW l \in Loadouts, p[name] = l
  PROVE  Got(GetLoadout(sofar, name), s, u \o WriteLoadout(l), p, D \cup {name})
<1> DEFINE w == WriteLoadout(l)
           e == ReadLoadout(sofar.rest)
<1>1. /\ w \in Seq(Octet) /\ Len(w) >= 1
      /\ \A t \in Streams : Starts(t, w) => Gets(ReadLoadout(t), t, w, l)
  BY LoadoutRead
<1> HIDE DEF w
<1>2. sofar.rest \in Streams /\ Starts(sofar.rest, w) => Gets(e, sofar.rest, w, p[name])
  BY <1>1
<1>3. GetLoadout(sofar, name) = Field(sofar, name, e)
  BY DEF GetLoadout
<1> HIDE DEF e
<1>4. Got(Field(sofar, name, e), s, u \o w, p, D \cup {name})
  BY <1>1, <1>2, OneMore
<1>5. QED BY <1>3, <1>4 DEF w

LEMMA DroppedBombRead ==
  ASSUME NEW i \in [type : {"bomb"}, position : Points]
  PROVE  /\ Pos(i.position) \in Seq(Octet) /\ Len(Pos(i.position)) >= 1
         /\ \A s \in Streams : Starts(s, Pos(i.position)) =>
               Gets(ReadDroppedBomb(s), s, Pos(i.position), ArrivingItem(i))
<1> DEFINE x == ArrivingItem(i)
           w == Pos(i.position)
<1>1. /\ i.position \in Points /\ x["position"] = Wrapped(i.position) /\ x.type = "bomb"
      /\ x = [f \in {"type", "position"} |-> x[f]]
  BY DEF ArrivingItem
<1> HIDE DEF x
<1>2. w \in Seq(Octet) /\ Len(w) >= 1
  BY <1>1, PosRead
<1>3. ASSUME NEW s \in Streams, Starts(s, w) PROVE Gets(ReadDroppedBomb(s), s, w, x)
  <2>1. Got(GetPos(BeginWith("bomb", s), "position"), s, <<>> \o w, x,
            {"type"} \cup {"position"})
    BY <1>1, TypeGot, GetPosGot
  <2> HIDE DEF w
  <2>2. QED BY <1>1, <1>2, <1>3, <2>1, OneFieldRead DEF ReadDroppedBomb
<1>4. QED BY <1>2, <1>3 DEF x

-----------------------------------------------------------------------------
(***************************************************************************)
(* Lists.  What FlattenSeq and ReadMany compute is shown for the least     *)
(* number of elements for which it would be something else.                *)
(***************************************************************************)
LEMMA LeastExists ==
  ASSUME NEW S \in SUBSET Nat, S # {}
  PROVE  \E n \in S : \A k \in S : n <= k
<1> DEFINE T == {0..n : n \in S}
<1>1. T \subseteq FiniteSubsetsOf(Nat) /\ T # {}
  <2>1. \A n \in S : n \in Int /\ 0..n \in SUBSET Nat
    OBVIOUS
  <2>2. \A n \in S : IsFiniteSet(0..n)
    BY <2>1, FS_Interval
  <2>3. QED BY <2>1, <2>2 DEF FiniteSubsetsOf
<1>2. PICK t \in T : \A u \in T : ~ (<<u, t>> \in StrictSubsetOrdering(Nat))
  <2> HIDE DEF T
  <2>1. IsWellFoundedOn(StrictSubsetOrdering(Nat), FiniteSubsetsOf(Nat))
    BY FS_StrictSubsetOrderingWellFounded
  <2>2. QED BY <1>1, <2>1, WFMin
<1>3. PICK n \in S : t = 0..n
  BY <1>2
<1>4. ASSUME NEW k \in S, k < n PROVE FALSE
  <2>1. /\ 0..k \in SUBSET Nat /\ 0..n \in SUBSET Nat
        /\ 0..k \subseteq 0..n /\ n \notin 0..k /\ n \in 0..n
    BY <1>4
  <2>2. <<0..k, 0..n>> \in StrictSubsetOrdering(Nat)
    BY <2>1 DEF StrictSubsetOrdering
  <2>3. 0..k \in T
    OBVIOUS
  <2>4. QED BY <1>2, <1>3, <2>2, <2>3
<1>5. QED BY <1>4

LEMMA FlattenExists ==
  ASSUME NEW b, NEW n \in Nat
  PROVE  \E f : f = [i \in 1..n |-> IF i = 1 THEN b[i] ELSE f[i - 1] \o b[i]]
<1> DEFINE Is(f, m) == f = [i \in 1..m |-> IF i = 1 THEN b[i] ELSE f[i - 1] \o b[i]]
           Bad == {m \in Nat : ~\E f : Is(f, m)}
<1>1. SUFFICES ASSUME Bad # {} PROVE FALSE
  OBVIOUS
<1>2. PICK m \in Bad : \A k \in Bad : m <= k
  <2>1. Bad \in SUBSET Nat
    OBVIOUS
  <2> HIDE DEF Bad
  <2>2. QED BY <1>1, <2>1, LeastExists
<1>3. m \in Nat /\ ~\E f : Is(f, m)
  BY <1>2
<1>4. CASE m = 0
  <2>1. Is([i \in 1..0 |-> b[i]], 0)
    OBVIOUS
  <2>2. QED BY <1>3, <1>4, <2>1
<1>5. CASE m > 0
  <2>1. m - 1 \in Nat /\ m - 1 \notin Bad
    <3>1. m - 1 \in Nat /\ ~(m <= m - 1)
      BY <1>3, <1>5
    <3> HIDE DEF Bad
    <3>2. QED BY <1>2, <3>1
  <2>2. PICK f : Is(f, m - 1)
    BY <2>1
  <2> DEFINE last == IF m = 1 THEN b[m] ELSE f[m - 1] \o b[m]
             h == [i \in 1..m |-> IF i < m THEN f[i] ELSE last]
  <2>21. \A i \in 1..(m - 1) : f[i] = IF i = 1 THEN b[i] ELSE f[i - 1] \o b[i]
    BY <2>2
  <2> HIDE DEF last
  <2>22. (\A i \in 1..(m - 1) : h[i] = f[i]) /\ h[m] = last
    <3>1. m \in 1..m /\ \A i \in 1..(m - 1) : i \in 1..m /\ i < m
      BY <1>3, <1>5
    <3>2. QED BY <1>3, <3>1
  <2> HIDE DEF h
  <2>3. ASSUME NEW i \in 1..m PROVE h[i] = IF i = 1 THEN b[i] ELSE h[i - 1] \o b[i]
    <3>1. CASE i = m
      <4>1. i # 1 => i - 1 \in 1..(m - 1)
        BY <1>3, <1>5, <3>1
      <4>2. QED BY <2>22, <3>1, <4>1 DEF last
    <3>2. CASE i # m
      <4>1. i \in 1..(m - 1) /\ (i # 1 => i - 1 \in 1..(m - 1))
        BY <1>3, <1>5, <3>2
      <4>2. QED BY <2>21, <2>22, <4>1
    <3>3. QED BY <3>1, <3>2
  <2>4. h = [i \in 1..m |-> h[i]]
    BY DEF h
  <2>5. Is(h, m)
    BY <2>3, <2>4
  <2>6. QED BY <1>3, <2>5
<1>6. QED BY <1>3, <1>4, <1>5

LEMMA FlattenIs ==
  ASSUME NEW b \in Seq(Seq(Octet))
  PROVE  \E g : /\ g \in [0..Len(b) -> Seq(Octet)]
                /\ g[0] = <<>> /\ \A i \in 1..Len(b) : g[i] = g[i - 1] \o b[i]
                /\ FlattenSeq(b) = g[Len(b)]
<1> DEFINE n == Len(b)
           Is(f) == f = [i \in 1..n |-> IF i = 1 THEN b[i] ELSE f[i - 1] \o b[i]]
           f == CHOOSE f : Is(f)
           g == [i \in 0..n |-> IF i = 0 THEN <<>> ELSE f[i]]
<1>1. n \in Nat /\ \A i \in 1..n : b[i] \in Seq(Octet)
  <2> DEFINE S == Seq(Octet)
  <2>1. b \in Seq(S)
    OBVIOUS
  <2> HIDE DEF S
  <2>2. n \in Nat /\ \A i \in 1..n : b[i] \in S
    BY <2>1, LenProperties, ElementOfSeq
  <2>3. QED BY <2>2 DEF S
<1>2. Is(f)
  <2>1. \E h : Is(h)
    BY <1>1, FlattenExists
  <2>2. QED BY <2>1
<1>3. n # 0 => FlattenSeq(b) = f[n]
  BY DEF FlattenSeq
<1>4. n = 0 => FlattenSeq(b) = <<>>
  BY EmptySeq DEF FlattenSeq
<1> HIDE DEF f
<1>5. \A i \in 1..n : f[i] = IF i = 1 THEN b[i] ELSE f[i - 1] \o b[i]
  BY <1>2
<1>6. g[0] = <<>> /\ \A i \in 1..n : g[i] = g[i - 1] \o b[i]
  <2>1. ASSUME NEW i \in 1..n PROVE g[i] = g[i - 1] \o b[i]
    <3>1. CASE i = 1
      <4>1. g[1] = b[1] /\ g[0] = <<>> /\ b[1] \in Seq(Octet) /\ 1 - 1 = 0
        BY <1>1, <1>5, <3>1
      <4>2. <<>> \o b[1] = b[1]
        BY <4>1, ConcatEmptySeq
      <4>3. QED BY <3>1, <4>1, <4>2
    <3>2. CASE i # 1
      <4>1. i - 1 \in 0..n /\ i - 1 # 0 /\ i \in 0..n /\ i # 0
        BY <1>1, <3>2
      <4>2. QED BY <1>5, <3>2, <4>1
    <3>3. QED BY <3>1, <3>2
  <2>2. g[0] = <<>>
    BY <1>1
  <2> HIDE DEF g
  <2>3. QED BY <2>1, <2>2
<1>7. FlattenSeq(b) = g[n]
  BY <1>1, <1>3, <1>4
<1>8. g \in [0..n -> Seq(Octet)]
  <2> DEFINE Bad == {i \in 0..n : g[i] \notin Seq(Octet)}
  <2>1. SUFFICES ASSUME Bad # {} PROVE FALSE
    OBVIOUS
  <2>2. PICK m \in Bad : \A k \in Bad : m <= k
    <3>1. Bad \in SUBSET Nat
      BY <1>1
    <3> HIDE DEF Bad
    <3>2. QED BY <2>1, <3>1, LeastExists
  <2>3. m \in 0..n /\ g[m] \notin Seq(Octet)
    BY <2>2
  <2>4. m # 0
    <3>1. <<>> \in Seq(Octet)
      OBVIOUS
    <3>2. QED BY <1>6, <2>3, <3>1
  <2>5. m - 1 \in 0..n /\ ~(m <= m - 1) /\ m \in 1..n
    BY <1>1, <2>3, <2>4
  <2>6. g[m - 1] \in Seq(Octet)
    <3> HIDE DEF g
    <3>1. m - 1 \notin Bad
      <4> HIDE DEF Bad
      <4>1. QED BY <2>2, <2>5
    <3>2. QED BY <2>5, <3>1
  <2> HIDE DEF g
  <2>7. g[m] \in Seq(Octet)
    BY <1>1, <1>6, <2>5, <2>6, ConcatProperties
  <2>8. QED BY <2>3, <2>7
<1> HIDE DEF g
<1>9. QED BY <1>6, <1>7, <1>8

\* One element more: the state of ReadMany after it.
OneRead(read, d) == LET e == read[d.rest] IN Read(Append(d.v, e.v), e.rest)

\* f is the function ReadMany computes with.
Reading(f, first, read, n) ==
    f = [i \in 0..n |-> IF i = 0 THEN first ELSE OneRead(read, f[i - 1])]

LEMMA ManyExists ==
  ASSUME NEW first, NEW read, NEW n \in Nat
  PROVE  \E f : Reading(f, first, read, n)
<1> DEFINE Is(f, m) == Reading(f, first, read, m)
           Bad == {m \in Nat : ~\E f : Is(f, m)}
<1>1. SUFFICES ASSUME Bad # {} PROVE FALSE
  OBVIOUS
<1>2. PICK m \in Bad : \A k \in Bad : m <= k
  <2>1. Bad \in SUBSET Nat
    OBVIOUS
  <2> HIDE DEF Bad
  <2>2. QED BY <1>1, <2>1, LeastExists
<1>3. m \in Nat /\ ~\E f : Is(f, m)
  BY <1>2
<1>4. CASE m = 0
  <2>1. Is([i \in 0..0 |-> first], 0)
    BY DEF Reading
  <2>2. QED BY <1>3, <1>4, <2>1
<1>5. CASE m > 0
  <2>1. m - 1 \in Nat /\ m - 1 \notin Bad
    <3>1. m - 1 \in Nat /\ ~(m <= m - 1)
      BY <1>3, <1>5
    <3> HIDE DEF Bad
    <3>2. QED BY <1>2, <3>1
  <2>2. PICK f : Is(f, m - 1)
    BY <2>1
  <2> DEFINE last == OneRead(read, f[m - 1])
             h == [i \in 0..m |-> IF i < m THEN f[i] ELSE last]
  <2>3. \A i \in 0..(m - 1) : f[i] = IF i = 0 THEN first ELSE OneRead(read, f[i - 1])
    BY <2>2 DEF Reading
  <2> HIDE DEF last
  <2>4. (\A i \in 0..(m - 1) : h[i] = f[i]) /\ h[m] = last
    <3>1. m \in 0..m /\ \A i \in 0..(m - 1) : i \in 0..m /\ i < m
      BY <1>3, <1>5
    <3>2. QED BY <1>3, <3>1
  <2> HIDE DEF h
  <2>5. ASSUME NEW i \in 0..m PROVE h[i] = IF i = 0 THEN first ELSE OneRead(read, h[i - 1])
    <3>1. CASE i = m
      <4>1. i # 0 /\ i - 1 \in 0..(m - 1)
        BY <1>3, <1>5, <3>1
      <4>2. QED BY <2>4, <3>1, <4>1 DEF last
    <3>2. CASE i # m
      <4>1. i \in 0..(m - 1) /\ (i # 0 => i - 1 \in 0..(m - 1))
        BY <1>3, <1>5, <3>2
      <4>2. QED BY <2>3, <2>4, <4>1
    <3>3. QED BY <3>1, <3>2
  <2>6. h = [i \in 0..m |-> h[i]]
    BY DEF h
  <2>7. Is(h, m)
    BY <2>5, <2>6 DEF Reading
  <2>8. QED BY <1>3, <2>7
<1>6. QED BY <1>3, <1>4, <1>5

LEMMA ReadManyIs ==
  ASSUME NEW s \in Streams, NEW read, NEW n \in Nat
  PROVE  /\ s = Short \/ n > Len(s) => ReadMany(s, n, read) = Read(<<>>, Short)
         /\ s # Short /\ ~(n > Len(s)) =>
               \E f : /\ f[0] = Read(<<>>, s)
                      /\ \A i \in 1..n : f[i] = OneRead(read, f[i - 1])
                      /\ ReadMany(s, n, read) = f[n]
<1> DEFINE first == Read(<<>>, s)
           f == CHOOSE f : f = [i \in 0..n |-> IF i = 0 THEN first ELSE OneRead(read, f[i - 1])]
<1>0. PICK h : h = [i \in 0..n |-> IF i = 0 THEN first ELSE OneRead(read, h[i - 1])]
  <2>1. PICK h : Reading(h, first, read, n)
    BY ManyExists
  <2> HIDE DEF first
  <2>2. h = [i \in 0..n |-> IF i = 0 THEN first ELSE OneRead(read, h[i - 1])]
    BY <2>1 DEF Reading
  <2>3. QED BY <2>2
<1>1. f = [i \in 0..n |-> IF i = 0 THEN first ELSE OneRead(read, f[i - 1])]
  <2> HIDE DEF first
  <2>1. QED BY <1>0
<1>2. ReadMany(s, n, read) = IF s = Short \/ n > Len(s) THEN Read(<<>>, Short) ELSE f[n]
  BY DEF ReadMany, OneRead
<1> HIDE DEF f
<1>3. f[0] = first /\ \A i \in 1..n : f[i] = OneRead(read, f[i - 1])
  <2> HIDE DEF first
  <2>1. QED BY <1>1
<1>4. QED BY <1>2, <1>3

\* The first i elements of x are read.
ReadSoFar(d, i, x, S) ==
    d.v \in Seq(S) /\ Len(d.v) = i /\ \A j \in 1..i : d.v[j] = x[j]

LEMMA OneReadIs ==
  ASSUME NEW S, NEW x \in Seq(S), NEW i \in 1..Len(x), NEW s \in Streams,
         NEW g \in Seq(Octet), NEW b \in Seq(Octet), Starts(s, g \o b),
         NEW read, \A t \in Streams : Starts(t, b) => Gets(read[t], t, b, x[i]),
         NEW d, d.rest = After(s, Len(g)),
         d.rest # Short => ReadSoFar(d, i - 1, x, S)
  PROVE  LET e == OneRead(read, d)
         IN  e.rest = After(s, Len(g \o b)) /\ (e.rest # Short => ReadSoFar(e, i, x, S))
<1> DEFINE t == d.rest
           r == read[t]
           e == OneRead(read, d)
<1>1. Starts(t, b) /\ t \in Streams /\ After(t, Len(b)) = After(s, Len(g \o b))
  BY Then
<1>2. r.rest = After(t, Len(b)) /\ (r.rest # Short => r.v = x[i])
  BY <1>1 DEF Gets
<1>3. e.rest = r.rest /\ e.v = Append(d.v, r.v)
  BY DEF OneRead, Read
<1>4. t = Short => r.rest = Short
  BY <1>2 DEF After
<1> HIDE DEF t, r, e
<1>5. ASSUME e.rest # Short PROVE ReadSoFar(e, i, x, S)
  <2>1. d.v \in Seq(S) /\ Len(d.v) = i - 1 /\ \A j \in 1..(i - 1) : d.v[j] = x[j]
    BY <1>3, <1>4, <1>5 DEF ReadSoFar, t
  <2>2. r.v = x[i] /\ x[i] \in S /\ i \in Nat
    BY <1>2, <1>3, <1>5, ElementOfSeq
  <2>3. /\ e.v \in Seq(S) /\ Len(e.v) = Len(d.v) + 1
        /\ \A j \in 1..Len(d.v) : e.v[j] = d.v[j]
        /\ e.v[Len(d.v) + 1] = x[i]
    BY <1>3, <2>1, <2>2, AppendProperties
  <2>4. Len(d.v) + 1 = i /\ \A j \in 1..i : j = i \/ j \in 1..(i - 1)
    BY <2>1, <2>2
  <2>5. QED BY <2>1, <2>3, <2>4 DEF ReadSoFar
<1>6. e.rest = After(s, Len(g \o b))
  BY <1>1, <1>2, <1>3
<1>7. QED BY <1>5, <1>6 DEF e

LEMMA ManyRead ==
  ASSUME NEW S, NEW b \in Seq(Seq(Octet)), NEW x \in Seq(S), Len(x) = Len(b), NEW read,
         \A i \in 1..Len(b) :
            /\ Len(b[i]) >= 1
            /\ \A t \in Streams : Starts(t, b[i]) => Gets(read[t], t, b[i], x[i])
  PROVE  /\ FlattenSeq(b) \in Seq(Octet)
         /\ \A s \in Streams : \A m :
               Starts(s, FlattenSeq(b)) /\ (s # Short => m = Len(b))
                  => Gets(ReadMany(s, m, read), s, FlattenSeq(b), x)
<1> DEFINE n == Len(b)
<1>1. PICK g : /\ g \in [0..n -> Seq(Octet)]
               /\ g[0] = <<>> /\ \A i \in 1..n : g[i] = g[i - 1] \o b[i]
               /\ FlattenSeq(b) = g[n]
  BY FlattenIs
<1>2. n \in Nat /\ \A i \in 1..n : b[i] \in Seq(Octet) /\ i - 1 \in 0..n /\ i \in 0..n
  BY LenProperties, ElementOfSeq
<1> HIDE DEF n
<1>3. n \in 0..n /\ g[n] \in Seq(Octet) /\ \A i \in 0..n : g[i] \in Seq(Octet)
  BY <1>1, <1>2
<1>4. ASSUME NEW i \in 1..n
      PROVE  Len(g[i]) = Len(g[i - 1]) + Len(b[i]) /\ Len(b[i]) >= 1
  <2>1. g[i] = g[i - 1] \o b[i] /\ g[i - 1] \in Seq(Octet) /\ b[i] \in Seq(Octet)
    BY <1>1, <1>2, <1>3
  <2>2. Len(g[i]) = Len(g[i - 1]) + Len(b[i])
    BY <2>1, ConcatProperties
  <2>3. QED BY <2>2 DEF n
<1>5. ASSUME NEW i \in 0..n PROVE Len(g[i]) >= i
  <2> DEFINE Bad == {k \in 0..n : ~(Len(g[k]) >= k)}
  <2>1. SUFFICES ASSUME Bad # {} PROVE FALSE
    OBVIOUS
  <2>2. PICK k \in Bad : \A j \in Bad : k <= j
    <3>1. Bad \in SUBSET Nat
      BY <1>2
    <3> HIDE DEF Bad
    <3>2. QED BY <2>1, <3>1, LeastExists
  <2>3. k \in 0..n /\ ~(Len(g[k]) >= k) /\ Len(g[k]) \in Nat
    BY <1>3, <2>2, LenProperties
  <2>4. k # 0
    BY <2>3
  <2>5. k - 1 \in 0..n /\ ~(k <= k - 1) /\ k \in 1..n
    BY <1>2, <2>3, <2>4
  <2>6. Len(g[k - 1]) >= k - 1
    <3>1. k - 1 \notin Bad
      <4> HIDE DEF Bad
      <4>1. QED BY <2>2, <2>5
    <3>2. QED BY <2>5, <3>1
  <2>7. /\ Len(g[k - 1]) \in Nat /\ Len(b[k]) \in Nat /\ Len(g[k]) = Len(g[k - 1]) + Len(b[k])
        /\ Len(b[k]) >= 1
    BY <1>2, <1>3, <1>4, <2>5, LenProperties
  <2> DEFINE all == Len(g[k])
             before == Len(g[k - 1])
             piece == Len(b[k])
  <2> HIDE DEF Bad
  <2>8. k \in Nat
    BY <1>2, <2>3
  <2>9. before \in Nat /\ piece \in Nat /\ all = before + piece /\ piece >= 1
    BY <2>7
  <2>10. before >= k - 1
    BY <2>6
  <2>11. ~(all >= k)
    BY <2>3
  <2> HIDE DEF all, before, piece
  <2>12. QED BY <2>8, <2>9, <2>10, <2>11
<1>6. ASSUME NEW s \in Streams, NEW m, Starts(s, g[n]), s # Short => m = n
      PROVE  Gets(ReadMany(s, m, read), s, g[n], x)
  <2>1. CASE s = Short
    BY <2>1 DEF ReadMany, Read, Gets, After
  <2>2. CASE s # Short /\ n > Len(s)
    <3>1. ReadMany(s, n, read) = Read(<<>>, Short) /\ m = n
      BY <1>2, <1>6, <2>2, ReadManyIs
    <3>2. Len(g[n]) > Len(s) /\ Len(g[n]) \in Nat
      <4>1. Len(g[n]) >= n /\ Len(g[n]) \in Nat
        BY <1>3, <1>5, LenProperties
      <4>2. Len(s) \in Nat
        BY <2>2, LenProperties DEF Streams
      <4>3. QED BY <1>2, <2>2, <4>1, <4>2
    <3>3. After(s, Len(g[n])) = Short
      BY <3>2, AfterIs
    <3>4. QED BY <3>1, <3>3 DEF Gets, Read
  <2>3. CASE s # Short /\ ~(n > Len(s))
    <3>1. PICK f : /\ f[0] = Read(<<>>, s)
                   /\ \A i \in 1..n : f[i] = OneRead(read, f[i - 1])
                   /\ ReadMany(s, n, read) = f[n]
      BY <1>2, <2>3, ReadManyIs
    <3>2. ASSUME NEW i \in 0..n PROVE Starts(s, g[i])
      <4> DEFINE Bad == {k \in 0..n : ~Starts(s, g[n - k])}
      <4>1. SUFFICES ASSUME Bad # {} PROVE FALSE
        <5>1. n - i \in 0..n /\ n - (n - i) = i
          BY <1>2
        <5>2. ~Starts(s, g[i]) => n - i \in Bad
          BY <5>1
        <5>3. QED BY <5>2
      <4>2. PICK k \in Bad : \A j \in Bad : k <= j
        <5>1. Bad \in SUBSET Nat
          BY <1>2
        <5> HIDE DEF Bad
        <5>2. QED BY <4>1, <5>1, LeastExists
      <4>3. k \in 0..n /\ ~Starts(s, g[n - k])
        BY <4>2
      <4>4. k # 0
        <5>1. n - 0 = n
          BY <1>2
        <5>2. QED BY <1>6, <4>3, <5>1
      <4>5. /\ k - 1 \in 0..n /\ ~(k <= k - 1) /\ n - k + 1 \in 1..n /\ n - (k - 1) = n - k + 1
            /\ n - k + 1 - 1 = n - k /\ n - k \in 0..n
        BY <1>2, <4>3, <4>4
      <4>6. Starts(s, g[n - (k - 1)])
        <5>1. k - 1 \notin Bad
          <6> HIDE DEF Bad
          <6>1. QED BY <4>2, <4>5
        <5>2. QED BY <4>5, <5>1
      <4> HIDE DEF Bad
      <4> DEFINE j == n - k + 1
      <4>7. g[j] = g[n - k] \o b[j]
        <5>1. j \in 1..n /\ j - 1 = n - k
          BY <4>5
        <5> HIDE DEF j
        <5>2. QED BY <1>1, <5>1
      <4>8. Starts(s, g[n - k] \o b[n - k + 1])
        BY <4>5, <4>6, <4>7
      <4>9. g[n - k] \in Seq(Octet) /\ b[n - k + 1] \in Seq(Octet)
        BY <1>2, <1>3, <4>5
      <4>10. QED BY <4>3, <4>8, <4>9, Pieces
    <3> DEFINE Good(i) == /\ f[i].rest = After(s, Len(g[i]))
                          /\ f[i].rest # Short => ReadSoFar(f[i], i, x, S)
    <3>3. ASSUME NEW i \in 0..n PROVE Good(i)
      <4> DEFINE Bad == {k \in 0..n : ~Good(k)}
      <4>1. SUFFICES ASSUME Bad # {} PROVE FALSE
        OBVIOUS
      <4>2. PICK k \in Bad : \A j \in Bad : k <= j
        <5>1. Bad \in SUBSET Nat
          BY <1>2
        <5> HIDE DEF Bad
        <5>2. QED BY <4>1, <5>1, LeastExists
      <4>3. k \in 0..n /\ ~Good(k)
        BY <4>2
      <4>4. k # 0
        <5>1. f[0].rest = s /\ f[0].v = <<>> /\ Len(g[0]) = 0
          BY <1>1, <3>1 DEF Read
        <5>2. After(s, 0) = s
          BY AfterNothing
        <5>3. ReadSoFar(f[0], 0, x, S)
          BY <5>1 DEF ReadSoFar
        <5>4. Good(0)
          BY <5>1, <5>2, <5>3
        <5> HIDE DEF Good
        <5>5. QED BY <4>3, <5>4
      <4>5. k - 1 \in 0..n /\ ~(k <= k - 1) /\ k \in 1..n
        BY <1>2, <4>3, <4>4
      <4>6. Good(k - 1)
        <5>1. k - 1 \notin Bad
          <6> HIDE DEF Bad
          <6>1. QED BY <4>2, <4>5
        <5> HIDE DEF Good
        <5>2. QED BY <4>5, <5>1
      <4> HIDE DEF Bad
      <4>7. /\ g[k] = g[k - 1] \o b[k] /\ g[k - 1] \in Seq(Octet) /\ b[k] \in Seq(Octet)
            /\ f[k] = OneRead(read, f[k - 1]) /\ Starts(s, g[k])
        BY <1>1, <1>2, <1>3, <3>1, <3>2, <4>5
      <4>8. k \in 1..Len(x)
        BY <4>5 DEF n
      <4>9. \A t \in Streams : Starts(t, b[k]) => Gets(read[t], t, b[k], x[k])
        BY <4>5 DEF n
      <4> DEFINE d == f[k - 1]
      <4>10. d.rest = After(s, Len(g[k - 1])) /\ (d.rest # Short => ReadSoFar(d, k - 1, x, S))
        BY <4>6
      <4>11. Starts(s, g[k - 1] \o b[k])
        BY <4>7
      <4> HIDE DEF d
      <4>12. LET e == OneRead(read, d)
             IN  /\ e.rest = After(s, Len(g[k - 1] \o b[k]))
                 /\ e.rest # Short => ReadSoFar(e, k, x, S)
        BY <4>7, <4>8, <4>9, <4>10, <4>11, OneReadIs
      <4>13. f[k] = OneRead(read, d)
        BY <4>7 DEF d
      <4>14. Good(k)
        BY <4>7, <4>12, <4>13
      <4> HIDE DEF Good
      <4>15. QED BY <4>3, <4>14
    <3>4. Good(n)
      BY <1>3, <3>3
    <3>5. ASSUME f[n].rest # Short PROVE f[n].v = x
      <4>1. /\ f[n].v \in Seq(S) /\ Len(f[n].v) = Len(x)
            /\ \A j \in 1..Len(x) : f[n].v[j] = x[j]
        BY <3>4, <3>5 DEF ReadSoFar, n
      <4>2. QED BY <4>1, SeqEqual
    <3>6. QED BY <1>6, <2>3, <3>1, <3>4, <3>5 DEF Gets
  <2>4. QED BY <1>2, <2>1, <2>2, <2>3
<1>7. QED BY <1>1, <1>3, <1>6 DEF n

\* A list: its length k, and its elements, of which b holds the bytes and x what
\* is read.
OneEach(b, q) == b = [i \in DOMAIN q |-> b[i]]

EachIsRead(q, b, x, read) ==
    \A i \in DOMAIN q :
        /\ b[i] \in Seq(Octet) /\ Len(b[i]) >= 1
        /\ \A t \in Streams : Starts(t, b[i]) => Gets(read[t], t, b[i], x[i])

LEMMA ListRead ==
  ASSUME NEW T, NEW q \in Seq(T), NEW b, OneEach(b, q), NEW x, OneEach(x, q),
         NEW read, EachIsRead(q, b, x, read), NEW k \in Seq(Octet)
  PROVE  /\ FlattenSeq(b) \in Seq(Octet)
         /\ k \o FlattenSeq(b) \in Seq(Octet) /\ Len(k \o FlattenSeq(b)) >= Len(k)
         /\ \A s \in Streams : \A r : \A m :
               /\ Starts(s, k \o FlattenSeq(b))
               /\ r = After(s, Len(k)) /\ (r # Short => m = Len(q))
               => Gets(ReadMany(r, m, read), s, k \o FlattenSeq(b), x)
<1> DEFINE S == {x[i] : i \in DOMAIN q}
<1>1. DOMAIN q = 1..Len(q) /\ Len(q) \in Nat
  BY LenProperties
<1>2. b = [i \in 1..Len(q) |-> b[i]] /\ \A i \in 1..Len(q) : b[i] \in Seq(Octet)
  BY <1>1 DEF OneEach, EachIsRead
<1>3. b \in Seq(Seq(Octet)) /\ Len(b) = Len(q)
  <2> DEFINE B == Seq(Octet)
  <2>1. b \in [1..Len(q) -> B]
    BY <1>2
  <2> HIDE DEF B
  <2>2. b \in Seq(B) /\ Len(b) = Len(q)
    BY <1>1, <2>1
  <2>3. QED BY <2>2 DEF B
<1>4. x \in Seq(S) /\ Len(x) = Len(b)
  <2>1. x \in [1..Len(q) -> S]
    BY <1>1 DEF OneEach
  <2> HIDE DEF S
  <2>2. x \in Seq(S) /\ Len(x) = Len(q)
    BY <1>1, <2>1
  <2>3. QED BY <1>3, <2>2
<1>5. \A i \in 1..Len(b) :
         /\ Len(b[i]) >= 1
         /\ \A t \in Streams : Starts(t, b[i]) => Gets(read[t], t, b[i], x[i])
  BY <1>1, <1>3 DEF EachIsRead
<1> HIDE DEF S
<1> DEFINE w == FlattenSeq(b)
<1>6. w \in Seq(Octet)
  BY <1>3, <1>4, <1>5, ManyRead
<1>7. \A t \in Streams : \A m :
         Starts(t, w) /\ (t # Short => m = Len(b)) => Gets(ReadMany(t, m, read), t, w, x)
  BY <1>3, <1>4, <1>5, ManyRead
<1> HIDE DEF w
<1>8. k \o w \in Seq(Octet) /\ Len(k \o w) >= Len(k)
  <2>1. k \o w \in Seq(Octet) /\ Len(k \o w) = Len(k) + Len(w)
    BY <1>6, ConcatProperties
  <2>2. Len(k) \in Nat /\ Len(w) \in Nat
    BY <1>6, LenProperties
  <2>3. QED BY <2>1, <2>2
<1>9. ASSUME NEW s \in Streams, NEW r, NEW m, Starts(s, k \o w),
             r = After(s, Len(k)), r # Short => m = Len(q)
      PROVE  Gets(ReadMany(r, m, read), s, k \o w, x)
  <2>1. Starts(r, w) /\ r \in Streams /\ After(r, Len(w)) = After(s, Len(k \o w))
    BY <1>6, <1>9, Then
  <2>2. Gets(ReadMany(r, m, read), r, w, x)
    BY <1>3, <1>7, <1>9, <2>1
  <2>3. QED BY <2>1, <2>2 DEF Gets
<1>10. QED BY <1>6, <1>8, <1>9 DEF w

\* The length of a list.
LEMMA LengthRead ==
  ASSUME NEW n \in Nat, n <= 65535
  PROVE  /\ Num(n) \in Seq(Octet) /\ Len(Num(n)) = 2
         /\ \A s \in Streams : Starts(s, Num(n)) => Gets(ReadNum(s), s, Num(n), n)
<1>1. n % 65536 = n
  OBVIOUS
<1>2. QED BY <1>1, NumRead

LEMMA ShortLengthRead ==
  ASSUME NEW n \in Nat, n <= 255
  PROVE  /\ Byte(n) \in Seq(Octet) /\ Len(Byte(n)) = 1
         /\ \A s \in Streams : Starts(s, Byte(n)) => Gets(ReadByte(s), s, Byte(n), n)
<1>1. n % 256 = n
  OBVIOUS
<1>2. QED BY <1>1, ByteRead

LEMMA CellRead ==
  ASSUME NEW p \in Cells
  PROVE  /\ Pos(p) \in Seq(Octet) /\ Len(Pos(p)) >= 1
         /\ \A s \in Streams : Starts(s, Pos(p)) => Gets(ReadPos(s), s, Pos(p), p)
<1>1. p.x \in Int /\ p.y \in Int /\ AsWord(p.x) = p.x /\ AsWord(p.y) = p.y
  BY WordSame DEF Cells
<1>2. p \in Points
  BY <1>1 DEF Cells, Points
<1>3. Wrapped(p) = p
  BY <1>1 DEF Wrapped, Cells, AsWord
<1>4. QED BY <1>2, <1>3, PosRead

LEMMA PositionsRead ==
  ASSUME NEW q \in Lists(Cells)
  PROVE  /\ WritePositions(q) \in Seq(Octet) /\ Len(WritePositions(q)) >= 1
         /\ \A s \in Streams : Starts(s, WritePositions(q)) =>
               Gets(ReadPositions(s), s, WritePositions(q), q)
<1> DEFINE b == [i \in DOMAIN q |-> Pos(q[i])]
           x == q
           read == [r \in Streams |-> ReadPos(r)]
           k == Num(Len(q))
           w == k \o FlattenSeq(b)
<1>1. q \in Seq(Cells) /\ Len(q) \in Nat /\ Len(q) <= 65535
  BY LenProperties DEF Lists
<1>2. ASSUME NEW i \in DOMAIN q
      PROVE  /\ b[i] \in Seq(Octet) /\ Len(b[i]) >= 1
             /\ \A t \in Streams : Starts(t, b[i]) => Gets(read[t], t, b[i], x[i])
  <2> DEFINE v == Pos(q[i])
  <2>1. q[i] \in Cells
    BY <1>1, ElementOfSeq
  <2>2. b[i] = v /\ \A t \in Streams : read[t] = ReadPos(t)
    OBVIOUS
  <2>3. x[i] = q[i]
    OBVIOUS
  <2>4. /\ v \in Seq(Octet) /\ Len(v) >= 1
        /\ \A t \in Streams : Starts(t, v) => Gets(ReadPos(t), t, v, q[i])
    BY <2>1, CellRead
  <2> HIDE DEF b, x, read, v
  <2>5. QED BY <2>2, <2>3, <2>4
<1>3. OneEach(b, q)
  BY DEF OneEach
<1>4. OneEach(x, q)
  BY <1>1 DEF OneEach
<1>5. WritePositions(q) = w
  BY DEF WritePositions
<1> HIDE DEF b, x, read
<1>6. /\ k \in Seq(Octet) /\ Len(k) \in Nat /\ Len(k) >= 1
      /\ \A s \in Streams : Starts(s, k) => Gets(ReadNum(s), s, k, Len(q))
  <2> DEFINE n == Len(q)
  <2>1. n \in Nat /\ n <= 65535
    BY <1>1
  <2> HIDE DEF n
  <2>2. /\ Num(n) \in Seq(Octet) /\ Len(Num(n)) = 2
        /\ \A s \in Streams : Starts(s, Num(n)) => Gets(ReadNum(s), s, Num(n), n)
    BY <2>1, LengthRead
  <2>3. QED BY <2>2 DEF n
<1> HIDE DEF k
<1>7. /\ FlattenSeq(b) \in Seq(Octet) /\ w \in Seq(Octet) /\ Len(w) >= Len(k)
      /\ \A s \in Streams : \A r : \A m :
            Starts(s, w) /\ r = After(s, Len(k)) /\ (r # Short => m = Len(q))
               => Gets(ReadMany(r, m, read), s, w, x)
  <2>1. EachIsRead(q, b, x, read)
    BY <1>2 DEF EachIsRead
  <2>2. q \in Seq(Cells) /\ k \in Seq(Octet)
    BY <1>1, <1>6
  <2>3. QED BY <1>3, <1>4, <2>1, <2>2, ListRead
<1>8. Len(w) >= 1
  BY <1>6, <1>7, LenProperties
<1>9. ASSUME NEW s \in Streams, Starts(s, w) PROVE Gets(ReadPositions(s), s, w, x)
  <2> DEFINE n == ReadNum(s)
  <2>1. Starts(s, k)
    BY <1>6, <1>7, <1>9, Pieces
  <2>2. n.rest = After(s, Len(k)) /\ (n.rest # Short => n.v = Len(q))
    BY <1>6, <2>1 DEF Gets
  <2> HIDE DEF w
  <2>3. Gets(ReadMany(n.rest, n.v, read), s, w, x)
    BY <1>7, <1>9, <2>2
  <2>4. ReadPositions(s) = ReadMany(n.rest, n.v, read)
    BY DEF ReadPositions, read
  <2>5. QED BY <2>3, <2>4
<1>10. QED BY <1>5, <1>7, <1>8, <1>9 DEF x

LEMMA DroppedGunShort == ReadDroppedGun(Short).rest = Short
<1> DEFINE i == [type |-> "gun", position |-> Origin, gun |-> "none", ammo |-> 0]
           w == WriteDroppedGun(i)
<1>1. i \in [type : {"gun"}, position : Points, gun : DOMAIN GunCode, ammo : Word]
  BY WordIs DEF Points, Origin, GunCode
<1> HIDE DEF i
<1>2. Short \in Streams /\ Starts(Short, w)
  BY ShortIsShort DEF Streams, Starts
<1>3. Gets(ReadDroppedGun(Short), Short, w, ArrivingItem(i))
  BY <1>1, <1>2, DroppedGunRead
<1>4. QED BY <1>3 DEF Gets, After

LEMMA ReadItemIs ==
  ASSUME NEW s \in Streams, NEW b, b = ReadByte(s)
  PROVE  /\ b.v = 98 => ReadItem(s) = ReadDroppedBomb(b.rest)
         /\ b.v = 97 => ReadItem(s) = ReadDroppedGun(b.rest)
         /\ b.rest = Short => ReadItem(s).rest = Short
<1>1. b.rest = Short => b.v = 0
  BY ByteShort
<1>2. b.v # 98 => ReadItem(s) = ReadDroppedGun(b.rest)
  BY DEF ReadItem
<1>3. b.v = 98 => ReadItem(s) = ReadDroppedBomb(b.rest)
  BY DEF ReadItem
<1>4. QED BY <1>1, <1>2, <1>3, DroppedGunShort

LEMMA ItemRead ==
  ASSUME NEW i \in Items
  PROVE  /\ WriteItem(i) \in Seq(Octet) /\ Len(WriteItem(i)) >= 1
         /\ \A s \in Streams : Starts(s, WriteItem(i)) =>
               Gets(ReadItem(s), s, WriteItem(i), ArrivingItem(i))
<1> DEFINE x == ArrivingItem(i)
           Done(w) ==
             /\ w \in Seq(Octet) /\ Len(w) >= 1
             /\ \A s \in Streams : Starts(s, w) => Gets(ReadItem(s), s, w, x)
<1>1. CASE i \in [type : {"gun"}, position : Points, gun : DOMAIN GunCode, ammo : Word]
  <2> DEFINE w == WriteDroppedGun(i)
  <2>1. i.type = "gun" /\ WriteItem(i) = << 97 >> \o w /\ 97 \in Octet
    BY <1>1, OctetIs DEF WriteItem
  <2>2. /\ w \in Seq(Octet) /\ Len(w) >= 1
        /\ \A s \in Streams : Starts(s, w) => Gets(ReadDroppedGun(s), s, w, x)
    BY <1>1, DroppedGunRead
  <2> HIDE DEF w, x
  <2>3. ASSUME NEW s \in Streams, Starts(s, << 97 >> \o w)
        PROVE  Gets(ReadItem(s), s, << 97 >> \o w, x)
    <3> DEFINE b == ReadByte(s)
               d == ReadItem(s)
               e == ReadDroppedGun(b.rest)
    <3>1. (b.v = 97 => d = e) /\ (b.rest = Short => d.rest = Short)
      BY ReadItemIs
    <3>2. b.rest \in Streams /\ Starts(b.rest, w) => Gets(e, b.rest, w, x)
      BY <2>2
    <3> HIDE DEF d, e
    <3>3. Gets(d, s, << 97 >> \o w, x)
      <4> DEFINE k == 97
      <4>1. /\ w \in Seq(Octet) /\ k \in Octet /\ Starts(s, <<k>> \o w)
            /\ (b.v = k => d = e)
        BY <2>1, <2>2, <2>3, <3>1
      <4> HIDE DEF k
      <4>2. Gets(d, s, <<k>> \o w, x)
        BY <3>1, <3>2, <4>1, Dispatched
      <4>3. QED BY <4>2 DEF k
    <3>4. QED BY <3>3 DEF d
  <2>4. << 97 >> \o w \in Seq(Octet) /\ Len(<< 97 >> \o w) >= 1
    <3> DEFINE u == << 97 >>
    <3>1. u \in Seq(Octet) /\ Len(u) = 1
      BY <2>1
    <3> HIDE DEF u
    <3>2. u \o w \in Seq(Octet) /\ Len(u \o w) = 1 + Len(w) /\ Len(w) \in Nat
      BY <2>2, <3>1, ConcatProperties, LenProperties
    <3>3. QED BY <3>2 DEF u
  <2>5. Done(<< 97 >> \o w)
    BY <2>3, <2>4
  <2>6. QED BY <2>1, <2>5 DEF x
<1>2. CASE i \in [type : {"bomb"}, position : Points]
  <2> DEFINE w == Pos(i.position)
  <2>1. i.type = "bomb" /\ WriteItem(i) = << 98 >> \o w /\ 98 \in Octet
    BY <1>2, OctetIs DEF WriteItem
  <2>2. /\ w \in Seq(Octet) /\ Len(w) >= 1
        /\ \A s \in Streams : Starts(s, w) => Gets(ReadDroppedBomb(s), s, w, x)
    BY <1>2, DroppedBombRead
  <2> HIDE DEF w, x
  <2>3. ASSUME NEW s \in Streams, Starts(s, << 98 >> \o w)
        PROVE  Gets(ReadItem(s), s, << 98 >> \o w, x)
    <3> DEFINE b == ReadByte(s)
               d == ReadItem(s)
               e == ReadDroppedBomb(b.rest)
    <3>1. (b.v = 98 => d = e) /\ (b.rest = Short => d.rest = Short)
      BY ReadItemIs
    <3>2. b.rest \in Streams /\ Starts(b.rest, w) => Gets(e, b.rest, w, x)
      BY <2>2
    <3> HIDE DEF d, e
    <3>3. Gets(d, s, << 98 >> \o w, x)
      <4> DEFINE k == 98
      <4>1. /\ w \in Seq(Octet) /\ k \in Octet /\ Starts(s, <<k>> \o w)
            /\ (b.v = k => d = e)
        BY <2>1, <2>2, <2>3, <3>1
      <4> HIDE DEF k
      <4>2. Gets(d, s, <<k>> \o w, x)
        BY <3>1, <3>2, <4>1, Dispatched
      <4>3. QED BY <4>2 DEF k
    <3>4. QED BY <3>3 DEF d
  <2>4. << 98 >> \o w \in Seq(Octet) /\ Len(<< 98 >> \o w) >= 1
    <3> DEFINE u == << 98 >>
    <3>1. u \in Seq(Octet) /\ Len(u) = 1
      BY <2>1
    <3> HIDE DEF u
    <3>2. u \o w \in Seq(Octet) /\ Len(u \o w) = 1 + Len(w) /\ Len(w) \in Nat
      BY <2>2, <3>1, ConcatProperties, LenProperties
    <3>3. QED BY <3>2 DEF u
  <2>5. Done(<< 98 >> \o w)
    BY <2>3, <2>4
  <2>6. QED BY <2>1, <2>5 DEF x
<1>3. QED BY <1>1, <1>2 DEF Items

LEMMA ItemsRead ==
  ASSUME NEW q \in Lists(Items)
  PROVE  /\ WriteItems(q) \in Seq(Octet) /\ Len(WriteItems(q)) >= 1
         /\ \A s \in Streams : Starts(s, WriteItems(q)) =>
               Gets(ReadItems(s), s, WriteItems(q), ArrivingItems(q))
<1> DEFINE b == [i \in DOMAIN q |-> WriteItem(q[i])]
           x == ArrivingItems(q)
           read == [r \in Streams |-> ReadItem(r)]
           k == Num(Len(q))
           w == k \o FlattenSeq(b)
<1>1. q \in Seq(Items) /\ Len(q) \in Nat /\ Len(q) <= 65535
  BY LenProperties DEF Lists
<1>2. ASSUME NEW i \in DOMAIN q
      PROVE  /\ b[i] \in Seq(Octet) /\ Len(b[i]) >= 1
             /\ \A t \in Streams : Starts(t, b[i]) => Gets(read[t], t, b[i], x[i])
  <2> DEFINE v == WriteItem(q[i])
  <2>1. q[i] \in Items
    BY <1>1, ElementOfSeq
  <2>2. b[i] = v /\ \A t \in Streams : read[t] = ReadItem(t)
    OBVIOUS
  <2>3. x[i] = ArrivingItem(q[i])
    BY DEF ArrivingItems
  <2>4. /\ v \in Seq(Octet) /\ Len(v) >= 1
        /\ \A t \in Streams : Starts(t, v) => Gets(ReadItem(t), t, v, ArrivingItem(q[i]))
    BY <2>1, ItemRead
  <2> HIDE DEF b, x, read, v
  <2>5. QED BY <2>2, <2>3, <2>4
<1>3. OneEach(b, q)
  BY DEF OneEach
<1>4. OneEach(x, q)
  BY DEF ArrivingItems, OneEach
<1>5. WriteItems(q) = w
  BY DEF WriteItems
<1> HIDE DEF b, x, read
<1>6. /\ k \in Seq(Octet) /\ Len(k) \in Nat /\ Len(k) >= 1
      /\ \A s \in Streams : Starts(s, k) => Gets(ReadNum(s), s, k, Len(q))
  <2> DEFINE n == Len(q)
  <2>1. n \in Nat /\ n <= 65535
    BY <1>1
  <2> HIDE DEF n
  <2>2. /\ Num(n) \in Seq(Octet) /\ Len(Num(n)) = 2
        /\ \A s \in Streams : Starts(s, Num(n)) => Gets(ReadNum(s), s, Num(n), n)
    BY <2>1, LengthRead
  <2>3. QED BY <2>2 DEF n
<1> HIDE DEF k
<1>7. /\ FlattenSeq(b) \in Seq(Octet) /\ w \in Seq(Octet) /\ Len(w) >= Len(k)
      /\ \A s \in Streams : \A r : \A m :
            Starts(s, w) /\ r = After(s, Len(k)) /\ (r # Short => m = Len(q))
               => Gets(ReadMany(r, m, read), s, w, x)
  <2>1. EachIsRead(q, b, x, read)
    BY <1>2 DEF EachIsRead
  <2>2. q \in Seq(Items) /\ k \in Seq(Octet)
    BY <1>1, <1>6
  <2>3. QED BY <1>3, <1>4, <2>1, <2>2, ListRead
<1>8. Len(w) >= 1
  BY <1>6, <1>7, LenProperties
<1>9. ASSUME NEW s \in Streams, Starts(s, w) PROVE Gets(ReadItems(s), s, w, x)
  <2> DEFINE n == ReadNum(s)
  <2>1. Starts(s, k)
    BY <1>6, <1>7, <1>9, Pieces
  <2>2. n.rest = After(s, Len(k)) /\ (n.rest # Short => n.v = Len(q))
    BY <1>6, <2>1 DEF Gets
  <2> HIDE DEF w
  <2>3. Gets(ReadMany(n.rest, n.v, read), s, w, x)
    BY <1>7, <1>9, <2>2
  <2>4. ReadItems(s) = ReadMany(n.rest, n.v, read)
    BY DEF ReadItems, read
  <2>5. QED BY <2>3, <2>4
<1>10. QED BY <1>5, <1>7, <1>8, <1>9 DEF x

LEMMA GetPositionsGot ==
  ASSUME NEW s \in Streams, NEW p, NEW D, NEW name, NEW sofar, NEW u, Got(sofar, s, u, p, D),
         NEW q \in Lists(Cells), p[name] = q
  PROVE  Got(GetPositions(sofar, name), s, u \o WritePositions(q), p, D \cup {name})
<1> DEFINE w == WritePositions(q)
           e == ReadPositions(sofar.rest)
<1>1. /\ w \in Seq(Octet) /\ Len(w) >= 1
      /\ \A t \in Streams : Starts(t, w) => Gets(ReadPositions(t), t, w, q)
  BY PositionsRead
<1> HIDE DEF w
<1>2. sofar.rest \in Streams /\ Starts(sofar.rest, w) => Gets(e, sofar.rest, w, p[name])
  BY <1>1
<1>3. GetPositions(sofar, name) = Field(sofar, name, e)
  BY DEF GetPositions
<1> HIDE DEF e
<1>4. Got(Field(sofar, name, e), s, u \o w, p, D \cup {name})
  BY <1>1, <1>2, OneMore
<1>5. QED BY <1>3, <1>4 DEF w

LEMMA GetItemsGot ==
  ASSUME NEW s \in Streams, NEW p, NEW D, NEW name, NEW sofar, NEW u, Got(sofar, s, u, p, D),
         NEW q \in Lists(Items), p[name] = ArrivingItems(q)
  PROVE  Got(GetItems(sofar, name), s, u \o WriteItems(q), p, D \cup {name})
<1> DEFINE w == WriteItems(q)
           e == ReadItems(sofar.rest)
<1>1. /\ w \in Seq(Octet) /\ Len(w) >= 1
      /\ \A t \in Streams : Starts(t, w) => Gets(ReadItems(t), t, w, ArrivingItems(q))
  BY ItemsRead
<1> HIDE DEF w
<1>2. sofar.rest \in Streams /\ Starts(sofar.rest, w) => Gets(e, sofar.rest, w, p[name])
  BY <1>1
<1>3. GetItems(sofar, name) = Field(sofar, name, e)
  BY DEF GetItems
<1> HIDE DEF e
<1>4. Got(Field(sofar, name, e), s, u \o w, p, D \cup {name})
  BY <1>1, <1>2, OneMore
<1>5. QED BY <1>3, <1>4 DEF w

LEMMA ObjectRead ==
  ASSUME NEW o \in Objects
  PROVE  /\ WriteObject(o) \in Seq(Octet) /\ Len(WriteObject(o)) >= 1
         /\ \A s \in Streams : Starts(s, WriteObject(o)) =>
               Gets(ReadObject(s), s, WriteObject(o), o)
<1> DEFINE x == o
           D == {"block", "collidable", "positions"}
           w1 == Num(o.block)
           u1 == w1
           u2 == u1 \o Bool(o.collidable)
           u3 == u2 \o WritePositions(o.positions)
<1>1. /\ o.block \in Int /\ x["block"] = AsWord(o.block)
      /\ o.collidable \in BOOLEAN /\ x["collidable"] = o.collidable
      /\ o.positions \in Lists(Cells) /\ x["positions"] = o.positions
  BY WordSame DEF Objects
<1>2. x = [f \in D |-> x[f]]
  BY DEF Objects
<1> HIDE DEF x
<1>3. w1 \in Seq(Octet)
  BY <1>1, NumRead
<1>4. WriteObject(o) = u3
  BY DEF WriteObject
<1>5. ASSUME NEW s \in Streams PROVE Got(ReadObject(s), s, u3, x, D)
  <2> DEFINE e1 == GetNum(Begin(s), "block")
             e2 == GetBool(e1, "collidable")
             e3 == GetPositions(e2, "positions")
             D1 == {} \cup {"block"}
             D2 == D1 \cup {"collidable"}
             D3 == D2 \cup {"positions"}
  <2>1. Got(e1, s, u1, x, D1)
    <3>1. Got(Begin(s), s, <<>>, x, {})
      BY NothingGot
    <3>2. Got(e1, s, <<>> \o w1, x, D1)
      BY <1>1, <3>1, GetNumGot
    <3> HIDE DEF e1, w1, D1
    <3>3. <<>> \o w1 = w1
      BY <1>3, ConcatEmptySeq
    <3>4. QED BY <3>2, <3>3
  <2> HIDE DEF e1, u1, D1
  <2>2. Got(e2, s, u2, x, D2)
    BY <1>1, <2>1, GetBoolGot
  <2> HIDE DEF e2, u2, D2
  <2>3. Got(e3, s, u3, x, D3)
    BY <1>1, <2>2, GetPositionsGot
  <2> HIDE DEF e3, u3, D3
  <2>4. D3 = D
    BY DEF D1, D2, D3
  <2>5. ReadObject(s) = e3
    BY DEF ReadObject, e1, e2, e3
  <2>6. QED BY <2>3, <2>4, <2>5
<1> DEFINE w == u3
<1>6. \A s \in Streams : Got(ReadObject(s), s, w, x, D)
  BY <1>5
<1> HIDE DEF w
<1>7. w \in Seq(Octet) /\ Len(w) >= 1
  <2>1. Short \in Streams /\ "block" \in D \ {"type"}
    BY DEF Streams
  <2> HIDE DEF D
  <2>2. Got(ReadObject(Short), Short, w, x, D) /\ D \ {"type"} # {}
    BY <1>6, <2>1
  <2>3. QED BY <2>2 DEF Got
<1>8. \A s \in Streams : Starts(s, w) => Gets(ReadObject(s), s, w, x)
  BY <1>2, <1>6, WholeGot
<1>9. QED BY <1>4, <1>7, <1>8 DEF w, x

LEMMA ObjectsRead ==
  ASSUME NEW q \in ShortLists(Objects)
  PROVE  /\ WriteObjects(q) \in Seq(Octet) /\ Len(WriteObjects(q)) >= 1
         /\ \A s \in Streams : Starts(s, WriteObjects(q)) =>
               Gets(ReadObjects(s), s, WriteObjects(q), q)
<1> DEFINE b == [i \in DOMAIN q |-> WriteObject(q[i])]
           x == q
           read == [r \in Streams |-> ReadObject(r)]
           k == Num(Len(q))
           w == k \o FlattenSeq(b)
<1>1. q \in Seq(Objects) /\ Len(q) \in Nat /\ Len(q) <= 255
  BY LenProperties DEF ShortLists
<1>2. ASSUME NEW i \in DOMAIN q
      PROVE  /\ b[i] \in Seq(Octet) /\ Len(b[i]) >= 1
             /\ \A t \in Streams : Starts(t, b[i]) => Gets(read[t], t, b[i], x[i])
  <2> DEFINE v == WriteObject(q[i])
  <2>1. q[i] \in Objects
    BY <1>1, ElementOfSeq
  <2>2. b[i] = v /\ \A t \in Streams : read[t] = ReadObject(t)
    OBVIOUS
  <2>3. x[i] = q[i]
    OBVIOUS
  <2>4. /\ v \in Seq(Octet) /\ Len(v) >= 1
        /\ \A t \in Streams : Starts(t, v) => Gets(ReadObject(t), t, v, q[i])
    BY <2>1, ObjectRead
  <2> HIDE DEF b, x, read, v
  <2>5. QED BY <2>2, <2>3, <2>4
<1>3. OneEach(b, q)
  BY DEF OneEach
<1>4. OneEach(x, q)
  BY <1>1 DEF OneEach
<1>5. WriteObjects(q) = w
  BY DEF WriteObjects
<1> HIDE DEF b, x, read
<1>6. /\ k \in Seq(Octet) /\ Len(k) \in Nat /\ Len(k) >= 1
      /\ \A s \in Streams : Starts(s, k) => Gets(ReadNum(s), s, k, Len(q))
  <2> DEFINE n == Len(q)
  <2>1. n \in Nat /\ n <= 255
    BY <1>1
  <2> HIDE DEF n
  <2>2. /\ Num(n) \in Seq(Octet) /\ Len(Num(n)) = 2
        /\ \A s \in Streams : Starts(s, Num(n)) => Gets(ReadNum(s), s, Num(n), n)
    BY <2>1, LengthRead
  <2>3. QED BY <2>2 DEF n
<1> HIDE DEF k
<1>7. /\ FlattenSeq(b) \in Seq(Octet) /\ w \in Seq(Octet) /\ Len(w) >= Len(k)
      /\ \A s \in Streams : \A r : \A m :
            Starts(s, w) /\ r = After(s, Len(k)) /\ (r # Short => m = Len(q))
               => Gets(ReadMany(r, m, read), s, w, x)
  <2>1. EachIsRead(q, b, x, read)
    BY <1>2 DEF EachIsRead
  <2>2. q \in Seq(Objects) /\ k \in Seq(Octet)
    BY <1>1, <1>6
  <2>3. QED BY <1>3, <1>4, <2>1, <2>2, ListRead
<1>8. Len(w) >= 1
  BY <1>6, <1>7, LenProperties
<1>9. ASSUME NEW s \in Streams, Starts(s, w) PROVE Gets(ReadObjects(s), s, w, x)
  <2> DEFINE n == ReadNum(s)
  <2>1. Starts(s, k)
    BY <1>6, <1>7, <1>9, Pieces
  <2>2. n.rest = After(s, Len(k)) /\ (n.rest # Short => n.v % 256 = Len(q))
    <3> DEFINE m == Len(q)
    <3>1. n.rest = After(s, Len(k)) /\ (n.rest # Short => n.v = m)
      BY <1>6, <2>1 DEF Gets
    <3>2. m \in Nat /\ m <= 255
      BY <1>1
    <3> HIDE DEF m, n
    <3>3. m % 256 = m
      BY <3>2
    <3>4. n.rest # Short => n.v % 256 = m
      BY <3>1, <3>3
    <3>5. QED BY <3>1, <3>4 DEF m
  <2> HIDE DEF w
  <2>3. Gets(ReadMany(n.rest, n.v % 256, read), s, w, x)
    BY <1>7, <1>9, <2>2
  <2>4. ReadObjects(s) = ReadMany(n.rest, n.v % 256, read)
    BY DEF ReadObjects, read
  <2>5. QED BY <2>3, <2>4
<1>10. QED BY <1>5, <1>7, <1>8, <1>9 DEF x

LEMMA GetObjectsGot ==
  ASSUME NEW s \in Streams, NEW p, NEW D, NEW name, NEW sofar, NEW u, Got(sofar, s, u, p, D),
         NEW q \in ShortLists(Objects), p[name] = q
  PROVE  Got(GetObjects(sofar, name), s, u \o WriteObjects(q), p, D \cup {name})
<1> DEFINE w == WriteObjects(q)
           e == ReadObjects(sofar.rest)
<1>1. /\ w \in Seq(Octet) /\ Len(w) >= 1
      /\ \A t \in Streams : Starts(t, w) => Gets(ReadObjects(t), t, w, q)
  BY ObjectsRead
<1> HIDE DEF w
<1>2. sofar.rest \in Streams /\ Starts(sofar.rest, w) => Gets(e, sofar.rest, w, p[name])
  BY <1>1
<1>3. GetObjects(sofar, name) = Field(sofar, name, e)
  BY DEF GetObjects
<1> HIDE DEF e
<1>4. Got(Field(sofar, name, e), s, u \o w, p, D \cup {name})
  BY <1>1, <1>2, OneMore
<1>5. QED BY <1>3, <1>4 DEF w

-----------------------------------------------------------------------------
(***************************************************************************)
(* Tables, which arrive whatever order the guns are written in.            *)
(***************************************************************************)
Sold == DOMAIN GunCode \ {"none"}

LEMMA SoldIs ==
  LET q == SetToSeq(Sold)
  IN  /\ q \in Seq(Sold) /\ Len(q) \in Nat /\ Len(q) <= 255 /\ DOMAIN q = 1..Len(q)
      /\ \A i, j \in DOMAIN q : q[i] = q[j] => i = j
      /\ \A gun \in Sold : \E i \in DOMAIN q : q[i] = gun
<1> DEFINE f == <<"glock", "ak47", "m3", "awp">>
           q == SetToSeq(Sold)
<1>1. Sold = {"glock", "ak47", "m3", "awp"}
  BY DEF Sold, GunCode
<1>2. f \in [1..4 -> Sold] /\ IsInjective(f) /\ \A gun \in Sold : \E i \in 1..4 : f[i] = gun
  <2>1. f \in [1..4 -> Sold]
    BY <1>1
  <2>2. f[1] = "glock" /\ f[2] = "ak47" /\ f[3] = "m3" /\ f[4] = "awp" /\ DOMAIN f = 1..4
    OBVIOUS
  <2> HIDE DEF f
  <2>3. \A i \in 1..4 : i = 1 \/ i = 2 \/ i = 3 \/ i = 4
    OBVIOUS
  <2>4. IsInjective(f)
    BY <2>2, <2>3 DEF IsInjective
  <2>5. \A gun \in Sold : \E i \in 1..4 : f[i] = gun
    BY <1>1, <2>2
  <2>6. QED BY <2>1, <2>4, <2>5
<1> HIDE DEF f
<1>3. Cardinality(Sold) = 4
  <2>1. f \in Bijection(1..4, Sold)
    BY <1>2 DEF Bijection, Injection, Surjection
  <2>2. ExistsBijection(1..4, Sold)
    BY <2>1 DEF ExistsBijection
  <2>3. QED BY <2>2, FS_CountingElements
<1>4. q \in [1..4 -> Sold] /\ IsInjective(q)
  <2> DEFINE F == [1..4 -> Sold]
  <2>1. f \in F /\ IsInjective(f)
    BY <1>2
  <2>2. q = CHOOSE h \in F : IsInjective(h)
    BY <1>3 DEF SetToSeq
  <2> HIDE DEF F, q
  <2>3. q \in F /\ IsInjective(q)
    BY <2>1, <2>2
  <2>4. QED BY <2>3 DEF F
<1> HIDE DEF q
<1>5. q \in Seq(Sold) /\ Len(q) = 4 /\ DOMAIN q = 1..4
  <2> DEFINE n == 4
  <2>1. q \in [1..n -> Sold] /\ n \in Nat
    BY <1>4
  <2> HIDE DEF n
  <2>2. q \in Seq(Sold) /\ Len(q) = n /\ DOMAIN q = 1..n
    BY <2>1
  <2>3. QED BY <2>2 DEF n
<1>6. \A i, j \in 1..4 : q[i] = q[j] => i = j
  BY <1>4 DEF IsInjective
<1>7. ASSUME NEW gun \in Sold PROVE \E i \in 1..4 : q[i] = gun
  <2>1. q[1] \in Sold /\ q[2] \in Sold /\ q[3] \in Sold /\ q[4] \in Sold
    BY <1>4
  <2>2. /\ q[1] # q[2] /\ q[1] # q[3] /\ q[1] # q[4]
        /\ q[2] # q[3] /\ q[2] # q[4] /\ q[3] # q[4]
    BY <1>6
  <2>3. q[1] = gun \/ q[2] = gun \/ q[3] = gun \/ q[4] = gun
    BY <1>1, <2>1, <2>2
  <2>4. QED BY <2>3
<1>8. QED BY <1>5, <1>6, <1>7 DEF q

LEMMA EntryRead ==
  ASSUME NEW gun \in DOMAIN GunCode, NEW n \in Word
  PROVE  LET w == WriteEntry(<<gun, n>>)
         IN  /\ w \in Seq(Octet) /\ Len(w) >= 1
             /\ \A s \in Streams : Starts(s, w) => Gets(ReadEntry(s), s, w, <<gun, n>>)
<1> DEFINE u == Code(GunCode, gun)
           w == Num(n)
<1>1. u \in Seq(Octet) /\ Len(u) = 1
  BY GunRead
<1>2. /\ w \in Seq(Octet) /\ Len(w) = 2
      /\ \A t \in Streams : Starts(t, w) => Gets(ReadNum(t), t, w, n)
  <2>1. n \in Int /\ n % 65536 = n
    BY WordSame DEF AsWord
  <2>2. QED BY <2>1, NumRead
<1>3. WriteEntry(<<gun, n>>) = u \o w
  BY DEF WriteEntry
<1> HIDE DEF w
<1>4. u \o w \in Seq(Octet) /\ Len(u \o w) >= 1
  <2> HIDE DEF u
  <2>1. QED BY <1>1, <1>2, ConcatProperties
<1>5. ASSUME NEW s \in Streams, Starts(s, u \o w)
      PROVE  Gets(ReadEntry(s), s, u \o w, <<gun, n>>)
  <2> DEFINE b == ReadGun(s)
             t == b.rest
             e == ReadNum(t)
             d == ReadEntry(s)
  <2>1. Starts(s, u)
    <3> HIDE DEF u
    <3>1. QED BY <1>1, <1>2, <1>5, Pieces
  <2>2. Gets(b, s, u, gun)
    BY <2>1, GunRead
  <2> HIDE DEF b, u
  <2>3. t = After(s, Len(u)) /\ (t # Short => b.v = gun)
    BY <2>2 DEF Gets
  <2>4. Starts(t, w) /\ t \in Streams /\ After(t, Len(w)) = After(s, Len(u \o w))
    <3> HIDE DEF t
    <3>1. QED BY <1>1, <1>2, <1>5, <2>3, Then
  <2>5. e.rest = After(t, Len(w)) /\ (e.rest # Short => e.v = n)
    BY <1>2, <2>4 DEF Gets
  <2>6. d.rest = e.rest /\ d.v = <<b.v, e.v>>
    BY DEF ReadEntry, Read, b
  <2> HIDE DEF e, t, d
  <2>7. t = Short => e.rest = Short
    BY <2>5 DEF After
  <2>8. e.rest # Short => d.v = <<gun, n>>
    BY <2>3, <2>5, <2>6, <2>7
  <2>9. Gets(d, s, u \o w, <<gun, n>>)
    BY <2>4, <2>5, <2>6, <2>8 DEF Gets
  <2>10. QED BY <2>9 DEF d
<1>6. QED BY <1>3, <1>4, <1>5

LEMMA TableRead ==
  ASSUME NEW table \in Tables
  PROVE  /\ WriteTable(table) \in Seq(Octet) /\ Len(WriteTable(table)) >= 1
         /\ \A s \in Streams : Starts(s, WriteTable(table)) =>
               Gets(ReadTable(s), s, WriteTable(table), table)
<1> DEFINE q == SetToSeq(Sold)
           b == [i \in DOMAIN q |-> WriteEntry(<<q[i], table[q[i]]>>)]
           x == [i \in DOMAIN q |-> <<q[i], table[q[i]]>>]
           read == [r \in Streams |-> ReadEntry(r)]
           k == Byte(Len(q))
           w == k \o FlattenSeq(b)
<1>1. /\ q \in Seq(Sold) /\ Len(q) \in Nat /\ Len(q) <= 255 /\ DOMAIN q = 1..Len(q)
      /\ \A i, j \in DOMAIN q : q[i] = q[j] => i = j
      /\ \A gun \in Sold : \E i \in DOMAIN q : q[i] = gun
  BY SoldIs
<1>2. table \in [Sold -> Word] /\ DOMAIN table = Sold
  BY DEF Tables, Sold
<1>3. WriteTable(table) = w
  BY <1>2 DEF WriteTable
<1> HIDE DEF q
<1>4. ASSUME NEW i \in DOMAIN q
      PROVE  /\ b[i] \in Seq(Octet) /\ Len(b[i]) >= 1
             /\ \A t \in Streams : Starts(t, b[i]) => Gets(read[t], t, b[i], x[i])
  <2> DEFINE gun == q[i]
             n == table[gun]
             v == WriteEntry(<<gun, n>>)
  <2>1. gun \in Sold /\ gun \in DOMAIN GunCode
    BY <1>1, ElementOfSeq DEF Sold
  <2>2. n \in Word
    BY <1>2, <2>1
  <2>3. b[i] = v /\ x[i] = <<gun, n>> /\ \A t \in Streams : read[t] = ReadEntry(t)
    OBVIOUS
  <2> HIDE DEF gun, n
  <2>4. /\ v \in Seq(Octet) /\ Len(v) >= 1
        /\ \A t \in Streams : Starts(t, v) => Gets(ReadEntry(t), t, v, <<gun, n>>)
    BY <2>1, <2>2, EntryRead
  <2> HIDE DEF b, x, read, v
  <2>5. QED BY <2>3, <2>4
<1>5. OneEach(b, q) /\ OneEach(x, q)
  BY DEF OneEach
<1>6. EachIsRead(q, b, x, read)
  <2> HIDE DEF b, x, read
  <2>1. QED BY <1>4 DEF EachIsRead
<1>7. ToSet(x) = {<<gun, table[gun]>> : gun \in Sold}
  <2>1. \A i \in DOMAIN q : q[i] \in Sold
    BY <1>1, ElementOfSeq
  <2>2. ToSet(x) = {<<q[i], table[q[i]]>> : i \in DOMAIN q}
    BY DEF ToSet
  <2>3. QED BY <1>1, <2>1, <2>2
<1> HIDE DEF b, x, read
<1>8. /\ k \in Seq(Octet) /\ Len(k) \in Nat /\ Len(k) >= 1
      /\ \A s \in Streams : Starts(s, k) => Gets(ReadByte(s), s, k, Len(q))
  <2> DEFINE n == Len(q)
  <2>1. n \in Nat /\ n <= 255
    BY <1>1
  <2> HIDE DEF n
  <2>2. /\ Byte(n) \in Seq(Octet) /\ Len(Byte(n)) = 1
        /\ \A s \in Streams : Starts(s, Byte(n)) => Gets(ReadByte(s), s, Byte(n), n)
    BY <2>1, ShortLengthRead
  <2>3. QED BY <2>2 DEF n
<1> HIDE DEF k
<1>9. /\ FlattenSeq(b) \in Seq(Octet) /\ w \in Seq(Octet) /\ Len(w) >= Len(k)
      /\ \A s \in Streams : \A r : \A m :
            Starts(s, w) /\ r = After(s, Len(k)) /\ (r # Short => m = Len(q))
               => Gets(ReadMany(r, m, read), s, w, x)
  <2>1. q \in Seq(Sold) /\ k \in Seq(Octet)
    BY <1>1, <1>8
  <2>2. QED BY <1>5, <1>6, <2>1, ListRead
<1>10. Len(w) >= 1
  BY <1>8, <1>9, LenProperties
<1>11. ASSUME NEW s \in Streams, Starts(s, w) PROVE Gets(ReadTable(s), s, w, table)
  <2> DEFINE n == ReadByte(s)
             entries == ReadMany(n.rest, n.v, read)
             pairs == ToSet(entries.v)
             d == ReadTable(s)
             y == [g \in {e[1] : e \in pairs} |-> (CHOOSE e \in pairs : e[1] = g)[2]]
  <2>1. Starts(s, k)
    BY <1>8, <1>9, <1>11, Pieces
  <2>2. n.rest = After(s, Len(k)) /\ (n.rest # Short => n.v = Len(q))
    BY <1>8, <2>1 DEF Gets
  <2>3. d.rest = entries.rest /\ d.v = y
    BY DEF ReadTable, Read, read
  <2>4. Gets(entries, s, w, x)
    <3> HIDE DEF w
    <3>1. QED BY <1>9, <1>11, <2>2
  <2> HIDE DEF n, entries, d, w
  <2>5. ASSUME entries.rest # Short PROVE y = table
    <3>1. pairs = {<<gun, table[gun]>> : gun \in Sold}
      BY <1>7, <2>4, <2>5 DEF Gets
    <3> HIDE DEF pairs
    <3>2. {e[1] : e \in pairs} = Sold
      <4>1. ASSUME NEW e \in pairs PROVE e[1] \in Sold
        BY <3>1
      <4>2. ASSUME NEW gun \in Sold PROVE \E e \in pairs : gun = e[1]
        <5> DEFINE e == <<gun, table[gun]>>
        <5>1. e \in pairs /\ gun = e[1]
          BY <3>1
        <5> HIDE DEF e
        <5>2. QED BY <5>1
      <4>3. QED BY <4>1, <4>2
    <3>3. ASSUME NEW g \in Sold PROVE (CHOOSE e \in pairs : e[1] = g)[2] = table[g]
      <4> DEFINE e == CHOOSE e \in pairs : e[1] = g
      <4>1. <<g, table[g]>> \in pairs
        BY <3>1
      <4>2. e \in pairs /\ e[1] = g
        BY <4>1
      <4> HIDE DEF e
      <4>3. e[2] = table[g]
        BY <3>1, <4>2
      <4>4. QED BY <4>3 DEF e
    <3>4. y = [g \in Sold |-> table[g]]
      BY <3>2, <3>3
    <3> HIDE DEF y
    <3>5. QED BY <1>2, <3>4
  <2> HIDE DEF y
  <2>6. QED BY <2>3, <2>4, <2>5 DEF Gets, d
<1>12. QED BY <1>3, <1>9, <1>10, <1>11

LEMMA GetTableGot ==
  ASSUME NEW s \in Streams, NEW p, NEW D, NEW name, NEW sofar, NEW u, Got(sofar, s, u, p, D),
         NEW t \in Tables, p[name] = t
  PROVE  Got(GetTable(sofar, name), s, u \o WriteTable(t), p, D \cup {name})
<1> DEFINE w == WriteTable(t)
           e == ReadTable(sofar.rest)
<1>1. /\ w \in Seq(Octet) /\ Len(w) >= 1
      /\ \A r \in Streams : Starts(r, w) => Gets(ReadTable(r), r, w, t)
  BY TableRead
<1> HIDE DEF w
<1>2. sofar.rest \in Streams /\ Starts(sofar.rest, w) => Gets(e, sofar.rest, w, p[name])
  BY <1>1
<1>3. GetTable(sofar, name) = Field(sofar, name, e)
  BY DEF GetTable
<1> HIDE DEF e
<1>4. Got(Field(sofar, name, e), s, u \o w, p, D \cup {name})
  BY <1>1, <1>2, OneMore
<1>5. QED BY <1>3, <1>4 DEF w

-----------------------------------------------------------------------------
(***************************************************************************)
(* Players, snapshots and the data of a game.                              *)
(***************************************************************************)
LEMMA ByteSame ==
  ASSUME NEW n \in Octet
  PROVE  n \in Int /\ AsByte(n) = n
<1>1. n \in Int /\ 0 <= n /\ n <= 255
  BY OctetIs
<1>2. QED BY <1>1 DEF AsByte

LEMMA AngleCodeIs ==
  ASSUME NEW a \in Int
  PROVE  AngleCode(a) \in Int /\ AsWord(AngleCode(a)) = AngleCode(a)
<1> DEFINE b == a * 65535
           m == Truncated(b, 360)
<1>1. b \in Int
  OBVIOUS
<1>2. AngleCode(a) = m % 65536
  BY DEF AngleCode
<1> HIDE DEF b
<1>3. m \in Int
  BY <1>1 DEF Truncated
<1> HIDE DEF m
<1>4. m % 65536 \in Int /\ (m % 65536) % 65536 = m % 65536
  BY <1>3
<1>5. QED BY <1>2, <1>4 DEF AsWord

LEMMA PlayerRead ==
  ASSUME NEW p \in Players
  PROVE  /\ WritePlayer(p) \in Seq(Octet) /\ Len(WritePlayer(p)) >= 1
         /\ \A s \in Streams : Starts(s, WritePlayer(p)) =>
               Gets(ReadPlayer(s), s, WritePlayer(p), ArrivingPlayer(p))
<1> DEFINE x == ArrivingPlayer(p)
           D == {"username", "position", "orientation", "life", "shot", "planting", "defusing",
                  "on_site", "bonifications", "kills", "deaths", "loadout"}
           w1 == Str(p.username)
           u1 == w1
           u2 == u1 \o Pos(p.position)
           u3 == u2 \o Num(AngleCode(p.orientation))
           u4 == u3 \o Num(p.life)
           u5 == u4 \o WritePlace(p.shot)
           u6 == u5 \o Bool(p.planting)
           u7 == u6 \o Bool(p.defusing)
           u8 == u7 \o Bool(p.on_site)
           u9 == u8 \o WriteBonification(p.bonifications)
           u10 == u9 \o Byte(p.kills)
           u11 == u10 \o Byte(p.deaths)
           u12 == u11 \o WriteLoadout(p.loadout)
<1>1. /\ p.username \in Text /\ x["username"] = p.username
      /\ p.position \in Points /\ x["position"] = Wrapped(p.position)
      /\ AngleCode(p.orientation) \in Int /\ x["orientation"] = AsWord(AngleCode(p.orientation))
      /\ p.life \in Int /\ x["life"] = AsWord(p.life)
      /\ p.shot \in Optionals(Points) /\ x["shot"] = AllWrapped(p.shot)
      /\ p.planting \in BOOLEAN /\ x["planting"] = p.planting
      /\ p.defusing \in BOOLEAN /\ x["defusing"] = p.defusing
      /\ p.on_site \in BOOLEAN /\ x["on_site"] = p.on_site
      /\ p.bonifications \in Int /\ Abs(p.bonifications) \in Word
      /\ x["bonifications"] = p.bonifications
      /\ p.kills \in Int /\ x["kills"] = AsByte(p.kills)
      /\ p.deaths \in Int /\ x["deaths"] = AsByte(p.deaths)
      /\ p.loadout \in Loadouts /\ x["loadout"] = p.loadout
  <2>1. /\ p.username \in Text /\ p.position \in Points /\ p.orientation \in Int
        /\ p.life \in Word /\ p.shot \in Optionals(Points) /\ p.planting \in BOOLEAN
        /\ p.defusing \in BOOLEAN /\ p.on_site \in BOOLEAN
        /\ p.bonifications \in Int /\ Abs(p.bonifications) \in Word
        /\ p.kills \in Octet /\ p.deaths \in Octet /\ p.loadout \in Loadouts
    BY DEF Players
  <2>2. /\ x.username = p.username /\ x.position = Wrapped(p.position)
        /\ x.orientation = AngleCode(p.orientation) /\ x.life = p.life
        /\ x.shot = AllWrapped(p.shot) /\ x.planting = p.planting
        /\ x.defusing = p.defusing /\ x.on_site = p.on_site
        /\ x.bonifications = p.bonifications /\ x.kills = p.kills
        /\ x.deaths = p.deaths /\ x.loadout = p.loadout
    BY DEF Players, ArrivingPlayer
  <2> HIDE DEF x
  <2>3. /\ AngleCode(p.orientation) \in Int
        /\ AsWord(AngleCode(p.orientation)) = AngleCode(p.orientation)
    BY <2>1, AngleCodeIs
  <2>4. p.life \in Int /\ AsWord(p.life) = p.life
    BY <2>1, WordSame
  <2>5. /\ p.kills \in Int /\ AsByte(p.kills) = p.kills
        /\ p.deaths \in Int /\ AsByte(p.deaths) = p.deaths
    BY <2>1, ByteSame
  <2>6. QED BY <2>1, <2>2, <2>3, <2>4, <2>5
<1>2. x = [f \in D |-> x[f]]
  BY DEF Players, ArrivingPlayer
<1> HIDE DEF x
<1>3. w1 \in Seq(Octet)
  BY <1>1, StrRead
<1>4. WritePlayer(p) = u12
  BY DEF WritePlayer
<1>5. ASSUME NEW s \in Streams PROVE Got(ReadPlayer(s), s, u12, x, D)
  <2> DEFINE e1 == GetStr(Begin(s), "username")
             e2 == GetPos(e1, "position")
             e3 == GetNum(e2, "orientation")
             e4 == GetNum(e3, "life")
             e5 == GetPlace(e4, "shot")
             e6 == GetBool(e5, "planting")
             e7 == GetBool(e6, "defusing")
             e8 == GetBool(e7, "on_site")
             e9 == GetBonification(e8, "bonifications")
             e10 == GetByte(e9, "kills")
             e11 == GetByte(e10, "deaths")
             e12 == GetLoadout(e11, "loadout")
             D1 == {} \cup {"username"}
             D2 == D1 \cup {"position"}
             D3 == D2 \cup {"orientation"}
             D4 == D3 \cup {"life"}
             D5 == D4 \cup {"shot"}
             D6 == D5 \cup {"planting"}
             D7 == D6 \cup {"defusing"}
             D8 == D7 \cup {"on_site"}
             D9 == D8 \cup {"bonifications"}
             D10 == D9 \cup {"kills"}
             D11 == D10 \cup {"deaths"}
             D12 == D11 \cup {"loadout"}
  <2>1. Got(e1, s, u1, x, D1)
    <3>1. Got(Begin(s), s, <<>>, x, {})
      BY NothingGot
    <3>2. Got(e1, s, <<>> \o w1, x, D1)
      BY <1>1, <3>1, GetStrGot
    <3> HIDE DEF e1, w1, D1
    <3>3. <<>> \o w1 = w1
      BY <1>3, ConcatEmptySeq
    <3>4. QED BY <3>2, <3>3
  <2> HIDE DEF e1, u1, D1
  <2>2. Got(e2, s, u2, x, D2)
    BY <1>1, <2>1, GetPosGot
  <2> HIDE DEF e2, u2, D2
  <2>3. Got(e3, s, u3, x, D3)
    BY <1>1, <2>2, GetNumGot
  <2> HIDE DEF e3, u3, D3
  <2>4. Got(e4, s, u4, x, D4)
    BY <1>1, <2>3, GetNumGot
  <2> HIDE DEF e4, u4, D4
  <2>5. Got(e5, s, u5, x, D5)
    BY <1>1, <2>4, GetPlaceGot
  <2> HIDE DEF e5, u5, D5
  <2>6. Got(e6, s, u6, x, D6)
    BY <1>1, <2>5, GetBoolGot
  <2> HIDE DEF e6, u6, D6
  <2>7. Got(e7, s, u7, x, D7)
    BY <1>1, <2>6, GetBoolGot
  <2> HIDE DEF e7, u7, D7
  <2>8. Got(e8, s, u8, x, D8)
    BY <1>1, <2>7, GetBoolGot
  <2> HIDE DEF e8, u8, D8
  <2>9. Got(e9, s, u9, x, D9)
    BY <1>1, <2>8, GetBonificationGot
  <2> HIDE DEF e9, u9, D9
  <2>10. Got(e10, s, u10, x, D10)
    BY <1>1, <2>9, GetByteGot
  <2> HIDE DEF e10, u10, D10
  <2>11. Got(e11, s, u11, x, D11)
    BY <1>1, <2>10, GetByteGot
  <2> HIDE DEF e11, u11, D11
  <2>12. Got(e12, s, u12, x, D12)
    BY <1>1, <2>11, GetLoadoutGot
  <2> HIDE DEF e12, u12, D12
  <2>13. D12 = D
    BY DEF D1, D2, D3, D4, D5, D6, D7, D8, D9, D10, D11, D12
  <2>14. ReadPlayer(s) = e12
    BY DEF ReadPlayer, e1, e2, e3, e4, e5, e6, e7, e8, e9, e10, e11, e12
  <2>15. QED BY <2>12, <2>13, <2>14
<1> DEFINE w == u12
<1>6. \A s \in Streams : Got(ReadPlayer(s), s, w, x, D)
  BY <1>5
<1> HIDE DEF w
<1>7. w \in Seq(Octet) /\ Len(w) >= 1
  <2>1. Short \in Streams /\ "username" \in D \ {"type"}
    BY DEF Streams
  <2> HIDE DEF D
  <2>2. Got(ReadPlayer(Short), Short, w, x, D) /\ D \ {"type"} # {}
    BY <1>6, <2>1
  <2>3. QED BY <2>2 DEF Got
<1>8. \A s \in Streams : Starts(s, w) => Gets(ReadPlayer(s), s, w, x)
  BY <1>2, <1>6, WholeGot
<1>9. QED BY <1>4, <1>7, <1>8 DEF w, x

LEMMA PlayersRead ==
  ASSUME NEW q \in ShortLists(Players)
  PROVE  /\ WritePlayers(q) \in Seq(Octet) /\ Len(WritePlayers(q)) >= 1
         /\ \A s \in Streams : Starts(s, WritePlayers(q)) =>
               Gets(ReadPlayers(s), s, WritePlayers(q), ArrivingPlayers(q))
<1> DEFINE b == [i \in DOMAIN q |-> WritePlayer(q[i])]
           x == ArrivingPlayers(q)
           read == [r \in Streams |-> ReadPlayer(r)]
           k == Byte(Len(q))
           w == k \o FlattenSeq(b)
<1>1. q \in Seq(Players) /\ Len(q) \in Nat /\ Len(q) <= 255
  BY LenProperties DEF ShortLists
<1>2. ASSUME NEW i \in DOMAIN q
      PROVE  /\ b[i] \in Seq(Octet) /\ Len(b[i]) >= 1
             /\ \A t \in Streams : Starts(t, b[i]) => Gets(read[t], t, b[i], x[i])
  <2> DEFINE v == WritePlayer(q[i])
  <2>1. q[i] \in Players
    BY <1>1, ElementOfSeq
  <2>2. b[i] = v /\ \A t \in Streams : read[t] = ReadPlayer(t)
    OBVIOUS
  <2>3. x[i] = ArrivingPlayer(q[i])
    BY DEF ArrivingPlayers
  <2>4. /\ v \in Seq(Octet) /\ Len(v) >= 1
        /\ \A t \in Streams : Starts(t, v) => Gets(ReadPlayer(t), t, v, ArrivingPlayer(q[i]))
    BY <2>1, PlayerRead
  <2> HIDE DEF b, x, read, v
  <2>5. QED BY <2>2, <2>3, <2>4
<1>3. OneEach(b, q)
  BY DEF OneEach
<1>4. OneEach(x, q)
  BY DEF ArrivingPlayers, OneEach
<1>5. WritePlayers(q) = w
  BY DEF WritePlayers
<1> HIDE DEF b, x, read
<1>6. /\ k \in Seq(Octet) /\ Len(k) \in Nat /\ Len(k) >= 1
      /\ \A s \in Streams : Starts(s, k) => Gets(ReadByte(s), s, k, Len(q))
  <2> DEFINE n == Len(q)
  <2>1. n \in Nat /\ n <= 255
    BY <1>1
  <2> HIDE DEF n
  <2>2. /\ Byte(n) \in Seq(Octet) /\ Len(Byte(n)) = 1
        /\ \A s \in Streams : Starts(s, Byte(n)) => Gets(ReadByte(s), s, Byte(n), n)
    BY <2>1, ShortLengthRead
  <2>3. QED BY <2>2 DEF n
<1> HIDE DEF k
<1>7. /\ FlattenSeq(b) \in Seq(Octet) /\ w \in Seq(Octet) /\ Len(w) >= Len(k)
      /\ \A s \in Streams : \A r : \A m :
            Starts(s, w) /\ r = After(s, Len(k)) /\ (r # Short => m = Len(q))
               => Gets(ReadMany(r, m, read), s, w, x)
  <2>1. EachIsRead(q, b, x, read)
    BY <1>2 DEF EachIsRead
  <2>2. q \in Seq(Players) /\ k \in Seq(Octet)
    BY <1>1, <1>6
  <2>3. QED BY <1>3, <1>4, <2>1, <2>2, ListRead
<1>8. Len(w) >= 1
  BY <1>6, <1>7, LenProperties
<1>9. ASSUME NEW s \in Streams, Starts(s, w) PROVE Gets(ReadPlayers(s), s, w, x)
  <2> DEFINE n == ReadByte(s)
  <2>1. Starts(s, k)
    BY <1>6, <1>7, <1>9, Pieces
  <2>2. n.rest = After(s, Len(k)) /\ (n.rest # Short => n.v = Len(q))
    BY <1>6, <2>1 DEF Gets
  <2> HIDE DEF w
  <2>3. Gets(ReadMany(n.rest, n.v, read), s, w, x)
    BY <1>7, <1>9, <2>2
  <2>4. ReadPlayers(s) = ReadMany(n.rest, n.v, read)
    BY DEF ReadPlayers, read
  <2>5. QED BY <2>3, <2>4
<1>10. QED BY <1>5, <1>7, <1>8, <1>9 DEF x

LEMMA GetPlayersGot ==
  ASSUME NEW s \in Streams, NEW p, NEW D, NEW name, NEW sofar, NEW u, Got(sofar, s, u, p, D),
         NEW q \in ShortLists(Players), p[name] = ArrivingPlayers(q)
  PROVE  Got(GetPlayers(sofar, name), s, u \o WritePlayers(q), p, D \cup {name})
<1> DEFINE w == WritePlayers(q)
           e == ReadPlayers(sofar.rest)
<1>1. /\ w \in Seq(Octet) /\ Len(w) >= 1
      /\ \A t \in Streams : Starts(t, w) => Gets(ReadPlayers(t), t, w, ArrivingPlayers(q))
  BY PlayersRead
<1> HIDE DEF w
<1>2. sofar.rest \in Streams /\ Starts(sofar.rest, w) => Gets(e, sofar.rest, w, p[name])
  BY <1>1
<1>3. GetPlayers(sofar, name) = Field(sofar, name, e)
  BY DEF GetPlayers
<1> HIDE DEF e
<1>4. Got(Field(sofar, name, e), s, u \o w, p, D \cup {name})
  BY <1>1, <1>2, OneMore
<1>5. QED BY <1>3, <1>4 DEF w

LEMMA SnapshotRead ==
  ASSUME NEW m \in Snapshots
  PROVE  /\ WriteSnapshot(m) \in Seq(Octet) /\ Len(WriteSnapshot(m)) >= 1
         /\ \A s \in Streams : Starts(s, WriteSnapshot(m)) =>
               Gets(ReadSnapshot(s), s, WriteSnapshot(m), Arriving(m))
<1> DEFINE x == Arriving(m)
           D == {"type", "total_players", "phase", "round", "rounds", "ct_wins", "tt_wins",
                  "time_left", "bomb_status", "bomb_position", "ct", "tt",
                  "winner", "items"}
           w1 == Byte(m.total_players)
           u1 == w1
           u2 == u1 \o Byte(m.phase)
           u3 == u2 \o Byte(m.round)
           u4 == u3 \o Byte(m.rounds)
           u5 == u4 \o Byte(m.ct_wins)
           u6 == u5 \o Byte(m.tt_wins)
           u7 == u6 \o Byte(m.time_left)
           u8 == u7 \o Byte(m.bomb_status)
           u9 == u8 \o WritePlace(m.bomb_position)
           u10 == u9 \o WritePlayers(m.ct)
           u11 == u10 \o WritePlayers(m.tt)
           u12 == u11 \o WriteWinner(m.winner)
           u13 == u12 \o WriteItems(m.items)
<1>1. /\ m.total_players \in Int /\ x["total_players"] = AsByte(m.total_players)
      /\ m.phase \in Int /\ x["phase"] = AsByte(m.phase)
      /\ m.round \in Int /\ x["round"] = AsByte(m.round)
      /\ m.rounds \in Int /\ x["rounds"] = AsByte(m.rounds)
      /\ m.ct_wins \in Int /\ x["ct_wins"] = AsByte(m.ct_wins)
      /\ m.tt_wins \in Int /\ x["tt_wins"] = AsByte(m.tt_wins)
      /\ m.time_left \in Int /\ x["time_left"] = AsByte(m.time_left)
      /\ m.bomb_status \in Int /\ x["bomb_status"] = AsByte(m.bomb_status)
      /\ m.bomb_position \in Optionals(Points) /\ x["bomb_position"] = AllWrapped(m.bomb_position)
      /\ m.ct \in ShortLists(Players) /\ x["ct"] = ArrivingPlayers(m.ct)
      /\ m.tt \in ShortLists(Players) /\ x["tt"] = ArrivingPlayers(m.tt)
      /\ m.winner \in Optionals(Octet) /\ x["winner"] = m.winner
      /\ m.items \in Lists(Items) /\ x["items"] = ArrivingItems(m.items)
  <2>1. /\ m.total_players \in Octet /\ m.phase \in Octet /\ m.round \in Octet
        /\ m.rounds \in Octet /\ m.ct_wins \in Octet /\ m.tt_wins \in Octet
        /\ m.time_left \in Int /\ m.bomb_status \in Octet
        /\ m.bomb_position \in Optionals(Points) /\ m.ct \in ShortLists(Players)
        /\ m.tt \in ShortLists(Players) /\ m.winner \in Optionals(Octet)
        /\ m.items \in Lists(Items)
    BY DEF Snapshots
  <2>2. /\ x.total_players = m.total_players /\ x.phase = m.phase /\ x.round = m.round
        /\ x.rounds = m.rounds /\ x.ct_wins = m.ct_wins /\ x.tt_wins = m.tt_wins
        /\ x.time_left = AsByte(m.time_left) /\ x.bomb_status = m.bomb_status
        /\ x.bomb_position = AllWrapped(m.bomb_position) /\ x.ct = ArrivingPlayers(m.ct)
        /\ x.tt = ArrivingPlayers(m.tt) /\ x.winner = m.winner
        /\ x.items = ArrivingItems(m.items)
    BY DEF Snapshots, Arriving, AsByte
  <2> HIDE DEF x
  <2>3. /\ AsByte(m.total_players) = m.total_players /\ AsByte(m.phase) = m.phase
        /\ AsByte(m.round) = m.round /\ AsByte(m.rounds) = m.rounds
        /\ AsByte(m.ct_wins) = m.ct_wins /\ AsByte(m.tt_wins) = m.tt_wins
        /\ AsByte(m.bomb_status) = m.bomb_status
        /\ m.total_players \in Int /\ m.phase \in Int /\ m.round \in Int
        /\ m.rounds \in Int /\ m.ct_wins \in Int /\ m.tt_wins \in Int
        /\ m.bomb_status \in Int
    <3>1. \A n \in Octet : n \in Int /\ AsByte(n) = n
      BY ByteSame
    <3>2. /\ AsByte(m.total_players) = m.total_players /\ AsByte(m.phase) = m.phase
          /\ AsByte(m.round) = m.round /\ AsByte(m.rounds) = m.rounds
          /\ AsByte(m.ct_wins) = m.ct_wins /\ AsByte(m.tt_wins) = m.tt_wins
          /\ AsByte(m.bomb_status) = m.bomb_status
      BY <2>1, <3>1, Zenon
    <3>3. /\ m.total_players \in Int /\ m.phase \in Int /\ m.round \in Int
          /\ m.rounds \in Int /\ m.ct_wins \in Int /\ m.tt_wins \in Int
          /\ m.bomb_status \in Int
      BY <2>1, <3>1, Zenon
    <3>4. QED BY <3>2, <3>3
  <2>4. QED BY <2>1, <2>2, <2>3
<1>2. x = [f \in D |-> x[f]] /\ x.type = "snapshot"
  BY DEF Snapshots, Arriving
<1> HIDE DEF x
<1>3. w1 \in Seq(Octet)
  BY <1>1, ByteRead
<1>4. WriteSnapshot(m) = u13
  BY DEF WriteSnapshot
<1>5. ASSUME NEW s \in Streams PROVE Got(ReadSnapshot(s), s, u13, x, D)
  <2> DEFINE e1 == GetByte(BeginWith("snapshot", s), "total_players")
             e2 == GetByte(e1, "phase")
             e3 == GetByte(e2, "round")
             e4 == GetByte(e3, "rounds")
             e5 == GetByte(e4, "ct_wins")
             e6 == GetByte(e5, "tt_wins")
             e7 == GetByte(e6, "time_left")
             e8 == GetByte(e7, "bomb_status")
             e9 == GetPlace(e8, "bomb_position")
             e10 == GetPlayers(e9, "ct")
             e11 == GetPlayers(e10, "tt")
             e12 == GetWinner(e11, "winner")
             e13 == GetItems(e12, "items")
             D1 == {"type"} \cup {"total_players"}
             D2 == D1 \cup {"phase"}
             D3 == D2 \cup {"round"}
             D4 == D3 \cup {"rounds"}
             D5 == D4 \cup {"ct_wins"}
             D6 == D5 \cup {"tt_wins"}
             D7 == D6 \cup {"time_left"}
             D8 == D7 \cup {"bomb_status"}
             D9 == D8 \cup {"bomb_position"}
             D10 == D9 \cup {"ct"}
             D11 == D10 \cup {"tt"}
             D12 == D11 \cup {"winner"}
             D13 == D12 \cup {"items"}
  <2>1. Got(e1, s, u1, x, D1)
    <3>1. Got(BeginWith("snapshot", s), s, <<>>, x, {"type"})
      BY <1>2, TypeGot
    <3>2. Got(e1, s, <<>> \o w1, x, D1)
      BY <1>1, <3>1, GetByteGot
    <3> HIDE DEF e1, w1, D1
    <3>3. <<>> \o w1 = w1
      BY <1>3, ConcatEmptySeq
    <3>4. QED BY <3>2, <3>3
  <2> HIDE DEF e1, u1, D1
  <2>2. Got(e2, s, u2, x, D2)
    BY <1>1, <2>1, GetByteGot
  <2> HIDE DEF e2, u2, D2
  <2>3. Got(e3, s, u3, x, D3)
    BY <1>1, <2>2, GetByteGot
  <2> HIDE DEF e3, u3, D3
  <2>4. Got(e4, s, u4, x, D4)
    BY <1>1, <2>3, GetByteGot
  <2> HIDE DEF e4, u4, D4
  <2>5. Got(e5, s, u5, x, D5)
    BY <1>1, <2>4, GetByteGot
  <2> HIDE DEF e5, u5, D5
  <2>6. Got(e6, s, u6, x, D6)
    BY <1>1, <2>5, GetByteGot
  <2> HIDE DEF e6, u6, D6
  <2>7. Got(e7, s, u7, x, D7)
    BY <1>1, <2>6, GetByteGot
  <2> HIDE DEF e7, u7, D7
  <2>8. Got(e8, s, u8, x, D8)
    BY <1>1, <2>7, GetByteGot
  <2> HIDE DEF e8, u8, D8
  <2>9. Got(e9, s, u9, x, D9)
    BY <1>1, <2>8, GetPlaceGot
  <2> HIDE DEF e9, u9, D9
  <2>10. Got(e10, s, u10, x, D10)
    BY <1>1, <2>9, GetPlayersGot
  <2> HIDE DEF e10, u10, D10
  <2>11. Got(e11, s, u11, x, D11)
    BY <1>1, <2>10, GetPlayersGot
  <2> HIDE DEF e11, u11, D11
  <2>12. Got(e12, s, u12, x, D12)
    BY <1>1, <2>11, GetWinnerGot
  <2> HIDE DEF e12, u12, D12
  <2>13. Got(e13, s, u13, x, D13)
    BY <1>1, <2>12, GetItemsGot
  <2> HIDE DEF e13, u13, D13
  <2>14. D13 = D
    BY DEF D1, D2, D3, D4, D5, D6, D7, D8, D9, D10, D11, D12, D13
  <2>15. ReadSnapshot(s) = e13
    BY DEF ReadSnapshot, e1, e2, e3, e4, e5, e6, e7, e8, e9, e10, e11, e12, e13
  <2>16. QED BY <2>13, <2>14, <2>15
<1> DEFINE w == u13
<1>6. \A s \in Streams : Got(ReadSnapshot(s), s, w, x, D)
  BY <1>5
<1> HIDE DEF w
<1>7. w \in Seq(Octet) /\ Len(w) >= 1
  <2>1. Short \in Streams /\ "total_players" \in D \ {"type"}
    BY DEF Streams
  <2> HIDE DEF D
  <2>2. Got(ReadSnapshot(Short), Short, w, x, D) /\ D \ {"type"} # {}
    BY <1>6, <2>1
  <2>3. QED BY <2>2 DEF Got
<1>8. \A s \in Streams : Starts(s, w) => Gets(ReadSnapshot(s), s, w, x)
  BY <1>2, <1>6, WholeGot
<1>9. QED BY <1>4, <1>7, <1>8 DEF w, x

LEMMA InitRead ==
  ASSUME NEW m \in Inits
  PROVE  /\ WriteInit(m) \in Seq(Octet) /\ Len(WriteInit(m)) >= 1
         /\ \A s \in Streams : Starts(s, WriteInit(m)) =>
               Gets(ReadInit(s), s, WriteInit(m), m)
<1> DEFINE x == m
           D == {"type", "background", "objects", "sites", "prices", "clips", "price_clips"}
           w1 == Byte(m.background)
           u1 == w1
           u2 == u1 \o WriteObjects(m.objects)
           u3 == u2 \o WritePositions(m.sites)
           u4 == u3 \o WriteTable(m.prices)
           u5 == u4 \o WriteTable(m.clips)
           u6 == u5 \o Num(m.price_clips)
<1>1. /\ m.background \in Int /\ x["background"] = AsByte(m.background)
      /\ m.objects \in ShortLists(Objects) /\ x["objects"] = m.objects
      /\ m.sites \in Lists(Cells) /\ x["sites"] = m.sites
      /\ m.prices \in Tables /\ x["prices"] = m.prices
      /\ m.clips \in Tables /\ x["clips"] = m.clips
      /\ m.price_clips \in Int /\ x["price_clips"] = AsWord(m.price_clips)
  <2>1. /\ m.background \in Octet /\ m.objects \in ShortLists(Objects) /\ m.sites \in Lists(Cells)
        /\ m.prices \in Tables /\ m.clips \in Tables /\ m.price_clips \in Word
    BY DEF Inits
  <2>2. m.background \in Int /\ AsByte(m.background) = m.background
    BY <2>1, ByteSame
  <2>3. m.price_clips \in Int /\ AsWord(m.price_clips) = m.price_clips
    BY <2>1, WordSame
  <2>4. QED BY <2>1, <2>2, <2>3
<1>2. x = [f \in D |-> x[f]] /\ x.type = "init"
  BY DEF Inits
<1> HIDE DEF x
<1>3. w1 \in Seq(Octet)
  BY <1>1, ByteRead
<1>4. WriteInit(m) = u6
  BY DEF WriteInit
<1>5. ASSUME NEW s \in Streams PROVE Got(ReadInit(s), s, u6, x, D)
  <2> DEFINE e1 == GetByte(BeginWith("init", s), "background")
             e2 == GetObjects(e1, "objects")
             e3 == GetPositions(e2, "sites")
             e4 == GetTable(e3, "prices")
             e5 == GetTable(e4, "clips")
             e6 == GetNum(e5, "price_clips")
             D1 == {"type"} \cup {"background"}
             D2 == D1 \cup {"objects"}
             D3 == D2 \cup {"sites"}
             D4 == D3 \cup {"prices"}
             D5 == D4 \cup {"clips"}
             D6 == D5 \cup {"price_clips"}
  <2>1. Got(e1, s, u1, x, D1)
    <3>1. Got(BeginWith("init", s), s, <<>>, x, {"type"})
      BY <1>2, TypeGot
    <3>2. Got(e1, s, <<>> \o w1, x, D1)
      BY <1>1, <3>1, GetByteGot
    <3> HIDE DEF e1, w1, D1
    <3>3. <<>> \o w1 = w1
      BY <1>3, ConcatEmptySeq
    <3>4. QED BY <3>2, <3>3
  <2> HIDE DEF e1, u1, D1
  <2>2. Got(e2, s, u2, x, D2)
    BY <1>1, <2>1, GetObjectsGot
  <2> HIDE DEF e2, u2, D2
  <2>3. Got(e3, s, u3, x, D3)
    BY <1>1, <2>2, GetPositionsGot
  <2> HIDE DEF e3, u3, D3
  <2>4. Got(e4, s, u4, x, D4)
    BY <1>1, <2>3, GetTableGot
  <2> HIDE DEF e4, u4, D4
  <2>5. Got(e5, s, u5, x, D5)
    BY <1>1, <2>4, GetTableGot
  <2> HIDE DEF e5, u5, D5
  <2>6. Got(e6, s, u6, x, D6)
    BY <1>1, <2>5, GetNumGot
  <2> HIDE DEF e6, u6, D6
  <2>7. D6 = D
    BY DEF D1, D2, D3, D4, D5, D6
  <2>8. ReadInit(s) = e6
    BY DEF ReadInit, e1, e2, e3, e4, e5, e6
  <2>9. QED BY <2>6, <2>7, <2>8
<1> DEFINE w == u6
<1>6. \A s \in Streams : Got(ReadInit(s), s, w, x, D)
  BY <1>5
<1> HIDE DEF w
<1>7. w \in Seq(Octet) /\ Len(w) >= 1
  <2>1. Short \in Streams /\ "background" \in D \ {"type"}
    BY DEF Streams
  <2> HIDE DEF D
  <2>2. Got(ReadInit(Short), Short, w, x, D) /\ D \ {"type"} # {}
    BY <1>6, <2>1
  <2>3. QED BY <2>2 DEF Got
<1>8. \A s \in Streams : Starts(s, w) => Gets(ReadInit(s), s, w, x)
  BY <1>2, <1>6, WholeGot
<1>9. QED BY <1>4, <1>7, <1>8 DEF w, x

LEMMA ReadGameMessageIs ==
  ASSUME NEW s \in Streams, NEW b, b = ReadByte(s)
  PROVE  /\ b.v = 37 => ReadGameMessage(s) = ReadInit(b.rest)
         /\ b.v = 53 => ReadGameMessage(s) = ReadSnapshot(b.rest)
         /\ b.v = 96 => ReadGameMessage(s) = Read([type |-> "ended"], b.rest)
         /\ b.rest = Short => ReadGameMessage(s).rest = Short
<1>1. b.rest = Short => b.v = 0
  BY ByteShort
<1> DEFINE other == Read([type |-> "ended"], b.rest)
<1>2. other.rest = b.rest
  BY DEF Read
<1>3. b.v # 37 /\ b.v # 53 => ReadGameMessage(s) = other
  BY DEF ReadGameMessage
<1>4. (b.v = 37 => ReadGameMessage(s) = ReadInit(b.rest))
      /\ (b.v = 53 => ReadGameMessage(s) = ReadSnapshot(b.rest))
  BY DEF ReadGameMessage
<1> HIDE DEF other
<1>5. QED BY <1>1, <1>2, <1>3, <1>4 DEF other

LEMMA GameMessageRead ==
  ASSUME NEW m \in AllGameMessages
  PROVE  /\ WriteGameMessage(m) \in Seq(Octet)
         /\ \A s \in Streams : Starts(s, WriteGameMessage(m)) =>
               Gets(ReadGameMessage(s), s, WriteGameMessage(m), Arriving(m))
<1> DEFINE x == Arriving(m)
           Done(w) ==
             /\ w \in Seq(Octet)
             /\ \A s \in Streams : Starts(s, w) => Gets(ReadGameMessage(s), s, w, x)
<1>1. CASE m \in Inits
  <2> DEFINE w == WriteInit(m)
  <2>1. m.type = "init" /\ WriteGameMessage(m) = << 37 >> \o w /\ 37 \in Octet /\ x = m
    BY <1>1, OctetIs DEF Inits, WriteGameMessage, Arriving
  <2>2. /\ w \in Seq(Octet)
        /\ \A s \in Streams : Starts(s, w) => Gets(ReadInit(s), s, w, x)
    BY <1>1, <2>1, InitRead
  <2> HIDE DEF w, x
  <2>3. ASSUME NEW s \in Streams, Starts(s, << 37 >> \o w)
        PROVE  Gets(ReadGameMessage(s), s, << 37 >> \o w, x)
    <3> DEFINE b == ReadByte(s)
               d == ReadGameMessage(s)
               e == ReadInit(b.rest)
    <3>1. (b.v = 37 => d = e) /\ (b.rest = Short => d.rest = Short)
      BY ReadGameMessageIs
    <3>2. b.rest \in Streams /\ Starts(b.rest, w) => Gets(e, b.rest, w, x)
      BY <2>2
    <3> HIDE DEF d, e
    <3>3. Gets(d, s, << 37 >> \o w, x)
      <4> DEFINE k == 37
      <4>1. /\ w \in Seq(Octet) /\ k \in Octet /\ Starts(s, <<k>> \o w)
            /\ (b.v = k => d = e)
        BY <2>1, <2>2, <2>3, <3>1
      <4> HIDE DEF k
      <4>2. Gets(d, s, <<k>> \o w, x)
        BY <3>1, <3>2, <4>1, Dispatched
      <4>3. QED BY <4>2 DEF k
    <3>4. QED BY <3>3 DEF d
  <2>4. << 37 >> \o w \in Seq(Octet)
    <3> DEFINE u == << 37 >>
    <3>1. u \in Seq(Octet)
      BY <2>1
    <3> HIDE DEF u
    <3>2. u \o w \in Seq(Octet)
      BY <2>2, <3>1, ConcatProperties
    <3>3. QED BY <3>2 DEF u
  <2>5. Done(<< 37 >> \o w)
    BY <2>3, <2>4
  <2>6. QED BY <2>1, <2>5 DEF x
<1>2. CASE m \in Snapshots
  <2> DEFINE w == WriteSnapshot(m)
  <2>1. m.type = "snapshot" /\ WriteGameMessage(m) = << 53 >> \o w /\ 53 \in Octet
    BY <1>2, OctetIs DEF Snapshots, WriteGameMessage
  <2>2. /\ w \in Seq(Octet)
        /\ \A s \in Streams : Starts(s, w) => Gets(ReadSnapshot(s), s, w, x)
    BY <1>2, <2>1, SnapshotRead
  <2> HIDE DEF w, x
  <2>3. ASSUME NEW s \in Streams, Starts(s, << 53 >> \o w)
        PROVE  Gets(ReadGameMessage(s), s, << 53 >> \o w, x)
    <3> DEFINE b == ReadByte(s)
               d == ReadGameMessage(s)
               e == ReadSnapshot(b.rest)
    <3>1. (b.v = 53 => d = e) /\ (b.rest = Short => d.rest = Short)
      BY ReadGameMessageIs
    <3>2. b.rest \in Streams /\ Starts(b.rest, w) => Gets(e, b.rest, w, x)
      BY <2>2
    <3> HIDE DEF d, e
    <3>3. Gets(d, s, << 53 >> \o w, x)
      <4> DEFINE k == 53
      <4>1. /\ w \in Seq(Octet) /\ k \in Octet /\ Starts(s, <<k>> \o w)
            /\ (b.v = k => d = e)
        BY <2>1, <2>2, <2>3, <3>1
      <4> HIDE DEF k
      <4>2. Gets(d, s, <<k>> \o w, x)
        BY <3>1, <3>2, <4>1, Dispatched
      <4>3. QED BY <4>2 DEF k
    <3>4. QED BY <3>3 DEF d
  <2>4. << 53 >> \o w \in Seq(Octet)
    <3> DEFINE u == << 53 >>
    <3>1. u \in Seq(Octet)
      BY <2>1
    <3> HIDE DEF u
    <3>2. u \o w \in Seq(Octet)
      BY <2>2, <3>1, ConcatProperties
    <3>3. QED BY <3>2 DEF u
  <2>5. Done(<< 53 >> \o w)
    BY <2>3, <2>4
  <2>6. QED BY <2>1, <2>5 DEF x
<1>3. CASE m \in [type : {"ended"}]
  <2> DEFINE w == << 96 >>
  <2>1. /\ m = [type |-> "ended"] /\ WriteGameMessage(m) = w /\ 96 \in Octet /\ x = m
        /\ w = Byte(96) /\ AsByte(96) = 96
    BY <1>3, OctetIs, CodeByte DEF WriteGameMessage, Arriving, AsByte, Byte
  <2>2. w \in Seq(Octet) /\ Len(w) = 1
    BY <2>1
  <2> HIDE DEF w, x
  <2>3. ASSUME NEW s \in Streams, Starts(s, w) PROVE Gets(ReadGameMessage(s), s, w, x)
    <3> DEFINE b == ReadByte(s)
               d == ReadGameMessage(s)
               e == Read([type |-> "ended"], b.rest)
    <3>1. Gets(b, s, w, 96)
      BY <2>1, <2>3, ByteRead DEF AsByte
    <3>2. (b.v = 96 => d = e) /\ (b.rest = Short => d.rest = Short)
      BY ReadGameMessageIs
    <3>3. e.rest = b.rest /\ e.v = [type |-> "ended"]
      BY DEF Read
    <3> HIDE DEF b, d, e
    <3>4. Gets(d, s, w, x)
      BY <2>1, <3>1, <3>2, <3>3 DEF Gets
    <3>5. QED BY <3>4 DEF d
  <2>4. QED BY <2>1, <2>2, <2>3 DEF x
<1>4. QED BY <1>1, <1>2, <1>3 DEF AllGameMessages

-----------------------------------------------------------------------------
(***************************************************************************)
(* What is on its way of what was sent, and what arrives of it.            *)
(***************************************************************************)
\* Of a stream with nothing left every read is short.
LEMMA NothingRead ==
  /\ ReadRequest(<<>>).rest = Short /\ ReadAnswer(<<>>).rest = Short
  /\ ReadCommand(<<>>).rest = Short /\ ReadGameMessage(<<>>).rest = Short
<1>1. <<>> \in Streams /\ \A w \in Seq(Octet) : Starts(<<>>, w)
  <2>1. <<>> \in Seq(Octet) /\ Len(<<>>) = 0
    OBVIOUS
  <2>2. QED BY <2>1 DEF Streams, Starts
<1>2. ASSUME NEW e, NEW w \in Seq(Octet), Len(w) >= 1, NEW x, Gets(e, <<>>, w, x)
      PROVE  e.rest = Short
  <2>1. Len(w) \in Nat /\ Len(w) > Len(<<>>)
    BY <1>2, LenProperties
  <2>2. After(<<>>, Len(w)) = Short
    BY <1>1, <2>1, AfterIs
  <2>3. QED BY <1>2, <2>2 DEF Gets
<1>3. ReadRequest(<<>>).rest = Short
  <2> DEFINE r == [type |-> "join_game", text |-> <<>>]
             w == WriteRequest(r)
  <2>1. r \in AllRequests
    BY DEF AllRequests, RequestCode, Text, Lists
  <2> HIDE DEF r
  <2>2. w \in Seq(Octet) /\ Len(w) >= 1 /\ Gets(ReadRequest(<<>>), <<>>, w, r)
    BY <1>1, <2>1, RequestRead
  <2> HIDE DEF w
  <2>3. QED BY <1>2, <2>2
<1>4. ReadAnswer(<<>>).rest = Short
  <2> DEFINE a == [type |-> "join_game", status |-> Success, name |-> <<>>]
             w == WriteAnswer(a)
  <2>1. a \in Answers /\ (a.type # "create_game" => a.name = <<>>)
    BY DEF Answers, RequestCode
  <2> HIDE DEF a
  <2>2. w \in Seq(Octet) /\ Len(w) >= 1 /\ Gets(ReadAnswer(<<>>), <<>>, w, a)
    BY <1>1, <2>1, AnswerRead
  <2> HIDE DEF w
  <2>3. QED BY <1>2, <2>2
<1>5. ReadCommand(<<>>).rest = Short
  <2> DEFINE c == [type |-> "pick_up"]
             w == WriteCommand(c)
  <2>1. c \in AllCommands
    BY DEF AllCommands
  <2>2. w = << 20 >>
    BY DEF WriteCommand
  <2>3. w \in Seq(Octet) /\ Gets(ReadCommand(<<>>), <<>>, w, Arriving(c))
    <3> HIDE DEF c
    <3>1. QED BY <1>1, <2>1, CommandRead
  <2>4. Len(w) >= 1
    BY <2>2
  <2> HIDE DEF w, c
  <2>5. QED BY <1>2, <2>3, <2>4
<1>6. ReadGameMessage(<<>>).rest = Short
  <2> DEFINE m == [type |-> "ended"]
             w == WriteGameMessage(m)
  <2>1. m \in AllGameMessages
    BY DEF AllGameMessages
  <2>2. w = << 96 >>
    BY DEF WriteGameMessage
  <2>3. w \in Seq(Octet) /\ Gets(ReadGameMessage(<<>>), <<>>, w, Arriving(m))
    <3> HIDE DEF m
    <3>1. QED BY <1>1, <2>1, GameMessageRead
  <2>4. Len(w) >= 1
    BY <2>2
  <2> HIDE DEF w, m
  <2>5. QED BY <1>2, <2>3, <2>4
<1>7. QED BY <1>3, <1>4, <1>5, <1>6

\* A message that is read whole is the next one of those on their way.
LEMMA NextIsRead ==
  ASSUME NEW s, NEW b, NEW k, NEW full, Carries(s, b, k, full),
         NEW e, e.rest # Short, s = <<>> => e.rest = Short,
         NEW x, k < Len(b) /\ Starts(s, b[k + 1]) => Gets(e, s, b[k + 1], x)
  PROVE  k < Len(b) /\ e.v = x /\ Carries(e.rest, b, k + 1, full)
<1>1. k \in Nat /\ Len(b) \in Nat /\ k <= Len(b)
  BY LenProperties DEF Carries
<1>2. k # Len(b)
  BY CarriesLast
<1>3. k < Len(b)
  BY <1>1, <1>2
<1> DEFINE w == b[k + 1]
<1>4. /\ s \in Streams /\ Starts(s, w)
      /\ After(s, Len(w)) # Short => Carries(After(s, Len(w)), b, k + 1, full)
  BY <1>3, CarriesNext
<1>5. Gets(e, s, w, x)
  BY <1>3, <1>4
<1> HIDE DEF w
<1>6. QED BY <1>3, <1>4, <1>5 DEF Gets

\* The bytes of what was sent.
UpBytes(m) == IF m.type \in DOMAIN RequestCode THEN WriteRequest(m) ELSE WriteCommand(m)
DownBytes(m) == IF m.type \in DOMAIN RequestCode THEN WriteAnswer(m) ELSE WriteGameMessage(m)

AllUpBytes(sent) == [i \in DOMAIN sent |-> UpBytes(sent[i])]
AllDownBytes(sent) == [i \in DOMAIN sent |-> DownBytes(sent[i])]
AllArriving(sent) == [i \in DOMAIN sent |-> Arriving(sent[i])]

LEMMA OneMoreSent ==
  ASSUME NEW S, NEW sent \in Seq(S), NEW m
  PROVE  /\ AllUpBytes(Append(sent, m)) = Append(AllUpBytes(sent), UpBytes(m))
         /\ AllDownBytes(Append(sent, m)) = Append(AllDownBytes(sent), DownBytes(m))
         /\ AllArriving(Append(sent, m)) = Append(AllArriving(sent), Arriving(m))
<1> DEFINE n == Len(sent)
           q == Append(sent, m)
<1>1. n \in Nat /\ DOMAIN sent = 1..n
  BY LenProperties
<1>2. DOMAIN q = 1..(n + 1) /\ q[n + 1] = m /\ \A i \in 1..n : q[i] = sent[i]
  BY <1>1
<1> HIDE DEF q, n
<1>3. AllUpBytes(q) = Append(AllUpBytes(sent), UpBytes(m))
  <2>1. AllUpBytes(sent) = [i \in 1..n |-> UpBytes(sent[i])]
    BY <1>1 DEF AllUpBytes
  <2>2. AllUpBytes(q) = [i \in 1..(n + 1) |-> UpBytes(q[i])]
    BY <1>2 DEF AllUpBytes
  <2>3. QED BY <1>1, <1>2, <2>1, <2>2
<1>4. AllDownBytes(q) = Append(AllDownBytes(sent), DownBytes(m))
  <2>1. AllDownBytes(sent) = [i \in 1..n |-> DownBytes(sent[i])]
    BY <1>1 DEF AllDownBytes
  <2>2. AllDownBytes(q) = [i \in 1..(n + 1) |-> DownBytes(q[i])]
    BY <1>2 DEF AllDownBytes
  <2>3. QED BY <1>1, <1>2, <2>1, <2>2
<1>5. AllArriving(q) = Append(AllArriving(sent), Arriving(m))
  <2>1. AllArriving(sent) = [i \in 1..n |-> Arriving(sent[i])]
    BY <1>1 DEF AllArriving
  <2>2. AllArriving(q) = [i \in 1..(n + 1) |-> Arriving(q[i])]
    BY <1>2 DEF AllArriving
  <2>3. QED BY <1>1, <1>2, <2>1, <2>2
<1>6. QED BY <1>3, <1>4, <1>5 DEF q

\* Which end writes what, and that only what says so arrives otherwise.
LEMMA RequestIs ==
  ASSUME NEW r \in Requests
  PROVE  /\ r \in AllRequests /\ UpBytes(r) = WriteRequest(r) /\ Arriving(r) = r
         /\ UpBytes(r) \in Seq(Octet)
<1>1. r \in AllRequests /\ r.type \in DOMAIN RequestCode
  BY WireAssumption DEF AllRequests
<1>2. r.type # "rotate" /\ r.type # "snapshot"
  BY <1>1 DEF RequestCode
<1>3. UpBytes(r) = WriteRequest(r) /\ Arriving(r) = r
  BY <1>1, <1>2 DEF UpBytes, Arriving
<1>4. QED BY <1>1, <1>3, RequestRead

LEMMA CommandIs ==
  ASSUME NEW c \in Commands
  PROVE  c \in AllCommands /\ UpBytes(c) = WriteCommand(c) /\ UpBytes(c) \in Seq(Octet)
<1>1. c \in AllCommands
  BY WireAssumption
<1>2. c.type \notin DOMAIN RequestCode
  BY <1>1 DEF AllCommands, RequestCode
<1>3. QED BY <1>1, <1>2, CommandRead DEF UpBytes

\* An answer says a name only when a game was created.
Answering == {a \in Answers : a.type # "create_game" => a.name = <<>>}

LEMMA AnswerIs ==
  ASSUME NEW a \in Answering
  PROVE  a \in Answers /\ DownBytes(a) = WriteAnswer(a) /\ Arriving(a) = a
         /\ DownBytes(a) \in Seq(Octet)
<1>1. a \in Answers /\ a.type \in DOMAIN RequestCode /\ (a.type # "create_game" => a.name = <<>>)
  BY DEF Answering, Answers
<1>2. a.type # "rotate" /\ a.type # "snapshot"
  BY <1>1 DEF RequestCode
<1>3. DownBytes(a) = WriteAnswer(a) /\ Arriving(a) = a
  BY <1>1, <1>2 DEF DownBytes, Arriving
<1>4. QED BY <1>1, <1>3, AnswerRead

LEMMA GameMessageIs ==
  ASSUME NEW m \in GameMessages
  PROVE  /\ m \in AllGameMessages /\ DownBytes(m) = WriteGameMessage(m)
         /\ DownBytes(m) \in Seq(Octet)
<1>1. m \in AllGameMessages
  BY WireAssumption
<1>2. m.type \notin DOMAIN RequestCode
  BY <1>1 DEF AllGameMessages, Inits, Snapshots, RequestCode
<1>3. QED BY <1>1, <1>2, GameMessageRead DEF DownBytes

\* The messages that were sent in one direction and received, and the bytes of
\* the others on their way: all of them, if the connection is not lost.
History(sent, got, way, bytes, S, full) ==
    /\ sent \in Seq(S) /\ got \in Seq({Arriving(m) : m \in S})
    /\ Len(got) <= Len(sent) /\ Len(bytes) = Len(sent)
    /\ \A i \in 1..Len(got) : got[i] = Arriving(sent[i])
    /\ Carries(way, bytes, Len(got), full)

LEMMA HistorySends ==
  ASSUME NEW sent, NEW got, NEW way, NEW bytes, NEW S,
         History(sent, got, way, bytes, S, TRUE), NEW m \in S, NEW w \in Seq(Octet)
  PROVE  History(Append(sent, m), got, way \o w, Append(bytes, w), S, TRUE)
<1> DEFINE A == {Arriving(x) : x \in S}
           k == Len(got)
           n == Len(sent)
           q == Append(sent, m)
           c == Append(bytes, w)
<1>1. /\ sent \in Seq(S) /\ got \in Seq(A) /\ k <= n /\ Len(bytes) = n
      /\ \A i \in 1..k : got[i] = Arriving(sent[i])
      /\ Carries(way, bytes, k, TRUE)
  BY DEF History
<1> HIDE DEF A
<1>2. k \in Nat /\ n \in Nat /\ bytes \in Seq(Seq(Octet))
  BY <1>1, LenProperties DEF Carries
<1>3. q \in Seq(S) /\ Len(q) = n + 1 /\ \A i \in 1..n : q[i] = sent[i]
  BY <1>1, AppendProperties
<1>4. Len(c) = n + 1
  BY <1>1, <1>2, AppendProperties
<1>5. Carries(way \o w, c, k, TRUE)
  BY <1>1, CarriesMore
<1> HIDE DEF q, c
<1>6. \A i \in 1..k : got[i] = Arriving(q[i])
  <2>1. \A i \in 1..k : i \in 1..n
    BY <1>1, <1>2
  <2>2. QED BY <1>1, <1>3, <2>1
<1>7. k <= Len(q) /\ Len(c) = Len(q)
  BY <1>1, <1>2, <1>3, <1>4
<1>8. History(q, got, way \o w, c, S, TRUE)
  BY <1>1, <1>3, <1>5, <1>6, <1>7 DEF History, A
<1>9. QED BY <1>8 DEF q, c

LEMMA HistoryReceives ==
  ASSUME NEW sent, NEW got, NEW way, NEW bytes, NEW S, NEW full,
         History(sent, got, way, bytes, S, full),
         NEW e, e.rest # Short, way = <<>> => e.rest = Short,
         Len(got) < Len(sent) /\ Starts(way, bytes[Len(got) + 1])
            => Gets(e, way, bytes[Len(got) + 1], Arriving(sent[Len(got) + 1]))
  PROVE  /\ Len(got) < Len(sent) /\ e.v = Arriving(sent[Len(got) + 1])
         /\ History(sent, Append(got, e.v), e.rest, bytes, S, full)
         /\ Len(Append(got, e.v)) = Len(got) + 1
<1> DEFINE A == {Arriving(x) : x \in S}
           k == Len(got)
           n == Len(sent)
           x == Arriving(sent[k + 1])
           q == Append(got, e.v)
<1>1. /\ sent \in Seq(S) /\ got \in Seq(A) /\ k <= n /\ Len(bytes) = n
      /\ \A i \in 1..k : got[i] = Arriving(sent[i])
      /\ Carries(way, bytes, k, full)
  BY DEF History
<1>2. k \in Nat /\ n \in Nat
  BY <1>1, LenProperties
<1>3. k < Len(bytes) /\ e.v = x /\ Carries(e.rest, bytes, k + 1, full)
  <2>1. k < Len(bytes) /\ Starts(way, bytes[k + 1]) => Gets(e, way, bytes[k + 1], x)
    BY <1>1
  <2> HIDE DEF x, k
  <2>2. QED BY <1>1, <2>1, NextIsRead
<1>4. k < n /\ k + 1 \in 1..n
  BY <1>1, <1>2, <1>3
<1>5. x \in A
  <2>1. sent[k + 1] \in S
    BY <1>1, <1>4, ElementOfSeq
  <2>2. QED BY <2>1
<1> HIDE DEF A
<1>6. q \in Seq(A) /\ Len(q) = k + 1 /\ q[k + 1] = x /\ \A i \in 1..k : q[i] = got[i]
  BY <1>1, <1>3, <1>5, AppendProperties
<1> HIDE DEF q
<1>7. \A i \in 1..(k + 1) : q[i] = Arriving(sent[i])
  <2>1. \A i \in 1..(k + 1) : i = k + 1 \/ i \in 1..k
    BY <1>2
  <2>2. QED BY <1>1, <1>6, <2>1 DEF x
<1>8. Len(q) <= n
  BY <1>2, <1>4, <1>6
<1>9. History(sent, q, e.rest, bytes, S, full)
  BY <1>1, <1>3, <1>6, <1>7, <1>8 DEF History, A
<1>10. QED BY <1>3, <1>4, <1>6, <1>9 DEF q

LEMMA HistoryCut ==
  ASSUME NEW sent, NEW got, NEW way, NEW bytes, NEW S, NEW full,
         History(sent, got, way, bytes, S, full), NEW n \in 0..Len(way)
  PROVE  History(sent, got, SubSeq(way, 1, n), bytes, S, FALSE)
<1>1. Carries(way, bytes, Len(got), full)
  BY DEF History
<1>2. Carries(SubSeq(way, 1, n), bytes, Len(got), FALSE)
  BY <1>1, CarriesCut
<1>3. QED BY <1>2 DEF History

UpInv == History(sentToServer, gotByServer, toServer, AllUpBytes(sentToServer),
                 Requests \cup Commands, link = "up")
DownInv == History(sentToClient, gotByClient, toClient, AllDownBytes(sentToClient),
                   Answering \cup GameMessages, link = "up")

LEMMA ClientSendsIs ==
  ASSUME UpInv, NEW m \in Requests \cup Commands, ClientSends(m, UpBytes(m)), UNCHANGED link
  PROVE  UpInv' /\ UpChannel!Send
<1> DEFINE S == Requests \cup Commands
           b == AllUpBytes(sentToServer)
<1>1. UpBytes(m) \in Seq(Octet)
  BY RequestIs, CommandIs
<1>2. (link = "up") = TRUE /\ (link' = "up") = TRUE
  BY DEF ClientSends
<1>3. History(sentToServer, gotByServer, toServer, b, S, TRUE)
  BY <1>2 DEF UpInv
<1> HIDE DEF S
<1>4. m \in S
  BY DEF S
<1>5. sentToServer \in Seq(S)
  BY <1>3 DEF History
<1> HIDE DEF b
<1>6. History(Append(sentToServer, m), gotByServer, toServer \o UpBytes(m),
              Append(b, UpBytes(m)), S, TRUE)
  BY <1>1, <1>3, <1>4, HistorySends
<1>7. /\ AllUpBytes(Append(sentToServer, m)) = Append(b, UpBytes(m))
      /\ AllArriving(Append(sentToServer, m))
            = Append(AllArriving(sentToServer), Arriving(m))
  BY <1>5, OneMoreSent DEF b
<1>8. /\ sentToServer' = Append(sentToServer, m) /\ gotByServer' = gotByServer
      /\ toServer' = toServer \o UpBytes(m)
  BY DEF ClientSends
<1>9. UpInv'
  BY <1>2, <1>6, <1>7, <1>8 DEF UpInv, S
<1>10. AllArriving(sentToServer)' = Append(AllArriving(sentToServer), Arriving(m))
  BY <1>7, <1>8 DEF AllArriving
<1>11. UpChannel!Send
  <2>1. \E x \in {Arriving(r) : r \in Requests \cup Commands} :
           AllArriving(sentToServer)' = Append(AllArriving(sentToServer), x)
    BY <1>10
  <2>2. QED BY <1>8, <2>1 DEF UpChannel!Send, AllArriving
<1>12. QED BY <1>9, <1>11

LEMMA ServerSendsIs ==
  ASSUME DownInv, link = "up", NEW m \in Answering \cup GameMessages,
         ServerSends(m, DownBytes(m)), UNCHANGED link
  PROVE  DownInv' /\ DownChannel!Send
<1> DEFINE S == Answering \cup GameMessages
           b == AllDownBytes(sentToClient)
<1>1. DownBytes(m) \in Seq(Octet)
  BY AnswerIs, GameMessageIs
<1>2. (link = "up") = TRUE /\ (link' = "up") = TRUE
  OBVIOUS
<1>3. History(sentToClient, gotByClient, toClient, b, S, TRUE)
  BY <1>2 DEF DownInv
<1> HIDE DEF S
<1>4. m \in S
  BY DEF S
<1>5. sentToClient \in Seq(S)
  BY <1>3 DEF History
<1> HIDE DEF b
<1>6. History(Append(sentToClient, m), gotByClient, toClient \o DownBytes(m),
              Append(b, DownBytes(m)), S, TRUE)
  BY <1>1, <1>3, <1>4, HistorySends
<1>7. /\ AllDownBytes(Append(sentToClient, m)) = Append(b, DownBytes(m))
      /\ AllArriving(Append(sentToClient, m))
            = Append(AllArriving(sentToClient), Arriving(m))
  BY <1>5, OneMoreSent DEF b
<1>8. /\ sentToClient' = Append(sentToClient, m) /\ gotByClient' = gotByClient
      /\ toClient' = toClient \o DownBytes(m)
  BY DEF ServerSends
<1>9. DownInv'
  BY <1>2, <1>6, <1>7, <1>8 DEF DownInv, S
<1>10. AllArriving(sentToClient)' = Append(AllArriving(sentToClient), Arriving(m))
  BY <1>7, <1>8 DEF AllArriving
<1>11. DownChannel!Send
  <2>1. Answering \subseteq Answers
    BY DEF Answering
  <2>2. \E x \in {Arriving(r) : r \in Answers \cup GameMessages} :
           AllArriving(sentToClient)' = Append(AllArriving(sentToClient), x)
    BY <1>10, <2>1
  <2>3. QED BY <1>8, <2>2 DEF DownChannel!Send, AllArriving
<1>12. QED BY <1>9, <1>11

LEMMA ServerReceives ==
  ASSUME UpInv, NEW e, e.rest # Short, toServer = <<>> => e.rest = Short,
         Len(gotByServer) < Len(sentToServer) =>
            LET m == sentToServer[Len(gotByServer) + 1]
            IN  Starts(toServer, UpBytes(m)) => Gets(e, toServer, UpBytes(m), Arriving(m)),
         toServer' = e.rest, gotByServer' = Append(gotByServer, e.v),
         UNCHANGED <<sentToServer, link>>
  PROVE  /\ Len(gotByServer) < Len(sentToServer)
         /\ e.v = Arriving(sentToServer[Len(gotByServer) + 1])
         /\ Len(gotByServer') = Len(gotByServer) + 1
         /\ UpInv' /\ UpChannel!Receive
<1> DEFINE S == Requests \cup Commands
           b == AllUpBytes(sentToServer)
           k == Len(gotByServer)
           n == Len(sentToServer)
           full == link = "up"
<1>1. History(sentToServer, gotByServer, toServer, b, S, full)
  BY DEF UpInv
<1>2. k \in Nat /\ n \in Nat /\ DOMAIN sentToServer = 1..n
  BY <1>1, LenProperties DEF History
<1>3. k < n => k + 1 \in 1..n /\ b[k + 1] = UpBytes(sentToServer[k + 1])
  BY <1>2 DEF AllUpBytes
<1> HIDE DEF S, b, full
<1>4. k < n /\ Starts(toServer, b[k + 1])
         => Gets(e, toServer, b[k + 1], Arriving(sentToServer[k + 1]))
  BY <1>3
<1>5. /\ k < n /\ e.v = Arriving(sentToServer[k + 1])
      /\ History(sentToServer, Append(gotByServer, e.v), e.rest, b, S, full)
      /\ Len(Append(gotByServer, e.v)) = k + 1
  BY <1>1, <1>4, HistoryReceives
<1>6. UpInv'
  BY <1>5 DEF UpInv, S, b, full
<1>7. UpChannel!Receive
  <2>1. k + 1 \in DOMAIN sentToServer /\ DOMAIN AllArriving(sentToServer) = DOMAIN sentToServer
    BY <1>2, <1>3, <1>5 DEF AllArriving
  <2>2. AllArriving(sentToServer)[k + 1] = e.v /\ Len(AllArriving(sentToServer)) = n
    BY <1>2, <1>5, <2>1 DEF AllArriving
  <2>3. AllArriving(sentToServer)' = AllArriving(sentToServer)
    BY DEF AllArriving
  <2>4. gotByServer' = Append(gotByServer, AllArriving(sentToServer)[k + 1])
    BY <2>2
  <2> HIDE DEF n
  <2>5. QED BY <1>5, <2>2, <2>3, <2>4 DEF UpChannel!Receive, AllArriving
<1>8. QED BY <1>5, <1>6, <1>7

LEMMA ClientReceives ==
  ASSUME DownInv, NEW e, e.rest # Short, toClient = <<>> => e.rest = Short,
         Len(gotByClient) < Len(sentToClient) =>
            LET m == sentToClient[Len(gotByClient) + 1]
            IN  Starts(toClient, DownBytes(m)) => Gets(e, toClient, DownBytes(m), Arriving(m)),
         toClient' = e.rest, gotByClient' = Append(gotByClient, e.v),
         UNCHANGED <<sentToClient, link>>
  PROVE  /\ Len(gotByClient) < Len(sentToClient)
         /\ e.v = Arriving(sentToClient[Len(gotByClient) + 1])
         /\ Len(gotByClient') = Len(gotByClient) + 1
         /\ DownInv' /\ DownChannel!Receive
<1> DEFINE S == Answering \cup GameMessages
           b == AllDownBytes(sentToClient)
           k == Len(gotByClient)
           n == Len(sentToClient)
           full == link = "up"
<1>1. History(sentToClient, gotByClient, toClient, b, S, full)
  BY DEF DownInv
<1>2. k \in Nat /\ n \in Nat /\ DOMAIN sentToClient = 1..n
  BY <1>1, LenProperties DEF History
<1>3. k < n => k + 1 \in 1..n /\ b[k + 1] = DownBytes(sentToClient[k + 1])
  BY <1>2 DEF AllDownBytes
<1> HIDE DEF S, b, full
<1>4. k < n /\ Starts(toClient, b[k + 1])
         => Gets(e, toClient, b[k + 1], Arriving(sentToClient[k + 1]))
  BY <1>3
<1>5. /\ k < n /\ e.v = Arriving(sentToClient[k + 1])
      /\ History(sentToClient, Append(gotByClient, e.v), e.rest, b, S, full)
      /\ Len(Append(gotByClient, e.v)) = k + 1
  BY <1>1, <1>4, HistoryReceives
<1>6. DownInv'
  BY <1>5 DEF DownInv, S, b, full
<1>7. DownChannel!Receive
  <2>1. k + 1 \in DOMAIN sentToClient /\ DOMAIN AllArriving(sentToClient) = DOMAIN sentToClient
    BY <1>2, <1>3, <1>5 DEF AllArriving
  <2>2. AllArriving(sentToClient)[k + 1] = e.v /\ Len(AllArriving(sentToClient)) = n
    BY <1>2, <1>5, <2>1 DEF AllArriving
  <2>3. AllArriving(sentToClient)' = AllArriving(sentToClient)
    BY DEF AllArriving
  <2>4. gotByClient' = Append(gotByClient, AllArriving(sentToClient)[k + 1])
    BY <2>2
  <2> HIDE DEF n
  <2>5. QED BY <1>5, <2>2, <2>3, <2>4 DEF DownChannel!Receive, AllArriving
<1>8. QED BY <1>5, <1>6, <1>7

\* What an end reads while what is on its way is of the kind it expects.
LEMMA RequestReceived ==
  ASSUME UpInv, NEW r, r = ReadRequest(toServer), r.rest # Short,
         Len(gotByServer) < Len(sentToServer) =>
            sentToServer[Len(gotByServer) + 1] \in Requests,
         toServer' = r.rest, gotByServer' = Append(gotByServer, r.v),
         UNCHANGED <<sentToServer, link>>
  PROVE  /\ Len(gotByServer) < Len(sentToServer) /\ r.v \in AllRequests
         /\ Len(gotByServer') = Len(gotByServer) + 1
         /\ UpInv' /\ UpChannel!Receive
<1> DEFINE m == sentToServer[Len(gotByServer) + 1]
<1>1. toServer \in Streams
  BY DEF UpInv, History, Carries, Streams
<1>2. toServer = <<>> => r.rest = Short
  BY NothingRead
<1>3. m \in Requests => /\ m \in AllRequests /\ Arriving(m) = m
                        /\ Starts(toServer, UpBytes(m)) => Gets(r, toServer, UpBytes(m), m)
  BY <1>1, RequestIs, RequestRead
<1>4. Len(gotByServer) < Len(sentToServer) =>
         (Starts(toServer, UpBytes(m)) => Gets(r, toServer, UpBytes(m), Arriving(m)))
  BY <1>3
<1>5. /\ Len(gotByServer) < Len(sentToServer) /\ r.v = Arriving(m)
      /\ Len(gotByServer') = Len(gotByServer) + 1
      /\ UpInv' /\ UpChannel!Receive
  BY <1>2, <1>4, ServerReceives
<1>6. QED BY <1>3, <1>5

LEMMA CommandReceived ==
  ASSUME UpInv, NEW c, c = ReadCommand(toServer), c.rest # Short,
         Len(gotByServer) < Len(sentToServer) =>
            sentToServer[Len(gotByServer) + 1] \in Commands,
         toServer' = c.rest, gotByServer' = Append(gotByServer, c.v),
         UNCHANGED <<sentToServer, link>>
  PROVE  /\ Len(gotByServer') = Len(gotByServer) + 1
         /\ UpInv' /\ UpChannel!Receive
<1> DEFINE m == sentToServer[Len(gotByServer) + 1]
<1>1. toServer \in Streams
  BY DEF UpInv, History, Carries, Streams
<1>2. toServer = <<>> => c.rest = Short
  BY NothingRead
<1>3. m \in Commands =>
         (Starts(toServer, UpBytes(m)) => Gets(c, toServer, UpBytes(m), Arriving(m)))
  BY <1>1, CommandIs, CommandRead
<1>4. Len(gotByServer) < Len(sentToServer) =>
         (Starts(toServer, UpBytes(m)) => Gets(c, toServer, UpBytes(m), Arriving(m)))
  BY <1>3
<1>5. QED BY <1>2, <1>4, ServerReceives

LEMMA AnswerReceived ==
  ASSUME DownInv, NEW a, a = ReadAnswer(toClient), a.rest # Short,
         Len(gotByClient) < Len(sentToClient) =>
            sentToClient[Len(gotByClient) + 1] \in Answering,
         toClient' = a.rest, gotByClient' = Append(gotByClient, a.v),
         UNCHANGED <<sentToClient, link>>
  PROVE  /\ Len(gotByClient) < Len(sentToClient)
         /\ a.v = sentToClient[Len(gotByClient) + 1]
         /\ Len(gotByClient') = Len(gotByClient) + 1
         /\ DownInv' /\ DownChannel!Receive
<1> DEFINE m == sentToClient[Len(gotByClient) + 1]
<1>1. toClient \in Streams
  BY DEF DownInv, History, Carries, Streams
<1>2. toClient = <<>> => a.rest = Short
  BY NothingRead
<1>3. m \in Answering =>
         /\ Arriving(m) = m
         /\ Starts(toClient, DownBytes(m)) => Gets(a, toClient, DownBytes(m), m)
  <2>1. m \in Answering => /\ m \in Answers /\ DownBytes(m) = WriteAnswer(m)
                           /\ Arriving(m) = m /\ (m.type # "create_game" => m.name = <<>>)
    BY AnswerIs DEF Answering
  <2>2. QED BY <1>1, <2>1, AnswerRead
<1>4. Len(gotByClient) < Len(sentToClient) =>
         (Starts(toClient, DownBytes(m)) => Gets(a, toClient, DownBytes(m), Arriving(m)))
  BY <1>3
<1>5. /\ Len(gotByClient) < Len(sentToClient) /\ a.v = Arriving(m)
      /\ Len(gotByClient') = Len(gotByClient) + 1
      /\ DownInv' /\ DownChannel!Receive
  BY <1>2, <1>4, ClientReceives
<1>6. QED BY <1>3, <1>5

LEMMA GameMessageReceived ==
  ASSUME DownInv, NEW e, e = ReadGameMessage(toClient), e.rest # Short,
         Len(gotByClient) < Len(sentToClient) =>
            sentToClient[Len(gotByClient) + 1] \in GameMessages,
         toClient' = e.rest, gotByClient' = Append(gotByClient, e.v),
         UNCHANGED <<sentToClient, link>>
  PROVE  /\ Len(gotByClient') = Len(gotByClient) + 1
         /\ DownInv' /\ DownChannel!Receive
<1> DEFINE m == sentToClient[Len(gotByClient) + 1]
<1>1. toClient \in Streams
  BY DEF DownInv, History, Carries, Streams
<1>2. toClient = <<>> => e.rest = Short
  BY NothingRead
<1>3. m \in GameMessages =>
         (Starts(toClient, DownBytes(m)) => Gets(e, toClient, DownBytes(m), Arriving(m)))
  BY <1>1, GameMessageIs, GameMessageRead
<1>4. Len(gotByClient) < Len(sentToClient) =>
         (Starts(toClient, DownBytes(m)) => Gets(e, toClient, DownBytes(m), Arriving(m)))
  BY <1>3
<1>5. QED BY <1>2, <1>4, ClientReceives

LEMMA LinkLost ==
  ASSUME UpInv, DownInv, LoseLink
  PROVE  UpInv' /\ DownInv'
<1>1. PICK n \in 0..Len(toServer), k \in 0..Len(toClient) :
         toServer' = SubSeq(toServer, 1, n) /\ toClient' = SubSeq(toClient, 1, k)
  BY DEF LoseLink
<1>2. /\ (link' = "up") = FALSE
      /\ UNCHANGED <<sentToServer, gotByServer, sentToClient, gotByClient>>
  BY DEF LoseLink
<1>3. UpInv'
  <2> DEFINE S == Requests \cup Commands
             b == AllUpBytes(sentToServer)
             full == link = "up"
  <2>1. History(sentToServer, gotByServer, toServer, b, S, full)
    BY DEF UpInv
  <2> HIDE DEF S, b, full
  <2>2. History(sentToServer, gotByServer, SubSeq(toServer, 1, n), b, S, FALSE)
    BY <2>1, HistoryCut
  <2>3. QED BY <1>1, <1>2, <2>2 DEF UpInv, S, b
<1>4. DownInv'
  <2> DEFINE S == Answering \cup GameMessages
             b == AllDownBytes(sentToClient)
             full == link = "up"
  <2>1. History(sentToClient, gotByClient, toClient, b, S, full)
    BY DEF DownInv
  <2> HIDE DEF S, b, full
  <2>2. History(sentToClient, gotByClient, SubSeq(toClient, 1, k), b, S, FALSE)
    BY <2>1, HistoryCut
  <2>3. QED BY <1>1, <1>2, <2>2 DEF DownInv, S, b
<1>5. QED BY <1>3, <1>4

-----------------------------------------------------------------------------
(***************************************************************************)
(* What an end may still be told agrees with what it is waiting for.       *)
(***************************************************************************)
OnTheirWay(sent, got, S) == \A i \in (Len(got) + 1)..Len(sent) : sent[i] \in S

\* Of an asking client: its request is not answered yet, or it is refused (or
\* was only for a name), or it has let the client into a game.
Unanswered ==
    /\ Len(sentToClient) = Len(gotByClient) /\ server \in {"lobby", "over"}
    /\ server = "lobby" => Len(sentToServer) = Len(gotByServer) + 1

NextAnswer == sentToClient[Len(gotByClient) + 1]

NotLetIn ==
    /\ Len(sentToClient) = Len(gotByClient) + 1 /\ server \in {"lobby", "over"}
    /\ server = "lobby" => Len(sentToServer) = Len(gotByServer)
    /\ NextAnswer \in Answering /\ ~Entered(NextAnswer.type, NextAnswer.status)

LetIn ==
    /\ Len(sentToClient) > Len(gotByClient) /\ server # "lobby"
    /\ NextAnswer \in Answering /\ Entered(NextAnswer.type, NextAnswer.status)
    /\ \A i \in (Len(gotByClient) + 2)..Len(sentToClient) : sentToClient[i] \in GameMessages

ServerExpects ==
    /\ server = "lobby" =>
          /\ Len(sentToServer) <= Len(gotByServer) + 1
          /\ OnTheirWay(sentToServer, gotByServer, Requests)
          /\ Len(sentToServer) = Len(gotByServer) + 1 => client \in {"asking", "over"}
    /\ server \in {"playing", "ended"} => OnTheirWay(sentToServer, gotByServer, Commands)

ClientExpects ==
    /\ client = "lobby" => Len(sentToClient) = Len(gotByClient) /\ server \in {"lobby", "over"}
    /\ client = "asking" => Unanswered \/ NotLetIn \/ LetIn
    /\ client = "playing" =>
          server # "lobby" /\ OnTheirWay(sentToClient, gotByClient, GameMessages)

WireInv == UpInv /\ DownInv /\ ServerExpects /\ ClientExpects

UpStep == [UpChannel!Next]_<<AllArriving(sentToServer), gotByServer>>
DownStep == [DownChannel!Next]_<<AllArriving(sentToClient), gotByClient>>

LEMMA LengthsAre ==
  ASSUME UpInv, DownInv
  PROVE  /\ Len(sentToServer) \in Nat /\ Len(gotByServer) \in Nat
         /\ Len(gotByServer) <= Len(sentToServer)
         /\ Len(sentToClient) \in Nat /\ Len(gotByClient) \in Nat
         /\ Len(gotByClient) <= Len(sentToClient)
         /\ sentToServer \in Seq(Requests \cup Commands)
         /\ sentToClient \in Seq(Answering \cup GameMessages)
  BY LenProperties DEF UpInv, DownInv, History

LEMMA MoreOnTheirWay ==
  ASSUME NEW T, NEW sent \in Seq(T), NEW got, Len(got) \in Nat, NEW S, NEW m \in S,
         OnTheirWay(sent, got, S)
  PROVE  OnTheirWay(Append(sent, m), got, S)
<1>1. /\ Len(sent) \in Nat /\ Len(Append(sent, m)) = Len(sent) + 1
      /\ \A i \in 1..Len(sent) : Append(sent, m)[i] = sent[i]
      /\ Append(sent, m)[Len(sent) + 1] = m
  BY LenProperties
<1>2. QED BY <1>1 DEF OnTheirWay

LEMMA LessOnTheirWay ==
  ASSUME NEW sent, NEW got, NEW q, Len(got) \in Nat, Len(q) = Len(got) + 1,
         Len(sent) \in Nat, NEW S, OnTheirWay(sent, got, S)
  PROVE  OnTheirWay(sent, q, S)
  BY DEF OnTheirWay

LEMMA NoneOnTheirWay ==
  ASSUME NEW sent, NEW got, Len(got) \in Nat, Len(sent) \in Nat, Len(sent) <= Len(got), NEW S
  PROVE  OnTheirWay(sent, got, S)
  BY DEF OnTheirWay

LEMMA NextOnItsWay ==
  ASSUME NEW sent, NEW got, Len(got) \in Nat, Len(sent) \in Nat, NEW S,
         OnTheirWay(sent, got, S), Len(got) < Len(sent)
  PROVE  sent[Len(got) + 1] \in S
  BY DEF OnTheirWay

\* One direction is left alone.
LEMMA UpStays ==
  ASSUME UpInv, UNCHANGED <<upVars, link>>
  PROVE  UpInv' /\ UpStep
<1>1. UNCHANGED <<toServer, sentToServer, gotByServer, link>>
  BY DEF upVars
<1>2. UpInv'
  BY <1>1 DEF UpInv, AllUpBytes
<1>3. UNCHANGED <<AllArriving(sentToServer), gotByServer>>
  BY <1>1 DEF AllArriving
<1>4. QED BY <1>2, <1>3 DEF UpStep

LEMMA DownStays ==
  ASSUME DownInv, UNCHANGED <<downVars, link>>
  PROVE  DownInv' /\ DownStep
<1>1. UNCHANGED <<toClient, sentToClient, gotByClient, link>>
  BY DEF downVars
<1>2. DownInv'
  BY <1>1 DEF DownInv, AllDownBytes
<1>3. UNCHANGED <<AllArriving(sentToClient), gotByClient>>
  BY <1>1 DEF AllArriving
<1>4. QED BY <1>2, <1>3 DEF DownStep

LEMMA RequestSent ==
  ASSUME WireInv, SendRequest
  PROVE  WireInv' /\ UpStep /\ DownStep
<1>1. PICK r \in Requests : ClientSends(r, WriteRequest(r))
  BY DEF SendRequest
<1>2. /\ client = "lobby" /\ client' = "asking" /\ UNCHANGED <<server, link, downVars>>
  BY DEF SendRequest
<1>3. UpInv' /\ UpChannel!Send
  BY <1>1, <1>2, RequestIs, ClientSendsIs DEF WireInv
<1>4. DownInv' /\ DownStep
  BY <1>2, DownStays DEF WireInv
<1> DEFINE n == Len(sentToServer)
           k == Len(gotByServer)
<1>5. /\ sentToServer' = Append(sentToServer, r) /\ gotByServer' = gotByServer
      /\ UNCHANGED <<sentToClient, gotByClient>>
  BY <1>1, <1>2 DEF ClientSends, downVars
<1>6. n \in Nat /\ k \in Nat /\ k <= n /\ sentToServer \in Seq(Requests \cup Commands)
  BY LengthsAre DEF WireInv
<1>7. n' = n + 1 /\ k' = k
  BY <1>5, <1>6, AppendProperties
<1>8. Len(sentToClient) = Len(gotByClient) /\ server \in {"lobby", "over"}
      /\ (server = "lobby" => OnTheirWay(sentToServer, gotByServer, Requests) /\ n = k)
  BY <1>2, <1>6 DEF WireInv, ServerExpects, ClientExpects
<1>9. ServerExpects'
  <2>1. server = "lobby" => OnTheirWay(sentToServer, gotByServer, Requests)'
    BY <1>5, <1>6, <1>8, MoreOnTheirWay
  <2>2. server' = server /\ server' \notin {"playing", "ended"}
    BY <1>2, <1>8
  <2>3. QED BY <1>2, <1>6, <1>7, <1>8, <2>1, <2>2 DEF ServerExpects
<1>10. ClientExpects'
  <2>1. Unanswered'
    BY <1>2, <1>5, <1>7, <1>8 DEF Unanswered
  <2>2. QED BY <1>2, <2>1 DEF ClientExpects
<1>11. UpStep
  BY <1>3 DEF UpStep, UpChannel!Next
<1>12. QED BY <1>3, <1>4, <1>9, <1>10, <1>11 DEF WireInv

LEMMA CommandSent ==
  ASSUME WireInv, SendCommand
  PROVE  WireInv' /\ UpStep /\ DownStep
<1>1. PICK c \in Commands : ClientSends(c, WriteCommand(c))
  BY DEF SendCommand
<1>2. client = "playing" /\ UNCHANGED <<client, server, link, downVars>>
  BY DEF SendCommand
<1>3. UpInv' /\ UpChannel!Send
  BY <1>1, <1>2, CommandIs, ClientSendsIs DEF WireInv
<1>4. DownInv' /\ DownStep
  BY <1>2, DownStays DEF WireInv
<1>5. /\ sentToServer' = Append(sentToServer, c) /\ gotByServer' = gotByServer
      /\ UNCHANGED <<sentToClient, gotByClient>>
  BY <1>1, <1>2 DEF ClientSends, downVars
<1>6. Len(gotByServer) \in Nat /\ sentToServer \in Seq(Requests \cup Commands)
  BY LengthsAre DEF WireInv
<1>7. server # "lobby" /\ OnTheirWay(sentToClient, gotByClient, GameMessages)
  BY <1>2 DEF WireInv, ClientExpects
<1>8. ServerExpects'
  <2>1. server \in {"playing", "ended"} => OnTheirWay(sentToServer, gotByServer, Commands)'
    <3>1. server \in {"playing", "ended"} => OnTheirWay(sentToServer, gotByServer, Commands)
      BY DEF WireInv, ServerExpects
    <3>2. QED BY <1>5, <1>6, <3>1, MoreOnTheirWay
  <2>2. server' = server
    BY <1>2
  <2>3. QED BY <1>7, <2>1, <2>2 DEF ServerExpects
<1>9. ClientExpects'
  BY <1>2, <1>5, <1>7 DEF ClientExpects, OnTheirWay
<1>10. UpStep
  BY <1>3 DEF UpStep, UpChannel!Next
<1>11. QED BY <1>3, <1>4, <1>8, <1>9, <1>10 DEF WireInv

LEMMA CommandStep ==
  ASSUME WireInv, ReceiveCommand
  PROVE  WireInv' /\ UpStep /\ DownStep
<1> DEFINE c == ReadCommand(toServer)
<1>1. /\ server \in {"playing", "ended"} /\ c.rest # Short
      /\ toServer' = c.rest /\ gotByServer' = Append(gotByServer, c.v)
      /\ UNCHANGED <<client, server, link, sentToServer, downVars>>
  BY DEF ReceiveCommand
<1>2. /\ Len(sentToServer) \in Nat /\ Len(gotByServer) \in Nat
      /\ OnTheirWay(sentToServer, gotByServer, Commands)
  BY <1>1, LengthsAre DEF WireInv, ServerExpects
<1>3. Len(gotByServer) < Len(sentToServer)
         => sentToServer[Len(gotByServer) + 1] \in Commands
  BY <1>2, NextOnItsWay
<1> HIDE DEF c
<1>4. Len(gotByServer') = Len(gotByServer) + 1 /\ UpInv' /\ UpChannel!Receive
  <2>1. c = ReadCommand(toServer)
    BY DEF c
  <2>2. QED BY <1>1, <1>3, <2>1, CommandReceived DEF WireInv
<1>5. DownInv' /\ DownStep
  BY <1>1, DownStays DEF WireInv
<1>6. ServerExpects'
  <2>1. OnTheirWay(sentToServer, gotByServer', Commands)
    BY <1>2, <1>4, LessOnTheirWay
  <2>2. QED BY <1>1, <2>1 DEF ServerExpects, OnTheirWay
<1>7. ClientExpects'
  BY <1>1 DEF WireInv, ClientExpects, Unanswered, NotLetIn, LetIn, NextAnswer, OnTheirWay,
              downVars
<1>8. UpStep
  BY <1>4 DEF UpStep, UpChannel!Next
<1>9. QED BY <1>4, <1>5, <1>6, <1>7, <1>8 DEF WireInv

LEMMA GameMessageSent ==
  ASSUME WireInv, SendGameMessage
  PROVE  WireInv' /\ UpStep /\ DownStep
<1>1. PICK m \in GameMessages :
         /\ ServerSends(m, WriteGameMessage(m))
         /\ server' = IF m.type = "ended" THEN "ended" ELSE server
  BY DEF SendGameMessage
<1>2. server = "playing" /\ link = "up" /\ UNCHANGED <<client, link, upVars>>
  BY DEF SendGameMessage
<1>3. DownInv' /\ DownChannel!Send
  BY <1>1, <1>2, GameMessageIs, ServerSendsIs DEF WireInv
<1>4. UpInv' /\ UpStep
  BY <1>2, UpStays DEF WireInv
<1> DEFINE n == Len(sentToClient)
           k == Len(gotByClient)
<1>5. /\ sentToClient' = Append(sentToClient, m) /\ gotByClient' = gotByClient
      /\ UNCHANGED <<sentToServer, gotByServer>>
  BY <1>1, <1>2 DEF ServerSends, upVars
<1>6. n \in Nat /\ k \in Nat /\ k <= n /\ sentToClient \in Seq(Answering \cup GameMessages)
  BY LengthsAre DEF WireInv
<1>7. /\ n' = n + 1 /\ k' = k /\ sentToClient'[n + 1] = m
      /\ \A i \in 1..n : sentToClient'[i] = sentToClient[i]
  BY <1>5, <1>6, AppendProperties
<1>8. server' \in {"playing", "ended"}
  BY <1>1, <1>2
<1>9. ServerExpects'
  <2>1. OnTheirWay(sentToServer, gotByServer, Commands)
    BY <1>2 DEF WireInv, ServerExpects
  <2>2. QED BY <1>5, <1>8, <2>1 DEF ServerExpects, OnTheirWay
<1>10. ClientExpects'
  <2>1. client # "lobby"
    BY <1>2 DEF WireInv, ClientExpects
  <2>2. client = "asking" => LetIn'
    <3>1. SUFFICES ASSUME client = "asking" PROVE LetIn'
      OBVIOUS
    <3>2. LetIn
      BY <1>2, <3>1 DEF WireInv, ClientExpects, Unanswered, NotLetIn
    <3>3. n > k /\ NextAnswer \in Answering /\ Entered(NextAnswer.type, NextAnswer.status)
          /\ \A i \in (k + 2)..n : sentToClient[i] \in GameMessages
      BY <3>2 DEF LetIn
    <3>4. NextAnswer' = NextAnswer
      BY <1>5, <1>6, <1>7, <3>3 DEF NextAnswer
    <3>5. \A i \in (k' + 2)..n' : sentToClient'[i] \in GameMessages
      BY <1>6, <1>7, <3>3
    <3>6. (Entered(NextAnswer.type, NextAnswer.status))'
      BY <3>3, <3>4 DEF Entered
    <3>7. n' > k' /\ server' # "lobby"
      BY <1>6, <1>7, <1>8, <3>3
    <3>8. QED BY <3>3, <3>4, <3>5, <3>6, <3>7 DEF LetIn
  <2>3. client = "playing" => OnTheirWay(sentToClient, gotByClient, GameMessages)'
    <3>1. client = "playing" => OnTheirWay(sentToClient, gotByClient, GameMessages)
      BY DEF WireInv, ClientExpects
    <3>2. QED BY <1>5, <1>6, <3>1, MoreOnTheirWay
  <2>4. client' = client
    BY <1>2
  <2>5. QED BY <1>8, <2>1, <2>2, <2>3, <2>4 DEF ClientExpects
<1>11. DownStep
  BY <1>3 DEF DownStep, DownChannel!Next
<1>12. QED BY <1>3, <1>4, <1>9, <1>10, <1>11 DEF WireInv

LEMMA GameMessageStep ==
  ASSUME WireInv, ReceiveGameMessage
  PROVE  WireInv' /\ UpStep /\ DownStep
<1> DEFINE e == ReadGameMessage(toClient)
<1>1. /\ client = "playing" /\ e.rest # Short
      /\ toClient' = e.rest /\ gotByClient' = Append(gotByClient, e.v)
      /\ UNCHANGED <<client, server, link, upVars, sentToClient>>
  BY DEF ReceiveGameMessage
<1>2. /\ Len(sentToClient) \in Nat /\ Len(gotByClient) \in Nat
      /\ OnTheirWay(sentToClient, gotByClient, GameMessages) /\ server # "lobby"
  BY <1>1, LengthsAre DEF WireInv, ClientExpects
<1>3. Len(gotByClient) < Len(sentToClient)
         => sentToClient[Len(gotByClient) + 1] \in GameMessages
  BY <1>2, NextOnItsWay
<1> HIDE DEF e
<1>4. Len(gotByClient') = Len(gotByClient) + 1 /\ DownInv' /\ DownChannel!Receive
  <2>1. e = ReadGameMessage(toClient)
    BY DEF e
  <2>2. QED BY <1>1, <1>3, <2>1, GameMessageReceived DEF WireInv
<1>5. UpInv' /\ UpStep
  BY <1>1, UpStays DEF WireInv
<1>6. ClientExpects'
  <2>1. OnTheirWay(sentToClient, gotByClient', GameMessages)
    BY <1>2, <1>4, LessOnTheirWay
  <2>2. QED BY <1>1, <1>2, <2>1 DEF ClientExpects, OnTheirWay
<1>7. ServerExpects'
  BY <1>1 DEF WireInv, ServerExpects, OnTheirWay, upVars
<1>8. DownStep
  BY <1>4 DEF DownStep, DownChannel!Next
<1>9. QED BY <1>4, <1>5, <1>6, <1>7, <1>8 DEF WireInv

LEMMA AnswerStep ==
  ASSUME WireInv, ReceiveAnswer
  PROVE  WireInv' /\ UpStep /\ DownStep
<1> DEFINE a == ReadAnswer(toClient)
           n == Len(sentToClient)
           k == Len(gotByClient)
<1>1. /\ client = "asking" /\ a.rest # Short
      /\ toClient' = a.rest /\ gotByClient' = Append(gotByClient, a.v)
      /\ client' = IF Entered(a.v.type, a.v.status) THEN "playing" ELSE "lobby"
      /\ UNCHANGED <<server, link, upVars, sentToClient>>
  BY DEF ReceiveAnswer
<1>2. n \in Nat /\ k \in Nat /\ Len(sentToServer) \in Nat /\ Len(gotByServer) \in Nat
  BY LengthsAre DEF WireInv
<1>3. k < n => NotLetIn \/ LetIn
  BY <1>1, <1>2 DEF WireInv, ClientExpects, Unanswered
<1>4. k < n => sentToClient[k + 1] \in Answering
  BY <1>3 DEF NotLetIn, LetIn, NextAnswer
<1> HIDE DEF a
<1>5. k < n /\ a.v = NextAnswer /\ k' = k + 1 /\ DownInv' /\ DownChannel!Receive
  <2>1. a = ReadAnswer(toClient)
    BY DEF a
  <2>2. QED BY <1>1, <1>4, <2>1, AnswerReceived DEF WireInv, NextAnswer
<1>6. UpInv' /\ UpStep
  BY <1>1, UpStays DEF WireInv
<1>7. UNCHANGED <<sentToServer, gotByServer, sentToClient, server>>
  BY <1>1 DEF upVars
<1>8. ASSUME NotLetIn PROVE ServerExpects' /\ ClientExpects'
  <2>1. /\ n = k + 1 /\ server \in {"lobby", "over"} /\ client' = "lobby"
        /\ server = "lobby" => Len(sentToServer) = Len(gotByServer)
    BY <1>1, <1>5, <1>8 DEF NotLetIn
  <2>2. ClientExpects'
    BY <1>5, <1>7, <2>1 DEF ClientExpects
  <2>3. server = "lobby" => OnTheirWay(sentToServer, gotByServer, Requests)
    BY DEF WireInv, ServerExpects
  <2>4. ServerExpects'
    <3>1. server = "lobby" => /\ Len(sentToServer) <= Len(gotByServer) + 1
                              /\ Len(sentToServer) # Len(gotByServer) + 1
      BY <1>2, <2>1
    <3>2. server \notin {"playing", "ended"}
      BY <2>1
    <3>3. QED BY <1>7, <2>3, <3>1, <3>2 DEF ServerExpects, OnTheirWay
  <2>5. QED BY <2>2, <2>4
<1>9. ASSUME LetIn PROVE ServerExpects' /\ ClientExpects'
  <2>1. /\ server # "lobby" /\ client' = "playing"
        /\ \A i \in (k + 2)..n : sentToClient[i] \in GameMessages
    BY <1>1, <1>5, <1>9 DEF LetIn
  <2>2. OnTheirWay(sentToClient, gotByClient', GameMessages)
    <3>1. k' + 1 = k + 2
      BY <1>2, <1>5
    <3>2. QED BY <2>1, <3>1 DEF OnTheirWay
  <2>3. ClientExpects'
    BY <1>7, <2>1, <2>2 DEF ClientExpects, OnTheirWay
  <2>4. ServerExpects'
    <3>1. server \in {"playing", "ended"} => OnTheirWay(sentToServer, gotByServer, Commands)
      BY DEF WireInv, ServerExpects
    <3>2. server' # "lobby"
      BY <1>7, <2>1
    <3>3. QED BY <1>7, <3>1, <3>2 DEF ServerExpects, OnTheirWay
  <2>5. QED BY <2>3, <2>4
<1>10. DownStep
  BY <1>5 DEF DownStep, DownChannel!Next
<1>11. QED BY <1>3, <1>5, <1>6, <1>8, <1>9, <1>10 DEF WireInv

\* The handler answers a request it has read.
LEMMA RequestAnswered ==
  ASSUME WireInv, HandleRequest, link = "up"
  PROVE  WireInv' /\ UpStep /\ DownStep
<1> DEFINE r == ReadRequest(toServer)
           n == Len(sentToServer)
           k == Len(gotByServer)
           p == Len(sentToClient)
           q == Len(gotByClient)
           Name(status) == IF r.v.type = "create_game" /\ status = Success
                           THEN NewGameName ELSE <<>>
           Answer(status) == [type |-> r.v.type, status |-> status, name |-> Name(status)]
<1>1. /\ server = "lobby" /\ r.rest # Short
      /\ toServer' = r.rest /\ gotByServer' = Append(gotByServer, r.v)
      /\ UNCHANGED <<client, link, sentToServer>>
  BY DEF HandleRequest
<1>2. PICK status \in {Success} \cup Refusals :
         /\ ServerSends(Answer(status), WriteAnswer(Answer(status)))
         /\ server' = IF Entered(r.v.type, status) THEN "playing" ELSE "lobby"
  BY DEF HandleRequest
<1> DEFINE a == Answer(status)
<1>3. /\ n \in Nat /\ k \in Nat /\ p \in Nat /\ q \in Nat /\ q <= p
      /\ sentToClient \in Seq(Answering \cup GameMessages)
      /\ n <= k + 1 /\ OnTheirWay(sentToServer, gotByServer, Requests)
      /\ (n = k + 1 => client \in {"asking", "over"})
  BY <1>1, LengthsAre DEF WireInv, ServerExpects
<1>4. k < n => sentToServer[k + 1] \in Requests
  BY <1>3, NextOnItsWay
<1>5. k < n /\ r.v \in AllRequests /\ k' = k + 1 /\ UpInv' /\ UpChannel!Receive
  <2>1. r = ReadRequest(toServer)
    OBVIOUS
  <2> HIDE DEF r
  <2>2. QED BY <1>1, <1>4, <2>1, RequestReceived DEF WireInv
<1>6. a \in Answering /\ a.type = r.v.type /\ a.status = status
  <2>1. r.v.type \in DOMAIN RequestCode
    BY <1>5 DEF AllRequests
  <2> HIDE DEF r
  <2>2. QED BY <2>1 DEF Answering, Answers
<1> HIDE DEF r, Answer
<1>7. DownInv' /\ DownChannel!Send
  BY <1>1, <1>2, <1>6, AnswerIs, ServerSendsIs DEF WireInv
<1>8. sentToClient' = Append(sentToClient, a) /\ gotByClient' = gotByClient
  BY <1>2 DEF ServerSends
<1>9. p' = p + 1 /\ q' = q /\ sentToClient'[p + 1] = a
  BY <1>3, <1>8, AppendProperties
<1>10. n = k + 1 /\ n' = n /\ server' \in {"lobby", "playing"}
  BY <1>1, <1>2, <1>3, <1>5
<1>11. ServerExpects'
  <2>1. OnTheirWay(sentToServer', gotByServer', Requests)
        /\ OnTheirWay(sentToServer', gotByServer', Commands)
    BY <1>3, <1>5, <1>10, NoneOnTheirWay
  <2>2. n' <= k' + 1 /\ n' # k' + 1
    BY <1>3, <1>5, <1>10
  <2>3. QED BY <1>10, <2>1, <2>2 DEF ServerExpects
<1>12. ClientExpects'
  <2>1. client \in {"asking", "over"} /\ client' = client
    BY <1>1, <1>3, <1>10
  <2>2. client = "asking" => p = q
    BY <1>1, <1>3, <1>10 DEF WireInv, ClientExpects, Unanswered, NotLetIn, LetIn
  <2>3. client = "asking" => NotLetIn' \/ LetIn'
    <3>1. SUFFICES ASSUME client = "asking" PROVE NotLetIn' \/ LetIn'
      OBVIOUS
    <3>2. NextAnswer' = a /\ p' = q' + 1
      BY <1>3, <1>9, <2>2, <3>1 DEF NextAnswer
    <3>3. (Entered(NextAnswer.type, NextAnswer.status))' <=> Entered(r.v.type, status)
      BY <1>6, <3>2 DEF Entered
    <3>4. CASE Entered(r.v.type, status)
      <4>1. server' = "playing" /\ p' > q' /\ NextAnswer' \in Answering
        BY <1>2, <1>3, <1>6, <1>9, <3>2, <3>4
      <4>2. \A i \in (q' + 2)..p' : sentToClient'[i] \in GameMessages
        BY <1>3, <1>9, <3>2
      <4>3. LetIn'
        BY <3>3, <3>4, <4>1, <4>2 DEF LetIn
      <4>4. QED BY <4>3
    <3>5. CASE ~Entered(r.v.type, status)
      <4>1. server' = "lobby" /\ n' = k' /\ NextAnswer' \in Answering
        BY <1>2, <1>5, <1>6, <1>10, <3>2, <3>5
      <4>2. NotLetIn'
        BY <3>2, <3>3, <3>5, <4>1 DEF NotLetIn
      <4>3. QED BY <4>2
    <3>6. QED BY <3>4, <3>5
  <2>4. QED BY <2>1, <2>3 DEF ClientExpects
<1>13. UpStep /\ DownStep
  BY <1>5, <1>7 DEF UpStep, DownStep, UpChannel!Next, DownChannel!Next
<1>14. QED BY <1>5, <1>7, <1>11, <1>12, <1>13 DEF WireInv

\* The handler has read a request and finds the connection lost.
LEMMA RequestUnanswered ==
  ASSUME WireInv, HandleRequest, link # "up"
  PROVE  WireInv' /\ UpStep /\ DownStep
<1> DEFINE r == ReadRequest(toServer)
<1>1. /\ server = "lobby" /\ r.rest # Short /\ server' = "over"
      /\ toServer' = r.rest /\ gotByServer' = Append(gotByServer, r.v)
      /\ UNCHANGED <<client, link, sentToServer, downVars>>
  BY DEF HandleRequest
<1>2. /\ Len(sentToServer) \in Nat /\ Len(gotByServer) \in Nat
      /\ OnTheirWay(sentToServer, gotByServer, Requests)
  BY <1>1, LengthsAre DEF WireInv, ServerExpects
<1>3. Len(gotByServer) < Len(sentToServer)
         => sentToServer[Len(gotByServer) + 1] \in Requests
  BY <1>2, NextOnItsWay
<1> HIDE DEF r
<1>4. Len(gotByServer) < Len(sentToServer) /\ UpInv' /\ UpChannel!Receive
  <2>1. r = ReadRequest(toServer)
    BY DEF r
  <2>2. QED BY <1>1, <1>3, <2>1, RequestReceived DEF WireInv
<1>5. DownInv' /\ DownStep
  BY <1>1, DownStays DEF WireInv
<1>6. ServerExpects'
  BY <1>1 DEF ServerExpects
<1>7. ClientExpects'
  <2>1. UNCHANGED <<client, sentToClient, gotByClient>>
    BY <1>1 DEF downVars
  <2>2. QED
    BY <1>1, <1>2, <1>4, <2>1
       DEF WireInv, ClientExpects, Unanswered, NotLetIn, LetIn, NextAnswer, Entered, OnTheirWay
<1>8. UpStep
  BY <1>4 DEF UpStep, UpChannel!Next
<1>9. QED BY <1>4, <1>5, <1>6, <1>7, <1>8 DEF WireInv

LEMMA LinkStep ==
  ASSUME WireInv, LoseLink
  PROVE  WireInv' /\ UpStep /\ DownStep
<1>1. UpInv' /\ DownInv'
  BY LinkLost DEF WireInv
<1>2. UNCHANGED <<client, server, sentToServer, gotByServer, sentToClient, gotByClient>>
  BY DEF LoseLink
<1>3. ServerExpects' /\ ClientExpects'
  BY <1>2 DEF WireInv, ServerExpects, ClientExpects, Unanswered, NotLetIn, LetIn,
              NextAnswer, OnTheirWay
<1>4. UpStep /\ DownStep
  BY <1>2 DEF UpStep, DownStep, AllArriving
<1>5. QED BY <1>1, <1>3, <1>4 DEF WireInv

LEMMA StopStep ==
  ASSUME WireInv, ClientStops \/ ServerStops
  PROVE  WireInv' /\ UpStep /\ DownStep
<1>1. UNCHANGED <<link, upVars, downVars>>
  BY DEF ClientStops, ServerStops
<1>2. UpInv' /\ DownInv' /\ UpStep /\ DownStep
  BY <1>1, UpStays, DownStays DEF WireInv
<1>3. UNCHANGED <<sentToServer, gotByServer, sentToClient, gotByClient>>
  BY <1>1 DEF upVars, downVars
<1>4. \/ client' = "over" /\ server' = server
      \/ server' = "over" /\ client' = client
  BY DEF ClientStops, ServerStops
<1>5. ServerExpects'
  BY <1>3, <1>4 DEF WireInv, ServerExpects, OnTheirWay
<1>6. ClientExpects'
  BY <1>3, <1>4 DEF WireInv, ClientExpects, Unanswered, NotLetIn, LetIn, NextAnswer,
                    OnTheirWay
<1>7. QED BY <1>2, <1>5, <1>6 DEF WireInv

LEMMA HistoryBegins ==
  ASSUME NEW S
  PROVE  History(<<>>, <<>>, <<>>, <<>>, S, TRUE)
<1> DEFINE A == {Arriving(m) : m \in S}
<1>1. Carries(<<>>, <<>>, 0, TRUE)
  BY CarriesNothing
<1> DEFINE none == <<>>
<1>2. none \in Seq(S) /\ none \in Seq(A) /\ Len(none) = 0
  OBVIOUS
<1> HIDE DEF A, none
<1>3. Carries(none, none, Len(none), TRUE)
  BY <1>1, <1>2 DEF none
<1>4. (\A i \in 1..Len(none) : none[i] = Arriving(none[i])) /\ Len(none) <= Len(none)
  BY <1>2
<1>5. none \in Seq({Arriving(m) : m \in S})
  BY <1>2 DEF A
<1>6. History(none, none, none, none, S, TRUE)
  BY <1>2, <1>3, <1>4, <1>5, Zenon DEF History
<1>7. QED BY <1>6 DEF none

LEMMA WireInvInitial ==
  ASSUME Init
  PROVE  WireInv
<1>1. UpInv
  <2>1. AllUpBytes(sentToServer) = <<>> /\ (link = "up") = TRUE
    BY DEF Init, AllUpBytes
  <2>2. sentToServer = <<>> /\ gotByServer = <<>> /\ toServer = <<>>
    BY DEF Init
  <2>3. History(<<>>, <<>>, <<>>, <<>>, Requests \cup Commands, TRUE)
    BY HistoryBegins
  <2>4. QED BY <2>1, <2>2, <2>3 DEF UpInv
<1>2. DownInv
  <2>1. AllDownBytes(sentToClient) = <<>> /\ (link = "up") = TRUE
    BY DEF Init, AllDownBytes
  <2>2. sentToClient = <<>> /\ gotByClient = <<>> /\ toClient = <<>>
    BY DEF Init
  <2>3. History(<<>>, <<>>, <<>>, <<>>, Answering \cup GameMessages, TRUE)
    BY HistoryBegins
  <2>4. QED BY <2>1, <2>2, <2>3 DEF DownInv
<1>3. ServerExpects /\ ClientExpects
  BY DEF Init, ServerExpects, ClientExpects, OnTheirWay
<1>4. QED BY <1>1, <1>2, <1>3 DEF WireInv

LEMMA WireInvKept ==
  ASSUME WireInv, [Next]_vars
  PROVE  WireInv' /\ UpStep /\ DownStep
<1>1. CASE UNCHANGED vars
  <2>1. /\ UNCHANGED <<client, server, link, upVars, downVars>>
        /\ UNCHANGED <<sentToServer, gotByServer, sentToClient, gotByClient>>
    BY <1>1 DEF vars, upVars, downVars
  <2>2. UpInv' /\ DownInv' /\ UpStep /\ DownStep
    BY <2>1, UpStays, DownStays DEF WireInv
  <2>3. ServerExpects' /\ ClientExpects'
    BY <2>1 DEF WireInv, ServerExpects, ClientExpects, Unanswered, NotLetIn, LetIn,
                NextAnswer, OnTheirWay
  <2>4. QED BY <2>2, <2>3 DEF WireInv
<1>2. CASE HandleRequest
  BY <1>2, RequestAnswered, RequestUnanswered
<1>3. QED
  BY <1>1, <1>2, RequestSent, AnswerStep, CommandSent, CommandStep, GameMessageSent,
     GameMessageStep, LinkStep, StopStep
     DEF Next

-----------------------------------------------------------------------------
(***************************************************************************)
(* What the protocol promises.                                             *)
(***************************************************************************)
LEMMA WireInvHolds == Spec => []WireInv
<1>1. Init => WireInv
  BY WireInvInitial
<1>2. WireInv /\ [Next]_vars => WireInv'
  BY WireInvKept
<1>3. QED BY <1>1, <1>2, PTL DEF Spec

\* The handler of a client reads the requests and commands its client wrote,
\* whole, once and in order, whatever their fields hold and whatever byte the
\* connection is lost after: ServerProtocol's reads fit ClientProtocol's writes.
THEOREM RequestsAndCommandsArrive == Spec => ServerReadsWhatIsWritten
<1>1. Init => UpChannel!Init
  BY DEF Init, UpChannel!Init
<1>2. WireInv /\ [Next]_vars =>
         [UpChannel!Next]_<<[i \in DOMAIN sentToServer |-> Arriving(sentToServer[i])], gotByServer>>
  BY WireInvKept DEF UpStep, AllArriving
<1>3. QED
  BY <1>1, <1>2, WireInvHolds, PTL DEF Spec, UpChannel!Spec, ServerReadsWhatIsWritten

\* A client reads the answers and the game messages its handler wrote, whole,
\* once and in order, and goes over from answers to game messages exactly when its
\* handler does: ClientProtocol's reads fit ServerProtocol's writes.
THEOREM AnswersAndGameMessagesArrive == Spec => ClientReadsWhatIsWritten
<1>1. Init => DownChannel!Init
  BY DEF Init, DownChannel!Init
<1>2. WireInv /\ [Next]_vars =>
         [DownChannel!Next]_<<[i \in DOMAIN sentToClient |-> Arriving(sentToClient[i])],
                              gotByClient>>
  BY WireInvKept DEF DownStep, AllArriving
<1>3. QED
  BY <1>1, <1>2, WireInvHolds, PTL DEF Spec, DownChannel!Spec, ClientReadsWhatIsWritten

LEMMA Quotient ==
  ASSUME NEW n \in Nat
  PROVE  /\ n \div 360 \in Nat /\ 360 * (n \div 360) <= n
         /\ n < 360 * (n \div 360) + 360
  OBVIOUS

LEMMA AngleIsClose ==
  ASSUME NEW a \in Angles
  PROVE  Abs(360 * AngleCode(a) - 65535 * (a % 360)) <= 720
<1>1. a \in Int /\ -180 <= a /\ a <= 180
  BY DEF Angles, Abs
<1>2. CASE 0 <= a
  <2> DEFINE n == a * 65535
             t == n \div 360
  <2>1. n \in Nat /\ n <= 11796300
    BY <1>1, <1>2
  <2>2. t \in Nat /\ 360 * t <= n /\ n < 360 * t + 360
    <3> HIDE DEF n
    <3>1. QED BY <2>1, Quotient
  <2>3. Truncated(n, 360) = t
    BY <2>1 DEF Truncated
  <2>4. t <= 65535
    <3> HIDE DEF t, n
    <3>1. QED BY <2>1, <2>2
  <2>5. t % 65536 = t
    <3> HIDE DEF t
    <3>1. QED BY <2>2, <2>4
  <2>6. AngleCode(a) = t
    BY <2>3, <2>5 DEF AngleCode
  <2>7. a % 360 = a
    BY <1>1, <1>2
  <2>8. -360 <= 360 * t - n /\ 360 * t - n <= 0
    <3> HIDE DEF t, n
    <3>1. QED BY <2>1, <2>2
  <2>9. 360 * AngleCode(a) - 65535 * (a % 360) = 360 * t - n
    BY <1>1, <2>6, <2>7
  <2> HIDE DEF t, n
  <2>10. Abs(360 * t - n) <= 720
    BY <2>1, <2>2, <2>8 DEF Abs
  <2>11. QED BY <2>9, <2>10
<1>3. CASE a < 0
  <2> DEFINE n == (-a) * 65535
             t == n \div 360
  <2>1. n \in Nat /\ 65535 <= n /\ n <= 11796300 /\ a * 65535 = -n
    BY <1>1, <1>3
  <2>2. t \in Nat /\ 360 * t <= n /\ n < 360 * t + 360
    <3> HIDE DEF n
    <3>1. QED BY <2>1, Quotient
  <2>3. Truncated(-n, 360) = -t
    <3>1. -n < 0 /\ -(-n) = n
      BY <2>1
    <3>2. QED BY <3>1 DEF Truncated
  <2>4. 1 <= t /\ t <= 65535
    <3> HIDE DEF t, n
    <3>1. QED BY <2>1, <2>2
  <2>5. (-t) % 65536 = 65536 - t
    <3> HIDE DEF t
    <3>1. QED BY <2>2, <2>4
  <2>6. AngleCode(a) = 65536 - t
    BY <2>1, <2>3, <2>5 DEF AngleCode
  <2>7. a % 360 = 360 + a
    BY <1>1, <1>3
  <2>8. 360 * AngleCode(a) - 65535 * (a % 360) = 360 + n - 360 * t
    <3>1. 360 * (65536 - t) = 23592960 - 360 * t
      BY <2>2
    <3>2. 65535 * (360 + a) = 23592600 - n
      BY <1>1, <2>1
    <3> HIDE DEF t, n
    <3>3. QED BY <2>1, <2>2, <2>6, <2>7, <3>1, <3>2
  <2> HIDE DEF t, n
  <2>9. 360 <= 360 + n - 360 * t /\ 360 + n - 360 * t <= 720 /\ 360 + n - 360 * t \in Int
    BY <2>1, <2>2
  <2>10. Abs(360 + n - 360 * t) <= 720
    <3> DEFINE d == 360 + n - 360 * t
    <3>1. d \in Int /\ 360 <= d /\ d <= 720
      BY <2>9
    <3> HIDE DEF d
    <3>2. Abs(d) <= 720
      BY <3>1 DEF Abs
    <3>3. QED BY <3>2 DEF d
  <2>11. QED BY <2>8, <2>10
<1>4. QED BY <1>1, <1>2, <1>3

\* A rotation arrives as one, and the rest does not arrive as one.
LEMMA ArrivingTurn ==
  ASSUME NEW m \in Requests \cup Commands, Arriving(m).type = "rotate"
  PROVE  m.angle \in Angles /\ Arriving(m).angle = AngleCode(m.angle)
<1>1. m \notin Requests
  <2>1. m \in Requests => Arriving(m).type \in DOMAIN RequestCode
    BY RequestIs DEF AllRequests
  <2>2. QED BY <2>1 DEF RequestCode
<1>2. m \in AllCommands
  BY <1>1, CommandIs
<1>3. m.type # "snapshot"
  BY <1>2 DEF AllCommands
<1>4. m.type = "rotate"
  BY <1>3 DEF Arriving
<1>5. m \in [type : {"rotate"}, angle : Angles]
  BY <1>2, <1>4 DEF AllCommands
<1>6. Arriving(m).angle = AngleCode(m.angle)
  BY <1>4, <1>5 DEF Arriving
<1>7. QED BY <1>5, <1>6

\* The angle a player turns to reaches the handler within a hundredth of a
\* degree, to the left as well: a negative number of degrees wraps to the code of the
\* same direction (encodeAngle, and a build in which the cast of a negative
\* number wraps).
THEOREM AnglesArrive == Spec => []AngleSurvives
<1>1. WireInv => AngleSurvives
  <2> SUFFICES ASSUME WireInv, NEW i \in DOMAIN gotByServer, gotByServer[i].type = "rotate"
               PROVE  Abs(360 * gotByServer[i].angle
                          - 65535 * (sentToServer[i].angle % 360)) <= 720
    BY DEF AngleSurvives
  <2> DEFINE m == sentToServer[i]
  <2>1. /\ sentToServer \in Seq(Requests \cup Commands)
        /\ Len(gotByServer) <= Len(sentToServer)
        /\ gotByServer \in Seq({Arriving(x) : x \in Requests \cup Commands})
        /\ \A j \in 1..Len(gotByServer) : gotByServer[j] = Arriving(sentToServer[j])
    BY DEF WireInv, UpInv, History
  <2>2. /\ Len(gotByServer) \in Nat /\ Len(sentToServer) \in Nat
        /\ DOMAIN gotByServer = 1..Len(gotByServer)
    BY <2>1, LenProperties
  <2>3. i \in 1..Len(sentToServer) /\ gotByServer[i] = Arriving(m)
    BY <2>1, <2>2
  <2>4. m \in Requests \cup Commands
    BY <2>1, <2>3, ElementOfSeq
  <2>5. m.angle \in Angles /\ gotByServer[i].angle = AngleCode(m.angle)
    BY <2>3, <2>4, ArrivingTurn
  <2>6. QED BY <2>5, AngleIsClose
<1>2. QED BY <1>1, WireInvHolds, PTL

=============================================================================
