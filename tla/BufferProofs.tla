---------------------------- MODULE BufferProofs ----------------------------
(***************************************************************************)
(* Buffer takes the steps of a queue of bytes, for every size of the       *)
(* vector, the reserve, extrabuf and the data.  The second part is         *)
(* about the other buffers of the program, those of AsyncLogging: its      *)
(* assert()s hold, and they lose no line but those of erased buffers.      *)
(***************************************************************************)
EXTENDS Buffer, SequenceTheorems, WellFoundedInduction, TLAPS

Buffers == [buffer_ : Seq(Byte), readIndex : Nat, writeIndex : Nat]

\* A Buffer whose indices are in range, and whose vector has room for the
\* reserve.
Proper(x) ==
    /\ x \in Buffers
    /\ x.readIndex <= x.writeIndex
    /\ x.writeIndex <= Len(x.buffer_)
    /\ kCheapPrepend <= Len(x.buffer_)

\* retrieveAll moves both indices to the end of the reserve, so the vector
\* must never be smaller than that.
ReserveFits == kCheapPrepend <= Len(b.buffer_)

\* The inductive invariant.
IInv == TypeOK /\ IndicesInRange /\ ReserveFits

----------------------------------------------------------------------------
(* Lemmas about the vector.                                                *)

\* A vector in which d has been copied.
LEMMA CopyIntoProperties ==
    ASSUME NEW v \in Seq(Byte), NEW at \in Nat, NEW d \in Seq(Byte)
    PROVE  /\ CopyInto(v, at, d) \in Seq(Byte)
           /\ Len(CopyInto(v, at, d)) = Len(v)
           /\ \A i \in 1 .. Len(v) : CopyInto(v, at, d)[i] =
                 IF at < i /\ i <= at + Len(d) THEN d[i - at] ELSE v[i]
<1> DEFINE e(i) == IF at < i /\ i <= at + Len(d) THEN d[i - at] ELSE v[i]
<1>1. Len(v) \in Nat /\ Len(d) \in Nat
  BY LenProperties
<1>2. \A i \in 1 .. Len(v) : e(i) \in Byte
  <2> SUFFICES ASSUME NEW i \in 1 .. Len(v) PROVE e(i) \in Byte
    OBVIOUS
  <2>1. v[i] \in Byte
    BY ElementOfSeq
  <2>2. CASE at < i /\ i <= at + Len(d)
    <3>1. i - at \in 1 .. Len(d)
      BY <1>1, <2>2
    <3> QED  BY <3>1, <2>2, ElementOfSeq
  <2> QED  BY <2>1, <2>2
<1>3. CopyInto(v, at, d) = [i \in 1 .. Len(v) |-> e(i)]
  BY DEF CopyInto
<1> HIDE DEF e
<1>4. [i \in 1 .. Len(v) |-> e(i)] \in Seq(Byte)
  BY <1>1, <1>2, IsASeq
<1>5. Len([i \in 1 .. Len(v) |-> e(i)]) = Len(v)
  BY <1>1
<1>6. \A i \in 1 .. Len(v) : CopyInto(v, at, d)[i] = e(i)
  BY <1>3
<1> QED  BY <1>3, <1>4, <1>5, <1>6 DEF e

\* A vector that has been enlarged.
LEMMA ResizeProperties ==
    ASSUME NEW v \in Seq(Byte), NEW n \in Nat
    PROVE  /\ Resize(v, n) \in Seq(Byte)
           /\ Len(Resize(v, n)) = n
           /\ \A i \in 1 .. n : i <= Len(v) => Resize(v, n)[i] = v[i]
<1> DEFINE e(i) == IF i <= Len(v) THEN v[i] ELSE 0
<1>1. \A i \in 1 .. n : e(i) \in Byte
  BY ElementOfSeq, LenProperties, BufferAssumption
<1>2. Resize(v, n) = [i \in 1 .. n |-> e(i)]
  BY DEF Resize
<1> HIDE DEF e
<1>3. [i \in 1 .. n |-> e(i)] \in Seq(Byte)
  BY <1>1, IsASeq
<1>4. Len([i \in 1 .. n |-> e(i)]) = n
  OBVIOUS
<1>5. \A i \in 1 .. n : Resize(v, n)[i] = e(i)
  BY <1>2
<1> QED  BY <1>2, <1>3, <1>4, <1>5 DEF e

\* The part of the vector that starts after index r and ends at index w.
LEMMA PartProperties ==
    ASSUME NEW v \in Seq(Byte), NEW r \in Nat, NEW w \in Nat,
           r <= w, w <= Len(v)
    PROVE  /\ SubSeq(v, r + 1, w) \in Seq(Byte)
           /\ Len(SubSeq(v, r + 1, w)) = w - r
           /\ \A i \in 1 .. w - r : SubSeq(v, r + 1, w)[i] = v[r + i]
<1>1. Len(v) \in Nat
  BY LenProperties
<1>2. \A i \in r + 1 .. w : v[i] \in Byte
  <2> SUFFICES ASSUME NEW i \in r + 1 .. w PROVE v[i] \in Byte
    OBVIOUS
  <2>1. i \in 1 .. Len(v)
    BY <1>1
  <2> QED  BY <2>1, ElementOfSeq
<1>3. r + 1 \in Int /\ w \in Int
  OBVIOUS
<1>4. /\ SubSeq(v, r + 1, w) \in Seq(Byte)
      /\ Len(SubSeq(v, r + 1, w)) = IF r + 1 <= w THEN w - (r + 1) + 1 ELSE 0
      /\ \A i \in 1 .. w - (r + 1) + 1 :
            SubSeq(v, r + 1, w)[i] = v[(r + 1) + i - 1]
  BY <1>2, <1>3, SubSeqProperties
<1>5. w - (r + 1) + 1 = w - r /\ \A i \in Int : (r + 1) + i - 1 = r + i
  OBVIOUS
<1> QED  BY <1>4, <1>5

\* The readable bytes of a proper Buffer.
LEMMA ContentProperties ==
    ASSUME NEW x, Proper(x)
    PROVE  /\ Content(x) \in Seq(Byte)
           /\ Len(Content(x)) = readableBytes(x)
           /\ \A i \in 1 .. readableBytes(x) :
                 Content(x)[i] = x.buffer_[x.readIndex + i]
BY PartProperties DEF Proper, Buffers, Content, readableBytes

\* Two proper Buffers have the same content if it is as long and agrees
\* byte by byte.
LEMMA ContentEqual ==
    ASSUME NEW x, Proper(x), NEW s \in Seq(Byte),
           readableBytes(x) = Len(s),
           \A i \in 1 .. Len(s) : x.buffer_[x.readIndex + i] = s[i]
    PROVE  Content(x) = s
<1>1. /\ Content(x) \in Seq(Byte)
      /\ Len(Content(x)) = Len(s)
      /\ \A i \in 1 .. Len(Content(x)) : Content(x)[i] = s[i]
  BY ContentProperties
<1> QED  BY <1>1, SeqEqual

----------------------------------------------------------------------------
(* Making space changes neither the content nor the range of the indices,  *)
(* and makes enough of it.                                                 *)

LEMMA MakeSpace ==
    ASSUME NEW x, Proper(x), NEW len \in Nat, writableBytes(x) < len
    PROVE  /\ Proper(makeSpace(x, len))
           /\ Content(makeSpace(x, len)) = Content(x)
           /\ writableBytes(makeSpace(x, len)) >= len
           /\ ~NeedsResize(x, len) => kCheapPrepend < x.readIndex
<1> DEFINE y == makeSpace(x, len)
<1>1. /\ x.buffer_ \in Seq(Byte) /\ x.readIndex \in Nat /\ x.writeIndex \in Nat
      /\ Len(x.buffer_) \in Nat
      /\ x.readIndex <= x.writeIndex /\ x.writeIndex <= Len(x.buffer_)
      /\ Len(x.buffer_) - x.writeIndex < len
      /\ kCheapPrepend \in Nat /\ kCheapPrepend <= Len(x.buffer_)
  BY LenProperties, BufferAssumption DEF Proper, Buffers, writableBytes
<1>2. CASE NeedsResize(x, len)
  <2> DEFINE n == x.writeIndex + len
             v == Resize(x.buffer_, n)
  <2>1. y = [x EXCEPT !.buffer_ = v]
    BY <1>2 DEF makeSpace
  <2>2. /\ v \in Seq(Byte) /\ Len(v) = n
        /\ \A i \in 1 .. n : i <= Len(x.buffer_) => v[i] = x.buffer_[i]
    <3>1. n \in Nat
      BY <1>1
    <3> QED  BY <1>1, <3>1, ResizeProperties
  <2>3. y \in Buffers /\ y.buffer_ = v /\ y.readIndex = x.readIndex
        /\ y.writeIndex = x.writeIndex
    BY <2>1, <2>2 DEF Proper, Buffers
  <2> HIDE DEF y, v
  <2>4. Proper(y)
    BY <1>1, <2>2, <2>3 DEF Proper
  <2>5. Content(y) = Content(x)
    <3>1. readableBytes(y) = readableBytes(x)
      BY <2>3 DEF readableBytes
    <3>2. ASSUME NEW i \in 1 .. readableBytes(x)
          PROVE  y.buffer_[y.readIndex + i] = x.buffer_[x.readIndex + i]
      <4>1. i \in 1 .. x.writeIndex - x.readIndex
        BY DEF readableBytes
      <4>2. /\ x.readIndex + i \in 1 .. n
            /\ x.readIndex + i <= Len(x.buffer_)
        BY <1>1, <4>1
      <4> QED  BY <2>2, <2>3, <4>2
    <3>3. /\ Content(x) \in Seq(Byte)
          /\ Len(Content(x)) = readableBytes(x)
          /\ \A i \in 1 .. readableBytes(x) :
                Content(x)[i] = x.buffer_[x.readIndex + i]
      BY ContentProperties
    <3> HIDE DEF n
    <3>4. /\ readableBytes(y) = Len(Content(x))
          /\ \A i \in 1 .. Len(Content(x)) :
                y.buffer_[y.readIndex + i] = Content(x)[i]
      BY <3>1, <3>2, <3>3
    <3> QED  BY <2>4, <3>3, <3>4, ContentEqual
  <2>6. writableBytes(y) >= len
    BY <1>1, <2>2, <2>3 DEF writableBytes
  <2> QED  BY <1>2, <2>4, <2>5, <2>6 DEF y
<1>3. CASE ~NeedsResize(x, len)
  <2> DEFINE c == Content(x)
             v == CopyInto(x.buffer_, kCheapPrepend, c)
             w == kCheapPrepend + readableBytes(x)
  <2>1. /\ kCheapPrepend < x.readIndex
        /\ Len(x.buffer_) - x.writeIndex + x.readIndex >= len + kCheapPrepend
    BY <1>1, <1>3 DEF NeedsResize, writableBytes, prependableBytes
  <2>2. /\ c \in Seq(Byte) /\ Len(c) = readableBytes(x)
    BY ContentProperties
  <2>3. readableBytes(x) \in Nat /\ readableBytes(x) = x.writeIndex - x.readIndex
    BY <1>1 DEF readableBytes
  <2>4. y = [x EXCEPT !.buffer_ = v, !.readIndex = kCheapPrepend,
                      !.writeIndex = w]
    BY <1>3 DEF makeSpace
  <2>5. /\ v \in Seq(Byte) /\ Len(v) = Len(x.buffer_)
        /\ \A i \in 1 .. Len(x.buffer_) : v[i] =
              IF kCheapPrepend < i /\ i <= kCheapPrepend + Len(c)
              THEN c[i - kCheapPrepend] ELSE x.buffer_[i]
    BY <1>1, <2>2, CopyIntoProperties
  <2> HIDE DEF y, v, c
  <2>6. y \in Buffers /\ y.buffer_ = v /\ y.readIndex = kCheapPrepend
        /\ y.writeIndex = w
    <3>1. w \in Nat
      BY <1>1, <2>3
    <3> HIDE DEF w
    <3> QED  BY <1>1, <2>4, <2>5, <3>1 DEF Proper, Buffers
  <2>7. Proper(y)
    BY <1>1, <2>1, <2>3, <2>5, <2>6 DEF Proper
  <2>8. Content(y) = c
    <3>1. readableBytes(y) = Len(c)
      BY <1>1, <2>2, <2>3, <2>6 DEF readableBytes
    <3>2. ASSUME NEW i \in 1 .. Len(c)
          PROVE  y.buffer_[y.readIndex + i] = c[i]
      <4>1. kCheapPrepend + i \in 1 .. Len(x.buffer_)
        BY <1>1, <2>1, <2>2, <2>3
      <4>2. v[kCheapPrepend + i] = c[(kCheapPrepend + i) - kCheapPrepend]
        BY <1>1, <2>2, <2>3, <2>5, <4>1
      <4>3. (kCheapPrepend + i) - kCheapPrepend = i
        BY <1>1
      <4> QED  BY <2>6, <4>2, <4>3
    <3> QED  BY <2>2, <2>7, <3>1, <3>2, ContentEqual
  <2>9. writableBytes(y) >= len
    BY <1>1, <2>1, <2>3, <2>5, <2>6 DEF writableBytes
  <2> QED  BY <2>1, <2>7, <2>8, <2>9 DEF y, c
<1> QED  BY <1>2, <1>3

LEMMA EnsureWritable ==
    ASSUME NEW x, Proper(x), NEW len \in Nat
    PROVE  /\ Proper(ensureWritableBytes(x, len))
           /\ Content(ensureWritableBytes(x, len)) = Content(x)
           /\ AppendAsserts(x, len)
<1>1. CASE writableBytes(x) < len
  BY <1>1, MakeSpace DEF ensureWritableBytes, AppendAsserts
<1>2. CASE ~(writableBytes(x) < len)
  <2>1. writableBytes(x) \in Int
    BY LenProperties DEF Proper, Buffers, writableBytes
  <2> QED  BY <1>2, <2>1 DEF ensureWritableBytes, AppendAsserts
<1> QED  BY <1>1, <1>2

\* Writing d behind the readable bytes, where there is room, extends them.
LEMMA WriteBehind ==
    ASSUME NEW x, Proper(x), NEW d \in Seq(Byte),
           writableBytes(x) >= Len(d),
           NEW y, y = [x EXCEPT !.buffer_ = CopyInto(@, x.writeIndex, d),
                                !.writeIndex = @ + Len(d)]
    PROVE  Proper(y) /\ Content(y) = Content(x) \o d
<1> DEFINE v == CopyInto(x.buffer_, x.writeIndex, d)
           c == Content(x)
<1>1. /\ x.buffer_ \in Seq(Byte) /\ x.readIndex \in Nat /\ x.writeIndex \in Nat
      /\ Len(x.buffer_) \in Nat /\ Len(d) \in Nat
      /\ x.readIndex <= x.writeIndex
      /\ x.writeIndex + Len(d) <= Len(x.buffer_)
  <2>1. Len(d) \in Nat
    BY LenProperties
  <2> QED  BY <2>1, LenProperties DEF Proper, Buffers, writableBytes
<1>2. /\ v \in Seq(Byte) /\ Len(v) = Len(x.buffer_)
      /\ \A i \in 1 .. Len(x.buffer_) : v[i] =
            IF x.writeIndex < i /\ i <= x.writeIndex + Len(d)
            THEN d[i - x.writeIndex] ELSE x.buffer_[i]
  BY <1>1, CopyIntoProperties
<1>3. y \in Buffers /\ y.buffer_ = v /\ y.readIndex = x.readIndex
      /\ y.writeIndex = x.writeIndex + Len(d)
  <2> DEFINE w == x.writeIndex + Len(d)
  <2>1. w \in Nat
    BY <1>1
  <2>2. y = [x EXCEPT !.buffer_ = v, !.writeIndex = w]
    OBVIOUS
  <2> HIDE DEF v, w
  <2>3. y \in Buffers /\ y.buffer_ = v /\ y.readIndex = x.readIndex /\ y.writeIndex = w
    BY <1>1, <1>2, <2>1, <2>2 DEF Proper, Buffers
  <2> QED  BY <2>3 DEF w
<1> HIDE DEF v
<1>4. Proper(y)
  BY <1>1, <1>2, <1>3 DEF Proper
<1>5. /\ c \in Seq(Byte) /\ Len(c) = x.writeIndex - x.readIndex
      /\ \A i \in 1 .. Len(c) : c[i] = x.buffer_[x.readIndex + i]
  BY ContentProperties DEF readableBytes
<1> HIDE DEF c
<1>6. /\ c \o d \in Seq(Byte)
      /\ Len(c \o d) = Len(c) + Len(d)
      /\ \A i \in 1 .. Len(c) + Len(d) : (c \o d)[i] =
            IF i <= Len(c) THEN c[i] ELSE d[i - Len(c)]
  BY <1>5, ConcatProperties
<1>7. readableBytes(y) = Len(c \o d)
  BY <1>1, <1>3, <1>5, <1>6 DEF readableBytes
<1>8. ASSUME NEW i \in 1 .. Len(c \o d)
      PROVE  y.buffer_[y.readIndex + i] = (c \o d)[i]
  <2> DEFINE j == x.readIndex + i
  <2>1. j \in 1 .. Len(x.buffer_)
    <3>1. i \in 1 .. (x.writeIndex - x.readIndex) + Len(d)
      BY <1>5, <1>6
    <3> QED  BY <1>1, <3>1
  <2>2. CASE i <= Len(c)
    <3>1. ~(x.writeIndex < j)
      BY <1>1, <1>5, <2>2
    <3>2. v[j] = x.buffer_[j]
      BY <1>2, <2>1, <3>1
    <3>3. (c \o d)[i] = c[i] /\ c[i] = x.buffer_[j]
      BY <1>1, <1>5, <1>6, <2>2
    <3> QED  BY <1>3, <3>2, <3>3
  <2>3. CASE ~(i <= Len(c))
    <3>1. /\ x.writeIndex < j /\ j <= x.writeIndex + Len(d)
          /\ j - x.writeIndex = i - Len(c)
      BY <1>1, <1>5, <1>6, <2>3
    <3>2. v[j] = d[j - x.writeIndex]
      BY <1>2, <2>1, <3>1
    <3>3. (c \o d)[i] = d[i - Len(c)]
      BY <1>6, <2>3
    <3> QED  BY <1>3, <3>1, <3>2, <3>3
  <2> QED  BY <2>2, <2>3
<1>9. Content(y) = c \o d
  BY <1>4, <1>6, <1>7, <1>8, ContentEqual
<1> QED  BY <1>4, <1>9 DEF c

\* append as a whole.
LEMMA AppendedIsLonger ==
    ASSUME NEW x, Proper(x), NEW d \in Seq(Byte)
    PROVE  Proper(Appended(x, d)) /\ Content(Appended(x, d)) = Content(x) \o d
<1> DEFINE y == ensureWritableBytes(x, Len(d))
<1>1. Len(d) \in Nat
  BY LenProperties
<1>2. Proper(y) /\ Content(y) = Content(x) /\ writableBytes(y) >= Len(d)
  BY <1>1, EnsureWritable DEF AppendAsserts
<1>3. Appended(x, d) = [y EXCEPT !.buffer_ = CopyInto(@, y.writeIndex, d),
                                 !.writeIndex = @ + Len(d)]
  BY DEF Appended
<1> HIDE DEF y
<1> QED  BY <1>2, <1>3, WriteBehind

LEMMA DataIsSeq == ASSUME NEW d \in Data PROVE d \in Seq(Byte)
BY SeqDef, BufferAssumption DEF Data

----------------------------------------------------------------------------
(* The steps.                                                              *)

LEMMA ProperB == IInv => Proper(b)
BY DEF IInv, TypeOK, IndicesInRange, ReserveFits, Proper, Buffers

LEMMA AppendStep ==
    ASSUME IInv, NEW d \in Data, append(d)
    PROVE  Proper(b') /\ Queue!Put /\ call' \in [name : Calls, data : Seq(Byte)]
<1>1. Proper(b) /\ d \in Seq(Byte)
  BY ProperB, DataIsSeq
<1>2. Proper(b') /\ Content(b') = Content(b) \o d
  BY <1>1, AppendedIsLonger DEF append
<1>3. call' = [name |-> "append", data |-> d]
  BY DEF append
<1> QED  BY <1>1, <1>2, <1>3 DEF Queue!Put, Calls

LEMMA ReadfdStep ==
    ASSUME IInv, NEW d \in Data, readfd(d)
    PROVE  Proper(b') /\ Queue!Put /\ call' \in [name : Calls, data : Seq(Byte)]
<1> DEFINE n == Len(d)
           wr == writableBytes(b)
           first == SubSeq(d, 1, wr)
           rest == SubSeq(d, wr + 1, n)
           x == [b EXCEPT !.buffer_ = CopyInto(@, b.writeIndex, first),
                          !.writeIndex = Len(b.buffer_)]
<1>1. Proper(b) /\ d \in Seq(Byte) /\ n \in Nat
  BY ProperB, DataIsSeq, LenProperties
<1>2. /\ wr \in Nat /\ b.writeIndex \in Nat /\ Len(b.buffer_) \in Nat
      /\ wr = Len(b.buffer_) - b.writeIndex
  BY <1>1, LenProperties DEF Proper, Buffers, writableBytes
<1>3. call' = [name |-> "readfd", data |-> d]
  BY DEF readfd
<1>4. b' = IF n <= wr
           THEN [b EXCEPT !.buffer_ = CopyInto(@, b.writeIndex, d),
                          !.writeIndex = @ + n]
           ELSE Appended(x, rest)
  BY DEF readfd
<1>5. CASE n <= wr
  <2>1. Proper(b') /\ Content(b') = Content(b) \o d
    BY <1>1, <1>2, <1>4, <1>5, WriteBehind
  <2> QED  BY <1>1, <1>3, <2>1 DEF Queue!Put, Calls
<1>6. CASE ~(n <= wr)
  <2>1. /\ first \in Seq(Byte) /\ Len(first) = wr
        /\ rest \in Seq(Byte)
    <3>1. 0 <= wr /\ wr <= Len(d)
      BY <1>1, <1>2, <1>6
    <3>2. SubSeq(d, 0 + 1, wr) \in Seq(Byte) /\ Len(SubSeq(d, 0 + 1, wr)) = wr - 0
      BY <1>1, <1>2, <3>1, PartProperties
    <3>3. SubSeq(d, wr + 1, n) \in Seq(Byte)
      BY <1>1, <1>2, <3>1, PartProperties
    <3>4. 0 + 1 = 1 /\ wr - 0 = wr
      BY <1>2
    <3> QED  BY <3>2, <3>3, <3>4
  <2>2. first \o rest = d
    <3>1. 1 \in 1 .. Len(d) + 1 /\ wr \in 1 - 1 .. Len(d) /\ n \in wr .. Len(d)
      BY <1>1, <1>2, <1>6
    <3>2. SubSeq(d, 1, wr) \o SubSeq(d, wr + 1, n) = SubSeq(d, 1, n)
      BY <1>1, <3>1, ConcatAdjacentSubSeq
    <3>3. SubSeq(d, 1, n) = d
      BY <1>1, SubSeqFull
    <3> QED  BY <3>2, <3>3
  <2> HIDE DEF first, rest
  <2>3. Proper(x) /\ Content(x) = Content(b) \o first
    <3>1. b.writeIndex + Len(first) = Len(b.buffer_)
      BY <1>2, <2>1
    <3>2. x = [b EXCEPT !.buffer_ = CopyInto(@, b.writeIndex, first),
                        !.writeIndex = @ + Len(first)]
      BY <3>1
    <3>3. writableBytes(b) >= Len(first)
      BY <1>2, <2>1
    <3> HIDE DEF x
    <3> QED  BY <1>1, <2>1, <3>2, <3>3, WriteBehind
  <2> HIDE DEF x
  <2>4. Proper(b') /\ Content(b') = Content(x) \o rest
    BY <1>4, <1>6, <2>1, <2>3, AppendedIsLonger
  <2>5. (Content(b) \o first) \o rest = Content(b) \o (first \o rest)
    BY <1>1, <2>1, ContentProperties, ConcatAssociative
  <2>6. Content(b') = Content(b) \o d
    BY <2>2, <2>3, <2>4, <2>5
  <2> QED  BY <1>1, <1>3, <2>4, <2>6 DEF Queue!Put, Calls
<1> QED  BY <1>5, <1>6

LEMMA PrependStep ==
    ASSUME IInv, NEW d \in Data, prepend(d)
    PROVE  Proper(b') /\ Queue!Prepend /\ call' \in [name : Calls, data : Seq(Byte)]
<1> DEFINE r == b.readIndex - Len(d)
           v == CopyInto(b.buffer_, r, d)
           c == Content(b)
<1>1. Proper(b) /\ d \in Seq(Byte) /\ Len(d) \in Nat
  BY ProperB, DataIsSeq, LenProperties
<1>2. /\ b \in Buffers /\ b.buffer_ \in Seq(Byte)
      /\ b.readIndex \in Nat /\ b.writeIndex \in Nat /\ Len(b.buffer_) \in Nat
      /\ b.readIndex <= b.writeIndex /\ b.writeIndex <= Len(b.buffer_)
  BY <1>1, LenProperties DEF Proper, Buffers
<1>3. r \in Nat /\ r + Len(d) = b.readIndex
  BY <1>1, <1>2 DEF prepend, prependableBytes
<1>4. b' = [b EXCEPT !.buffer_ = v, !.readIndex = r]
  BY DEF prepend
<1>5. /\ v \in Seq(Byte) /\ Len(v) = Len(b.buffer_)
      /\ \A i \in 1 .. Len(b.buffer_) : v[i] =
            IF r < i /\ i <= r + Len(d) THEN d[i - r] ELSE b.buffer_[i]
  BY <1>1, <1>2, <1>3, CopyIntoProperties
<1>6. call' = [name |-> "prepend", data |-> d]
  BY DEF prepend
<1> HIDE DEF r, v
<1>7. b' \in Buffers /\ b'.buffer_ = v /\ b'.readIndex = r
      /\ b'.writeIndex = b.writeIndex
  BY <1>2, <1>3, <1>4, <1>5 DEF Buffers
<1>8. Proper(b')
  BY <1>1, <1>2, <1>3, <1>5, <1>7 DEF Proper
<1>9. /\ c \in Seq(Byte) /\ Len(c) = b.writeIndex - b.readIndex
      /\ \A i \in 1 .. Len(c) : c[i] = b.buffer_[b.readIndex + i]
  BY <1>1, ContentProperties DEF readableBytes
<1> HIDE DEF c
<1>10. /\ d \o c \in Seq(Byte)
       /\ Len(d \o c) = Len(d) + Len(c)
       /\ \A i \in 1 .. Len(d) + Len(c) : (d \o c)[i] =
             IF i <= Len(d) THEN d[i] ELSE c[i - Len(d)]
  BY <1>1, <1>9, ConcatProperties
<1>11. readableBytes(b') = Len(d \o c)
  BY <1>1, <1>2, <1>3, <1>7, <1>9, <1>10 DEF readableBytes
<1>12. ASSUME NEW i \in 1 .. Len(d \o c)
       PROVE  b'.buffer_[b'.readIndex + i] = (d \o c)[i]
  <2> DEFINE j == r + i
  <2>0. i \in 1 .. Len(d) + (b.writeIndex - b.readIndex)
    BY <1>9, <1>10
  <2>1. j \in 1 .. Len(b.buffer_)
    BY <1>1, <1>2, <1>3, <2>0
  <2>2. CASE i <= Len(d)
    <3>1. r < j /\ j <= r + Len(d) /\ j - r = i
      BY <1>1, <1>3, <2>0, <2>2
    <3>2. v[j] = d[j - r]
      BY <1>5, <2>1, <3>1
    <3> QED  BY <1>7, <1>10, <2>2, <3>1, <3>2
  <2>3. CASE ~(i <= Len(d))
    <3>1. ~(j <= r + Len(d)) /\ j = b.readIndex + (i - Len(d))
          /\ i - Len(d) \in 1 .. Len(c)
      BY <1>1, <1>2, <1>3, <1>9, <2>0, <2>3
    <3>2. v[j] = b.buffer_[j]
      BY <1>5, <2>1, <3>1
    <3>3. (d \o c)[i] = c[i - Len(d)]
      BY <1>10, <2>3
    <3>4. c[i - Len(d)] = b.buffer_[b.readIndex + (i - Len(d))]
      BY <1>9, <3>1
    <3> QED  BY <1>7, <3>1, <3>2, <3>3, <3>4
  <2> QED  BY <2>2, <2>3
<1>13. Content(b') = d \o c
  BY <1>8, <1>10, <1>11, <1>12, ContentEqual
<1> QED  BY <1>1, <1>6, <1>8, <1>13 DEF Queue!Prepend, Calls, c

LEMMA RetrieveStep ==
    ASSUME IInv, NEW len \in 0 .. MaxSize, retrieve(len)
    PROVE  Proper(b') /\ Queue!Get /\ call' \in [name : Calls, data : Seq(Byte)]
<1> DEFINE r == b.readIndex + len
           d == SubSeq(b.buffer_, b.readIndex + 1, r)
<1>1. /\ b \in Buffers /\ b.buffer_ \in Seq(Byte)
      /\ b.readIndex \in Nat /\ b.writeIndex \in Nat /\ Len(b.buffer_) \in Nat
      /\ b.readIndex <= b.writeIndex /\ b.writeIndex <= Len(b.buffer_)
      /\ len \in Nat
  BY ProperB, LenProperties, BufferAssumption DEF Proper, Buffers
<1>2. r \in Nat /\ b.readIndex <= r /\ r <= b.writeIndex /\ r <= Len(b.buffer_)
  <2>1. len <= b.writeIndex - b.readIndex
    BY DEF retrieve, readableBytes
  <2> QED  BY <1>1, <2>1
<1>3. b' = [b EXCEPT !.readIndex = r] /\ call' = [name |-> "retrieve", data |-> d]
  BY DEF retrieve
<1>4. d \in Seq(Byte)
  BY <1>1, <1>2, PartProperties
<1>5. d \o SubSeq(b.buffer_, r + 1, b.writeIndex)
         = SubSeq(b.buffer_, b.readIndex + 1, b.writeIndex)
  <2>1. /\ b.readIndex + 1 \in 1 .. Len(b.buffer_) + 1
        /\ r \in (b.readIndex + 1) - 1 .. Len(b.buffer_)
        /\ b.writeIndex \in r .. Len(b.buffer_)
    BY <1>1, <1>2
  <2> QED  BY <1>1, <2>1, ConcatAdjacentSubSeq
<1> HIDE DEF r, d
<1>6. b' \in Buffers /\ b'.buffer_ = b.buffer_ /\ b'.readIndex = r
      /\ b'.writeIndex = b.writeIndex
  BY <1>1, <1>2, <1>3 DEF Buffers
<1>7. Proper(b')
  <2>1. kCheapPrepend <= Len(b.buffer_)
    BY DEF IInv, ReserveFits
  <2> QED  BY <1>1, <1>2, <1>6, <2>1 DEF Proper
<1>8. Content(b) = d \o Content(b')
  BY <1>5, <1>6 DEF Content
<1> QED  BY <1>3, <1>4, <1>7, <1>8 DEF Queue!Get, Calls

LEMMA RetrieveAllStep ==
    ASSUME IInv, NEW name \in {"retrieveAll", "retrieveAsString"},
           retrieveAll(name)
    PROVE  Proper(b') /\ Queue!GetAll /\ call' \in [name : Calls, data : Seq(Byte)]
<1>1. /\ Proper(b) /\ b \in Buffers /\ kCheapPrepend \in Nat
      /\ Content(b) \in Seq(Byte)
  BY ProperB, ContentProperties, BufferAssumption DEF Proper
<1>2. /\ b' \in Buffers /\ b'.buffer_ = b.buffer_
      /\ b'.readIndex = kCheapPrepend /\ b'.writeIndex = kCheapPrepend
  BY <1>1 DEF retrieveAll, Buffers
<1>3. Proper(b')
  BY <1>1, <1>2 DEF Proper
<1>4. Content(b') = <<>>
  <2>1. kCheapPrepend < kCheapPrepend + 1
    BY <1>1
  <2> QED  BY <1>1, <1>2, <2>1, SubSeqEmpty DEF Content
<1>5. call' = [name |-> name, data |-> Content(b)]
  BY DEF retrieveAll
<1> QED  BY <1>1, <1>3, <1>4, <1>5 DEF Queue!GetAll, Calls

----------------------------------------------------------------------------
(* The theorems.                                                           *)

LEMMA InitProper == Init => IInv
<1> SUFFICES ASSUME Init PROVE IInv
  OBVIOUS
<1> DEFINE n == kCheapPrepend + kInitialSize
           v == [i \in 1 .. n |-> 0]
<1>1. /\ n \in Nat /\ 0 \in Byte
      /\ kCheapPrepend \in Nat /\ kInitialSize \in Nat
      /\ kCheapPrepend <= kInitialSize
  BY BufferAssumption
<1>2. v \in Seq(Byte) /\ Len(v) = n
  <2>1. \A i \in 1 .. n : 0 \in Byte
    BY <1>1
  <2> QED  BY <1>1, <2>1, SeqDef
<1>3. /\ b = [buffer_ |-> v, readIndex |-> kCheapPrepend,
              writeIndex |-> kInitialSize]
      /\ call = [name |-> "ctor", data |-> <<>>]
  BY DEF Init
<1>4. /\ b.buffer_ = v /\ b.readIndex = kCheapPrepend
      /\ b.writeIndex = kInitialSize /\ b \in Buffers
  BY <1>1, <1>2, <1>3 DEF Buffers
<1>5. call \in [name : Calls, data : Seq(Byte)]
  BY <1>3, EmptySeq DEF Calls
<1> HIDE DEF v
<1>6. Proper(b)
  BY <1>1, <1>2, <1>4 DEF Proper
<1> QED
  BY <1>5, <1>6 DEF IInv, TypeOK, IndicesInRange, ReserveFits, Proper, Buffers

LEMMA StepProper == IInv /\ [Next]_vars => IInv' /\ [Queue!Next]_<<Content(b), call>>
<1> SUFFICES ASSUME IInv, [Next]_vars
             PROVE  IInv' /\ [Queue!Next]_<<Content(b), call>>
  OBVIOUS
<1>1. ASSUME Proper(b'), call' \in [name : Calls, data : Seq(Byte)]
      PROVE  IInv'
  BY <1>1 DEF IInv, TypeOK, IndicesInRange, ReserveFits, Proper, Buffers
<1>2. ASSUME NEW d \in Data, append(d) PROVE IInv' /\ Queue!Next
  BY <1>1, <1>2, AppendStep DEF Queue!Next
<1>3. ASSUME NEW d \in Data, readfd(d) PROVE IInv' /\ Queue!Next
  BY <1>1, <1>3, ReadfdStep DEF Queue!Next
<1>4. ASSUME NEW d \in Data, prepend(d) PROVE IInv' /\ Queue!Next
  BY <1>1, <1>4, PrependStep DEF Queue!Next
<1>5. ASSUME NEW len \in 0 .. MaxSize, retrieve(len) PROVE IInv' /\ Queue!Next
  BY <1>1, <1>5, RetrieveStep DEF Queue!Next
<1>6. ASSUME NEW name \in {"retrieveAll", "retrieveAsString"}, retrieveAll(name)
      PROVE  IInv' /\ Queue!Next
  BY <1>1, <1>6, RetrieveAllStep DEF Queue!Next
<1>7. CASE UNCHANGED vars
  BY <1>7 DEF vars, IInv, TypeOK, IndicesInRange, ReserveFits, Content
<1> QED  BY <1>2, <1>3, <1>4, <1>5, <1>6, <1>7 DEF Next

LEMMA Invariant == Spec => []IInv
<1>1. Init => IInv
  BY InitProper
<1>2. IInv /\ [Next]_vars => IInv'
  BY StepProper
<1> QED  BY <1>1, <1>2, PTL DEF Spec

\* The vector holds bytes and the indices never become negative.
THEOREM TypeCorrect == Spec => []TypeOK
<1>1. IInv => TypeOK
  BY DEF IInv
<1> QED  BY <1>1, Invariant, PTL

\* 0 <= readIndex <= writeIndex <= size, as Buffer.h draws it, as long as
\* neither shrink nor swap_demo is called.
THEOREM IndicesStayInRange == Spec => []IndicesInRange
<1>1. IInv => IndicesInRange
  BY DEF IInv
<1> QED  BY <1>1, Invariant, PTL

\* The assert()s of makeSpace and ensureWritableBytes hold in every append,
\* whatever was retrieved, prepended and read before.
THEOREM AssertsNeverFail == Spec => []AssertionsHold
<1>1. IInv => AssertionsHold
  <2> SUFFICES ASSUME IInv, NEW len \in 0 .. MaxLen
               PROVE  /\ AppendAsserts(b, len)
                      /\ AppendAsserts([b EXCEPT !.writeIndex = Len(b.buffer_)], len)
    BY DEF AssertionsHold
  <2> DEFINE x == [b EXCEPT !.writeIndex = Len(b.buffer_)]
  <2>1. len \in Nat /\ Proper(b) /\ Len(b.buffer_) \in Nat
    BY ProperB, BufferAssumption, LenProperties DEF Proper, Buffers
  <2>2. /\ x \in Buffers /\ x.buffer_ = b.buffer_ /\ x.readIndex = b.readIndex
        /\ x.writeIndex = Len(b.buffer_)
    BY <2>1 DEF Proper, Buffers
  <2> HIDE DEF x
  <2>3. Proper(x)
    BY <2>1, <2>2 DEF Proper, Buffers
  <2>4. AppendAsserts(b, len) /\ AppendAsserts(x, len)
    BY <2>1, <2>3, EnsureWritable
  <2> QED  BY <2>4 DEF x
<1> QED  BY <1>1, Invariant, PTL

\* Every operation does to the readable bytes what the same operation does
\* to a queue of bytes: moving or growing the vector, filling it from two
\* pieces and writing in front of the content lose and reorder nothing.
THEOREM StepsOfByteQueue == Spec => QueueSteps
<1>1. IInv /\ [Next]_vars => [Queue!Next]_<<Content(b), call>>
  BY StepProper
<1> QED  BY <1>1, Invariant, PTL DEF Spec, QueueSteps

----------------------------------------------------------------------------
(* AsyncLogging: the log's buffers, exchanged between the threads that     *)
(* append and the backend that writes.  Nothing above is composed with it. *)

CONSTANTS kLargeBuffer, kMaxBuffers, kKeptBuffers, MaxLines
VARIABLES running_, owner, latch, currentBuffer_, nextBuffer_, buffers_, backend,
          newBuffer1, newBuffer2, buffersToWrite, numLines, dropped, file, flushed

Log == INSTANCE AsyncLogging

\* The types of what threadFunc counts and moves.
BuffersTyped ==
    /\ currentBuffer_ \in Log!BufferPtr \ {Log!Null}
    /\ nextBuffer_ \in Log!BufferPtr
    /\ buffers_ \in Seq(Log!Buffer)
    /\ buffersToWrite \in Seq(Log!Buffer)
    /\ newBuffer1 \in Log!BufferPtr /\ newBuffer2 \in Log!BufferPtr
    /\ numLines \in 0 .. MaxLines

\* start() waits for the latch before stop() can clear running_.
StartupOrdered ==
    /\ backend = "entry" => owner = "starting" /\ latch = 1
    /\ backend = "none" => owner = "constructed" /\ latch = 1
    /\ owner = "constructed" => backend = "none"
    /\ owner = "starting" => running_

\* If append() has used the second buffer, it has queued the first: then
\* the backend will have two buffers to write when it needs two back.
SpareUsedMeansQueued == nextBuffer_ = Log!Null => buffers_ /= <<>>

\* The spare buffers at each point of the loop.
SparesAccounted ==
    /\ backend \in {"none", "entry"} => buffersToWrite = <<>>
    /\ backend \in {"flush", "test", "lock", "waiting"} =>
          /\ newBuffer1 = Log!Empty /\ newBuffer2 = Log!Empty /\ buffersToWrite = <<>>
    /\ backend \in {"write", "refill"} =>
          /\ newBuffer1 = Log!Null
          /\ newBuffer2 \in {Log!Null, Log!Empty}
          /\ Len(buffersToWrite) >= 1
          /\ newBuffer2 = Log!Null => Len(buffersToWrite) >= 2

\* The inductive invariant.
LogIInv == BuffersTyped /\ StartupOrdered /\ SpareUsedMeansQueued /\ SparesAccounted

----------------------------------------------------------------------------

LEMMA NullEmpty ==
    /\ Log!Null \in Log!BufferPtr /\ Log!Empty \in Log!BufferPtr /\ Log!Null /= Log!Empty
    /\ \A buf \in Log!Buffer : <<buf>> \in Log!BufferPtr /\ <<buf>> /= Log!Null
    /\ \A p \in Log!BufferPtr : p /= Log!Null => p[1] \in Log!Buffer
<1>1. <<>> \in Seq(Log!Buffer) /\ Len(<<>>) = 0 /\ <<>> \in Log!Buffer
  BY EmptySeq DEF Log!Buffer
<1>2. \A buf \in Log!Buffer : <<buf>> \in Seq(Log!Buffer) /\ Len(<<buf>>) = 1
  OBVIOUS
<1>3. \A p \in Seq(Log!Buffer) : p /= <<>> /\ Len(p) <= 1 => p[1] \in Log!Buffer
  <2> SUFFICES ASSUME NEW p \in Seq(Log!Buffer), p /= <<>>, Len(p) <= 1
               PROVE  p[1] \in Log!Buffer
    OBVIOUS
  <2>1. Len(p) \in Nat \ {0}
    BY EmptySeq
  <2> QED  BY <2>1, ElementOfSeq
<1> QED  BY <1>1, <1>2, <1>3 DEF Log!BufferPtr, Log!Null, Log!Empty

LEMMA LogInit ==
    ASSUME Log!AsyncLoggingAssumption, Log!Init
    PROVE  LogIInv
<1>1. BuffersTyped
  BY NullEmpty, EmptySeq, Log!AsyncLoggingAssumption DEF Log!Init, BuffersTyped
<1>2. StartupOrdered /\ SpareUsedMeansQueued /\ SparesAccounted
  BY NullEmpty DEF Log!Init, StartupOrdered, SpareUsedMeansQueued, SparesAccounted
<1> QED  BY <1>1, <1>2 DEF LogIInv

\* append by a thread: only the callers' buffers change.
LEMMA LogAppendStep == ASSUME Log!AsyncLoggingAssumption, LogIInv, Log!append PROVE LogIInv'
<1>1. numLines + 1 \in Log!Lines
  BY Log!AsyncLoggingAssumption DEF LogIInv, BuffersTyped, Log!append, Log!Lines
<1>2. currentBuffer_[1] \in Log!Buffer
  BY NullEmpty DEF LogIInv, BuffersTyped
<1>3. \A buf \in Log!Buffer : Append(buf, numLines + 1) \in Log!Buffer
  BY <1>1 DEF Log!Buffer
<1>4. <<numLines + 1>> \in Log!Buffer
  BY <1>1 DEF Log!Buffer
<1>5. currentBuffer_' \in Log!BufferPtr \ {Log!Null}
  <2>1. nextBuffer_ /= Log!Null => nextBuffer_[1] \in Log!Buffer
    BY NullEmpty DEF LogIInv, BuffersTyped
  <2> QED  BY <1>2, <1>3, <1>4, <2>1, NullEmpty DEF Log!append
<1>6. /\ nextBuffer_' \in Log!BufferPtr
      /\ buffers_' \in Seq(Log!Buffer)
      /\ nextBuffer_' = Log!Null => buffers_' /= <<>>
  <2>1. CASE UNCHANGED <<nextBuffer_, buffers_>>
    BY <2>1 DEF LogIInv, BuffersTyped, SpareUsedMeansQueued
  <2>2. CASE buffers_' = Append(buffers_, currentBuffer_[1]) /\ nextBuffer_' = Log!Null
    BY <1>2, <2>2, NullEmpty DEF LogIInv, BuffersTyped
  <2> QED  BY <2>1, <2>2 DEF Log!append
<1>7. numLines' \in 0 .. MaxLines
  BY Log!AsyncLoggingAssumption DEF LogIInv, BuffersTyped, Log!append
<1>8. UNCHANGED <<running_, owner, latch, backend, newBuffer1, newBuffer2,
                  buffersToWrite>>
  BY DEF Log!append, Log!ownerVars, Log!backendVars
<1> QED  BY <1>5, <1>6, <1>7, <1>8
         DEF LogIInv, BuffersTyped, StartupOrdered, SpareUsedMeansQueued,
             SparesAccounted

\* The owner's steps change only running_ and owner, and start the thread.
LEMMA LogOwnerStep == ASSUME LogIInv, Log!Owner PROVE LogIInv'
<1>1. UNCHANGED <<latch, Log!sharedVars, Log!backendVars, numLines>>
  BY DEF Log!Owner, Log!start, Log!latchWait, Log!stop, Log!join
<1>2. BuffersTyped' /\ SpareUsedMeansQueued'
  BY <1>1 DEF LogIInv, BuffersTyped, SpareUsedMeansQueued, Log!sharedVars, Log!backendVars
<1>3. StartupOrdered' /\ SparesAccounted'
  <2>1. CASE Log!start
    BY <1>1, <2>1 DEF LogIInv, StartupOrdered, SparesAccounted, Log!start, Log!backendVars
  <2>2. CASE Log!latchWait
    BY <1>1, <2>2 DEF LogIInv, StartupOrdered, SparesAccounted, Log!latchWait, Log!backendVars
  <2>3. CASE Log!stop
    BY <1>1, <2>3 DEF LogIInv, StartupOrdered, SparesAccounted, Log!stop, Log!backendVars
  <2>4. CASE Log!join
    BY <1>1, <2>4 DEF LogIInv, StartupOrdered, SparesAccounted, Log!join, Log!backendVars
  <2> QED  BY <2>1, <2>2, <2>3, <2>4 DEF Log!Owner
<1> QED  BY <1>2, <1>3 DEF LogIInv

\* The exchange of buffers under the mutex.
LEMMA LogTakeStep ==
    ASSUME LogIInv, Log!TakeBuffers, backend \in {"lock", "waiting"}
    PROVE  /\ currentBuffer_' \in Log!BufferPtr \ {Log!Null}
           /\ nextBuffer_' \in Log!BufferPtr /\ nextBuffer_' /= Log!Null
           /\ buffers_' \in Seq(Log!Buffer)
           /\ buffersToWrite' \in Seq(Log!Buffer)
           /\ newBuffer1' = Log!Null
           /\ newBuffer2' \in {Log!Null, Log!Empty}
           /\ Len(buffersToWrite') >= 1
           /\ newBuffer2' = Log!Null => Len(buffersToWrite') >= 2
<1>1. newBuffer1 = Log!Empty /\ newBuffer2 = Log!Empty
  BY DEF LogIInv, SparesAccounted
<1>2. currentBuffer_[1] \in Log!Buffer
  BY NullEmpty DEF LogIInv, BuffersTyped
<1>3. /\ buffersToWrite' \in Seq(Log!Buffer)
      /\ Len(buffersToWrite') = Len(buffers_) + 1 /\ Len(buffers_) \in Nat
  BY <1>2, LenProperties DEF LogIInv, BuffersTyped, Log!TakeBuffers
<1>4. nextBuffer_ = Log!Null => Len(buffers_) >= 1
  <2>1. nextBuffer_ = Log!Null => Len(buffers_) \in Nat \ {0}
    BY EmptySeq DEF LogIInv, SpareUsedMeansQueued, BuffersTyped
  <2> QED  BY <2>1
<1>5. buffers_' \in Seq(Log!Buffer)
  BY EmptySeq DEF Log!TakeBuffers
<1>6. currentBuffer_' \in Log!BufferPtr \ {Log!Null} /\ newBuffer1' = Log!Null
  BY <1>1, NullEmpty DEF Log!TakeBuffers
<1>7. CASE nextBuffer_ = Log!Null
  BY <1>1, <1>3, <1>4, <1>5, <1>6, <1>7, NullEmpty DEF Log!TakeBuffers
<1>8. CASE nextBuffer_ /= Log!Null
  <2>1. nextBuffer_' = nextBuffer_ /\ newBuffer2' = Log!Empty
    BY <1>1, <1>8 DEF Log!TakeBuffers
  <2>2. Len(buffersToWrite') >= 1
    BY <1>3
  <2> QED  BY <1>3, <1>5, <1>6, <1>8, <2>1, <2>2, NullEmpty DEF LogIInv, BuffersTyped
<1> QED  BY <1>7, <1>8

\* Of the buffers that were written, at most two are kept, and both if there
\* were two or more.
LEMMA KeptProperties ==
    ASSUME Log!AsyncLoggingAssumption, LogIInv
    PROVE  LET k == IF Len(Log!Kept) > 2 THEN SubSeq(Log!Kept, 1, 2) ELSE Log!Kept
           IN  /\ k \in Seq(Log!Buffer)
               /\ Len(buffersToWrite) >= 1 => Len(k) >= 1
               /\ Len(buffersToWrite) >= 2 => Len(k) >= 2
<1>1. buffersToWrite \in Seq(Log!Buffer) /\ Len(buffersToWrite) \in Nat
  BY LenProperties DEF LogIInv, BuffersTyped
<1>2. ASSUME NEW s \in Seq(Log!Buffer), NEW n \in Nat, n <= Len(s)
      PROVE  SubSeq(s, 1, n) \in Seq(Log!Buffer) /\ Len(SubSeq(s, 1, n)) = n
  <2>1. \A i \in 1 .. n : s[i] \in Log!Buffer
    <3> SUFFICES ASSUME NEW i \in 1 .. n PROVE s[i] \in Log!Buffer
      OBVIOUS
    <3>1. i \in 1 .. Len(s)
      BY <1>2, LenProperties
    <3> QED  BY <3>1, ElementOfSeq
  <2>2. /\ SubSeq(s, 1, n) \in Seq(Log!Buffer)
        /\ Len(SubSeq(s, 1, n)) = IF 1 <= n THEN n - 1 + 1 ELSE 0
    BY <2>1, SubSeqProperties
  <2> QED  BY <2>2
<1>3. /\ Log!Kept \in Seq(Log!Buffer) /\ Len(Log!Kept) \in Nat
      /\ Len(Log!Kept) = Len(buffersToWrite) \/ Len(Log!Kept) >= 2
  <2>1. CASE Len(buffersToWrite) > kMaxBuffers
    <3>1. kKeptBuffers \in Nat /\ kKeptBuffers <= Len(buffersToWrite) /\ kKeptBuffers >= 2
      BY <1>1, <2>1, Log!AsyncLoggingAssumption
    <3>2. Log!Kept = SubSeq(buffersToWrite, 1, kKeptBuffers)
      BY <2>1 DEF Log!Kept
    <3> QED  BY <1>1, <1>2, <3>1, <3>2
  <2>2. CASE ~(Len(buffersToWrite) > kMaxBuffers)
    BY <1>1, <2>2 DEF Log!Kept
  <2> QED  BY <2>1, <2>2
<1> HIDE DEF Log!Kept
<1>4. CASE Len(Log!Kept) > 2
  BY <1>2, <1>3, <1>4
<1>5. CASE ~(Len(Log!Kept) > 2)
  BY <1>1, <1>3, <1>5
<1> QED  BY <1>4, <1>5

LEMMA LogBackendStep == ASSUME Log!AsyncLoggingAssumption, LogIInv, Log!Backend PROVE LogIInv'
<1> USE DEF Log!ownerVars, Log!sharedVars, Log!backendVars
<1>1. CASE Log!threadEntry
  <2>1. newBuffer1' = Log!Empty /\ newBuffer2' = Log!Empty /\ backend' = "test"
        /\ UNCHANGED <<Log!ownerVars, Log!sharedVars, buffersToWrite, numLines>>
    BY <1>1 DEF Log!threadEntry
  <2>2. BuffersTyped' /\ SpareUsedMeansQueued'
    BY <2>1, NullEmpty DEF LogIInv, BuffersTyped, SpareUsedMeansQueued
  <2>3. buffersToWrite = <<>>
    BY <1>1 DEF LogIInv, SparesAccounted, Log!threadEntry
  <2>4. StartupOrdered' /\ SparesAccounted'
    BY <1>1, <2>1, <2>3 DEF LogIInv, StartupOrdered, SparesAccounted, Log!threadEntry
  <2> QED  BY <2>2, <2>4 DEF LogIInv
<1>2. CASE Log!testRunning \/ Log!lockAndWait \/ Log!flush
  <2>1. /\ UNCHANGED <<Log!ownerVars, latch, Log!sharedVars, Log!backendVars, numLines>>
        /\ backend \in {"test", "lock", "flush", "exit"}
        /\ backend' \in {"test", "lock", "exit", "waiting", "done"}
        /\ backend = "exit" => backend' = "done"
    BY <1>2 DEF Log!testRunning, Log!lockAndWait, Log!flush
  <2>2. BuffersTyped' /\ SpareUsedMeansQueued'
    BY <2>1 DEF LogIInv, BuffersTyped, SpareUsedMeansQueued
  <2>3. StartupOrdered'
    BY <2>1 DEF LogIInv, StartupOrdered
  <2>4. SparesAccounted'
    BY <2>1 DEF LogIInv, SparesAccounted
  <2> QED  BY <2>2, <2>3, <2>4 DEF LogIInv
<1>3. CASE Log!lockAndSwap \/ Log!waitReturns
  <2>1. /\ Log!TakeBuffers /\ backend \in {"lock", "waiting"} /\ backend' = "write"
        /\ UNCHANGED <<Log!ownerVars, latch, numLines>>
    BY <1>3 DEF Log!lockAndSwap, Log!waitReturns
  <2>2. /\ currentBuffer_' \in Log!BufferPtr \ {Log!Null}
        /\ nextBuffer_' \in Log!BufferPtr /\ nextBuffer_' /= Log!Null
        /\ buffers_' \in Seq(Log!Buffer)
        /\ buffersToWrite' \in Seq(Log!Buffer)
        /\ newBuffer1' = Log!Null
        /\ newBuffer2' \in {Log!Null, Log!Empty}
        /\ Len(buffersToWrite') >= 1
        /\ newBuffer2' = Log!Null => Len(buffersToWrite') >= 2
    BY <2>1, LogTakeStep
  <2>3. BuffersTyped'
    BY <2>1, <2>2, NullEmpty DEF LogIInv, BuffersTyped
  <2>4. SpareUsedMeansQueued' /\ SparesAccounted'
    BY <2>1, <2>2 DEF SpareUsedMeansQueued, SparesAccounted
  <2>5. StartupOrdered'
    BY <2>1 DEF LogIInv, StartupOrdered
  <2> QED  BY <2>3, <2>4, <2>5 DEF LogIInv
<1>4. CASE Log!writeBuffers
  <2> DEFINE k == IF Len(Log!Kept) > 2 THEN SubSeq(Log!Kept, 1, 2) ELSE Log!Kept
  <2>1. /\ k \in Seq(Log!Buffer)
        /\ Len(buffersToWrite) >= 1 => Len(k) >= 1
        /\ Len(buffersToWrite) >= 2 => Len(k) >= 2
    BY KeptProperties
  <2>2. /\ buffersToWrite' = k
        /\ backend = "write" /\ backend' = "refill"
        /\ UNCHANGED <<Log!ownerVars, latch, Log!sharedVars, newBuffer1, newBuffer2, numLines>>
    BY <1>4 DEF Log!writeBuffers
  <2> HIDE DEF k
  <2> QED  BY <2>1, <2>2 DEF LogIInv, BuffersTyped, StartupOrdered,
                             SpareUsedMeansQueued, SparesAccounted
<1>5. CASE Log!refill
  <2>1. newBuffer1' = Log!Empty /\ newBuffer2' = Log!Empty
    BY <1>5 DEF LogIInv, SparesAccounted, Log!refill
  <2>2. /\ buffersToWrite' = <<>>
        /\ backend = "refill" /\ backend' = "flush"
        /\ UNCHANGED <<Log!ownerVars, latch, Log!sharedVars, numLines>>
    BY <1>5 DEF Log!refill
  <2>3. BuffersTyped'
    BY <2>1, <2>2, NullEmpty, EmptySeq DEF LogIInv, BuffersTyped
  <2> QED  BY <2>1, <2>2, <2>3 DEF LogIInv, StartupOrdered, SpareUsedMeansQueued,
                                   SparesAccounted
<1> QED  BY <1>1, <1>2, <1>3, <1>4, <1>5 DEF Log!Backend

LEMMA LogStutter == ASSUME LogIInv, UNCHANGED Log!vars PROVE LogIInv'
BY DEF Log!vars, LogIInv, BuffersTyped, StartupOrdered, SpareUsedMeansQueued,
       SparesAccounted

LEMMA LogInvariant ==
    ASSUME Log!AsyncLoggingAssumption
    PROVE  Log!Spec => []LogIInv
<1>1. LogIInv /\ [Log!Next]_(Log!vars) => LogIInv'
  BY LogAppendStep, LogOwnerStep, LogBackendStep, LogStutter DEF Log!Next
<1> QED  BY LogInit, <1>1, PTL DEF Log!Spec

\* None of threadFunc's assert()s fails: the thread starts with running_
\* set, the spare buffers are present and empty at the top of the loop, and
\* the written buffers suffice to replace them, whatever the threads append
\* and whenever the wait ends, for every size of a buffer and every limit on
\* their number.
THEOREM LoggerAssertsNeverFail ==
    ASSUME Log!AsyncLoggingAssumption
    PROVE  Log!Spec => []Log!AssertionsHold
<1>1. LogIInv => Log!AssertionsHold
  <2> SUFFICES ASSUME LogIInv PROVE Log!AssertionsHold
    OBVIOUS
  <2>1. backend = "entry" => running_
    BY DEF LogIInv, StartupOrdered
  <2>2. backend = "lock" => /\ newBuffer1 = Log!Empty /\ newBuffer2 = Log!Empty
                            /\ buffersToWrite = <<>>
    BY DEF LogIInv, SparesAccounted
  <2>3. backend = "write" => buffersToWrite /= <<>>
    BY EmptySeq DEF LogIInv, SparesAccounted
  <2>4. backend = "refill" => Log!Missing <= Len(buffersToWrite)
    <3> SUFFICES ASSUME backend = "refill" PROVE Log!Missing <= Len(buffersToWrite)
      OBVIOUS
    <3>1. Len(buffersToWrite) \in Nat
      BY LenProperties DEF LogIInv, BuffersTyped
    <3> QED  BY <3>1, NullEmpty DEF LogIInv, SparesAccounted, Log!Missing
  <2> QED  BY <2>1, <2>2, <2>3, <2>4 DEF Log!AssertionsHold
<1> QED  BY <1>1, LogInvariant, PTL

----------------------------------------------------------------------------
(* FlattenSeq is a recursive function of the community modules.  What it   *)
(* returns is found by looking at the least index at which it would not.   *)

Less == {p \in Nat \X Nat : p[1] < p[2]}

\* A set of numbers has a least one: what the lemmas below use instead of
\* an induction.
LEMMA LeastNatural ==
    ASSUME NEW T, T \subseteq Nat, T /= {}
    PROVE  \E x \in T : \A y \in T : x <= y
<1>1. OpToRel(<, Nat) = Less
  BY Zenon DEF OpToRel, Less
<1>2. IsWellFoundedOn(Less, Nat)
  BY <1>1, NatLessThanWellFounded, Zenon
<1>3. PICK x \in T : \A y \in T : ~(<<y, x>> \in Less)
  BY <1>2, WFMin
<1>4. \A a, c \in Nat : a < c => <<a, c>> \in Less
  BY DEF Less
<1>5. \A y \in T : ~(y < x)
  BY <1>3, <1>4
<1>6. \A y \in T : x <= y
  BY <1>5
<1> QED
  BY <1>6

\* f[i] is the concatenation of the first i elements of s, for the first n.
Flattens(f, s, n) ==
    \A i \in 1 .. n : f[i] = IF i = 1 THEN s[i] ELSE f[i - 1] \o s[i]

LEMMA FlattensFewer ==
    ASSUME NEW f, NEW s, NEW n \in Nat, NEW m \in 0 .. n, Flattens(f, s, n)
    PROVE  Flattens(f, s, m)
<1>1. \A i \in 1 .. m : i \in 1 .. n
  OBVIOUS
<1> QED
  BY <1>1 DEF Flattens

LEMMA Associative ==
    ASSUME NEW S
    PROVE  \A a, c, d \in Seq(S) : (a \o c) \o d = a \o (c \o d)
BY ConcatAssociative

LEMMA FlattensUnique ==
    ASSUME NEW f, NEW g, NEW s, NEW t, NEW n \in Nat, Flattens(f, s, n), Flattens(g, t, n),
           \A i \in 1 .. n : s[i] = t[i]
    PROVE  \A i \in 1 .. n : f[i] = g[i]
<1> SUFFICES ASSUME NEW j \in 1 .. n, f[j] /= g[j] PROVE FALSE
  OBVIOUS
<1> DEFINE T == {i \in 1 .. n : f[i] /= g[i]}
<1>1. T \subseteq Nat /\ T /= {}
  OBVIOUS
<1>2. PICK i \in T : \A k \in T : i <= k
  <2> HIDE DEF T
  <2> QED BY <1>1, LeastNatural
<1>3. i \in 1 .. n /\ f[i] /= g[i]
  BY <1>2
<1>4. i /= 1 => f[i - 1] = g[i - 1]
  <2> SUFFICES ASSUME i /= 1, f[i - 1] /= g[i - 1] PROVE FALSE
    OBVIOUS
  <2>1. i - 1 \in T
    BY <1>3
  <2> QED
    BY <1>2, <1>3, <2>1
<1> QED
  BY <1>3, <1>4 DEF Flattens

\* There is such a function, and there is one.
LEMMA FlattensExists ==
    ASSUME NEW S, NEW s \in Seq(Seq(S))
    PROVE  \E f \in [1 .. Len(s) -> Seq(S)] : Flattens(f, s, Len(s))
<1> DEFINE P(n) == \E f \in [1 .. n -> Seq(S)] : Flattens(f, s, n)
           T == {n \in 0 .. Len(s) : ~P(n)}
<1>0. Len(s) \in Nat /\ \A i \in 1 .. Len(s) : s[i] \in Seq(S)
  BY LenProperties, ElementOfSeq
<1> SUFFICES ASSUME ~P(Len(s)) PROVE FALSE
  OBVIOUS
<1>1. T \subseteq Nat /\ T /= {}
  BY <1>0
<1>2. PICK n \in T : \A k \in T : n <= k
  <2> HIDE DEF T
  <2> QED BY <1>1, LeastNatural
<1>3. n \in 0 .. Len(s) /\ ~P(n)
  BY <1>2
<1>4. n /= 0
  <2> SUFFICES ASSUME n = 0 PROVE P(n)
    BY <1>3
  <2>1. [i \in 1 .. 0 |-> <<>>] \in [1 .. 0 -> Seq(S)]
    OBVIOUS
  <2>2. Flattens([i \in 1 .. 0 |-> <<>>], s, 0)
    BY DEF Flattens
  <2> QED
    BY <2>1, <2>2
<1>5. n - 1 \in 0 .. Len(s) /\ P(n - 1)
  <2>1. n - 1 \in 0 .. Len(s) /\ n - 1 \notin T
    <3>1. n \in Nat /\ n - 1 \in 0 .. Len(s) /\ ~(n <= n - 1)
      BY <1>0, <1>3, <1>4
    <3> HIDE DEF T
    <3> QED
      BY <1>2, <3>1
  <2> QED
    BY <2>1
<1>6. PICK f \in [1 .. n - 1 -> Seq(S)] : Flattens(f, s, n - 1)
  BY <1>5
<1> DEFINE g == [i \in 1 .. n |-> IF i < n THEN f[i]
                                  ELSE IF n = 1 THEN s[n] ELSE f[n - 1] \o s[n]]
<1>7. s[n] \in Seq(S) /\ (n /= 1 => f[n - 1] \in Seq(S))
  BY <1>0, <1>3, <1>4
<1>8. g \in [1 .. n -> Seq(S)]
  <2> SUFFICES ASSUME NEW i \in 1 .. n
               PROVE  (IF i < n THEN f[i] ELSE IF n = 1 THEN s[n] ELSE f[n - 1] \o s[n]) \in Seq(S)
    OBVIOUS
  <2>1. CASE i < n
    BY <1>3, <2>1
  <2>2. CASE i = n
    BY <1>3, <1>7, <2>2, ConcatProperties
  <2> QED
    BY <1>3, <2>1, <2>2
<1>9. Flattens(g, s, n)
  <2> SUFFICES ASSUME NEW i \in 1 .. n
               PROVE  g[i] = IF i = 1 THEN s[i] ELSE g[i - 1] \o s[i]
    BY DEF Flattens
  <2>1. CASE i < n
    <3>1. i \in 1 .. n - 1 /\ g[i] = f[i] /\ (i /= 1 => g[i - 1] = f[i - 1])
      BY <1>3, <2>1
    <3> QED
      BY <1>6, <3>1 DEF Flattens
  <2>2. CASE i = n
    <3>1. g[n] = (IF n = 1 THEN s[n] ELSE f[n - 1] \o s[n]) /\ (n /= 1 => g[n - 1] = f[n - 1])
      BY <1>3, <1>4
    <3> QED
      BY <2>2, <3>1
  <2> QED
    BY <1>3, <2>1, <2>2
<1> QED
  BY <1>3, <1>8, <1>9

\* What FlattenSeq returns.
LEMMA FlattenSeqValue ==
    ASSUME NEW S, NEW s \in Seq(Seq(S)), s /= <<>>
    PROVE  \E f : /\ Flattens(f, s, Len(s)) /\ Log!FlattenSeq(s) = f[Len(s)]
                  /\ \A i \in 1 .. Len(s) : f[i] \in Seq(S)
<1> DEFINE R(f) == [i \in 1 .. Len(s) |-> IF i = 1 THEN s[i] ELSE f[i - 1] \o s[i]]
           F == CHOOSE f : f = R(f)
<1>1. Len(s) \in Nat \ {0}
  BY EmptySeq, LenProperties
<1>2. Log!FlattenSeq(s) = F[Len(s)]
  BY <1>1, Zenon DEF Log!FlattenSeq
<1>3. PICK f \in [1 .. Len(s) -> Seq(S)] : Flattens(f, s, Len(s))
  BY FlattensExists
<1>4. f = R(f)
  <2>1. \A i \in 1 .. Len(s) : f[i] = R(f)[i]
    BY <1>3 DEF Flattens
  <2> QED
    BY <2>1
<1>5. F = R(F)
  <2> DEFINE Fixed(h) == h = R(h)
  <2>1. \E h : Fixed(h)
    BY <1>4
  <2>2. F = CHOOSE h : Fixed(h)
    OBVIOUS
  <2> HIDE DEF Fixed, F
  <2>3. Fixed(F)
    BY <2>1, <2>2, Zenon
  <2> QED
    BY <2>3 DEF Fixed
<1> HIDE DEF F
<1>6. \A i \in 1 .. Len(s) : F[i] = f[i]
  <2>1. Flattens(F, s, Len(s))
    BY <1>5 DEF Flattens
  <2> QED
    BY <1>1, <1>3, <2>1, FlattensUnique
<1>7. Log!FlattenSeq(s) = f[Len(s)]
  BY <1>1, <1>2, <1>6
<1> QED
  BY <1>3, <1>7

LEMMA FlattenEmpty == Log!FlattenSeq(<<>>) = <<>>
BY DEF Log!FlattenSeq

\* One more sequence at the end.
LEMMA FlattenAppend ==
    ASSUME NEW S, NEW s \in Seq(Seq(S)), NEW x \in Seq(S)
    PROVE  /\ Log!FlattenSeq(s) \in Seq(S)
           /\ Log!FlattenSeq(Append(s, x)) = Log!FlattenSeq(s) \o x
<1> DEFINE t == Append(s, x)
<1>1. /\ t \in Seq(Seq(S)) /\ t /= <<>> /\ Len(s) \in Nat /\ Len(t) = Len(s) + 1
      /\ t[Len(s) + 1] = x /\ \A i \in 1 .. Len(s) : t[i] = s[i]
  BY AppendProperties, LenProperties
<1> HIDE DEF t
<1>2. PICK g : Flattens(g, t, Len(t)) /\ Log!FlattenSeq(t) = g[Len(t)]
  BY <1>1, FlattenSeqValue
<1>3. CASE s = <<>>
  <2>1. Len(s) = 0 /\ Log!FlattenSeq(s) = <<>>
    BY <1>3, FlattenEmpty
  <2>2. g[Len(t)] = x
    BY <1>1, <1>2, <2>1 DEF Flattens
  <2> QED
    BY <1>2, <2>1, <2>2, ConcatEmptySeq DEF t
<1>4. CASE s /= <<>>
  <2>1. Len(s) \in 1 .. Len(s)
    BY <1>1, <1>4, EmptySeq
  <2>2. PICK f : /\ Flattens(f, s, Len(s)) /\ Log!FlattenSeq(s) = f[Len(s)]
                 /\ \A i \in 1 .. Len(s) : f[i] \in Seq(S)
    BY <1>4, FlattenSeqValue
  <2>3. Flattens(g, t, Len(s))
    <3>1. Len(t) \in Nat /\ Len(s) \in 0 .. Len(t)
      BY <1>1
    <3> QED
      BY <1>2, <3>1, FlattensFewer
  <2>4. f[Len(s)] = g[Len(s)]
    <3>1. \A i \in 1 .. Len(s) : f[i] = g[i]
      <4>1. \A i \in 1 .. Len(s) : s[i] = t[i]
        BY <1>1
      <4> QED
        <5>1. Len(s) \in Nat /\ Flattens(f, s, Len(s))
          BY <1>1, <2>2
        <5> QED
          BY <2>3, <4>1, <5>1, FlattensUnique
    <3> QED
      BY <2>1, <3>1
  <2>5. g[Len(t)] = g[Len(s)] \o x
    <3>1. Len(t) \in 1 .. Len(t) /\ Len(t) /= 1 /\ Len(t) - 1 = Len(s) /\ t[Len(t)] = x
      BY <1>1, <2>1
    <3>2. g[Len(t)] = IF Len(t) = 1 THEN t[Len(t)] ELSE g[Len(t) - 1] \o t[Len(t)]
      BY <1>2, <3>1, Zenon DEF Flattens
    <3> QED
      BY <3>1, <3>2
  <2> QED
    BY <1>2, <2>1, <2>2, <2>4, <2>5 DEF t
<1> QED
  BY <1>3, <1>4

\* The first k sequences come first.
LEMMA FlattenPrefix ==
    ASSUME NEW S, NEW s \in Seq(Seq(S)), NEW k \in 1 .. Len(s)
    PROVE  \E r \in Seq(S) : Log!FlattenSeq(s) = Log!FlattenSeq(SubSeq(s, 1, k)) \o r
<1>0. Len(s) \in Nat /\ s /= <<>> /\ \A i \in 1 .. Len(s) : s[i] \in Seq(S)
  BY LenProperties, ElementOfSeq, EmptySeq
<1>1. PICK f : /\ Flattens(f, s, Len(s)) /\ Log!FlattenSeq(s) = f[Len(s)]
               /\ \A i \in 1 .. Len(s) : f[i] \in Seq(S)
  BY <1>0, FlattenSeqValue
<1>7. \A a, c, d \in Seq(S) : (a \o c) \o d = a \o (c \o d)
  BY Associative
<1> DEFINE t == SubSeq(s, 1, k)
<1>2. t \in Seq(Seq(S)) /\ t /= <<>> /\ Len(t) = k /\ \A i \in 1 .. k : t[i] = s[i]
  <2>1. \A i \in 1 .. k : s[i] \in Seq(S)
    BY <1>0
  <2>2. /\ t \in Seq(Seq(S))
        /\ Len(t) = IF 1 <= k THEN k - 1 + 1 ELSE 0
        /\ \A i \in 1 .. k - 1 + 1 : t[i] = s[1 + i - 1]
    BY <2>1, SubSeqProperties
  <2>3. Len(t) = k /\ k - 1 + 1 = k /\ \A i \in 1 .. k : 1 + i - 1 = i
    BY <1>0, <2>2
  <2> HIDE DEF t
  <2>4. t /= <<>>
    BY <1>0, <2>3
  <2>5. \A i \in 1 .. k : t[i] = s[i]
    BY <2>2, <2>3
  <2> QED
    BY <2>2, <2>3, <2>4, <2>5
<1> HIDE DEF t
<1>3. PICK g : Flattens(g, t, k) /\ Log!FlattenSeq(t) = g[k]
  BY <1>2, FlattenSeqValue
<1>4. Flattens(f, s, k)
  BY <1>0, <1>1, FlattensFewer
<1>5. Log!FlattenSeq(t) = f[k]
  <2>1. k \in Nat /\ k \in 1 .. k
    BY <1>0
  <2>2. \A i \in 1 .. k : g[i] = f[i]
    <3>1. Flattens(g, t, k) /\ \A i \in 1 .. k : t[i] = s[i]
      BY <1>2, <1>3
    <3> QED
      BY <1>4, <2>1, <3>1, FlattensUnique
  <2> QED
    BY <1>3, <2>1, <2>2
<1> DEFINE P(n) == \E r \in Seq(S) : f[n] = f[k] \o r
           T == {n \in k .. Len(s) : ~P(n)}
<1>6. P(Len(s))
  <2> SUFFICES ASSUME ~P(Len(s)) PROVE FALSE
    OBVIOUS
  <2>1. T \subseteq Nat /\ T /= {}
    <3>1. Len(s) \in k .. Len(s) /\ k .. Len(s) \subseteq Nat
      BY <1>0
    <3> HIDE DEF P
    <3> QED
      BY <3>1
  <2>2. PICK n \in T : \A m \in T : n <= m
    <3> HIDE DEF T
    <3> QED BY <2>1, LeastNatural
  <2>3. n \in k .. Len(s) /\ ~P(n)
    BY <2>2
  <2>4. f[k] \in Seq(S)
    BY <1>1
  <2>5. n /= k
    <3> SUFFICES ASSUME n = k PROVE P(n)
      BY <2>3
    <3>1. f[k] = f[k] \o <<>> /\ <<>> \in Seq(S)
      BY <2>4, ConcatEmptySeq, EmptySeq
    <3> QED
      BY <3>1
  <2>6. P(n - 1)
    <3>1. n - 1 \in k .. Len(s) /\ ~(n <= n - 1)
      BY <1>0, <2>3, <2>5
    <3>2. n - 1 \notin T
      <4> HIDE DEF T
      <4> QED BY <2>2, <3>1
    <3> QED
      BY <3>1, <3>2
  <2>7. PICK r \in Seq(S) : f[n - 1] = f[k] \o r
    BY <2>6
  <2>8. f[n] = f[n - 1] \o s[n] /\ s[n] \in Seq(S)
    <3>1. n \in 1 .. Len(s) /\ n /= 1
      BY <1>0, <2>3, <2>5
    <3>2. f[n] = IF n = 1 THEN s[n] ELSE f[n - 1] \o s[n]
      BY <1>1, <3>1, Zenon DEF Flattens
    <3> QED
      BY <1>0, <3>1, <3>2
  <2>9. f[n] = f[k] \o (r \o s[n]) /\ r \o s[n] \in Seq(S)
    <3>1. (f[k] \o r) \o s[n] = f[k] \o (r \o s[n])
      BY <1>7, <2>4, <2>8, Zenon
    <3>2. r \o s[n] \in Seq(S)
      BY <2>8, ConcatProperties
    <3> QED
      BY <2>7, <2>8, <3>1, <3>2
  <2> QED
    BY <2>3, <2>9
<1> QED
  BY <1>1, <1>5, <1>6 DEF t

\* Lines in the order of their numbers, the lines of a sequence, and lines
\* that precede others.
Inc(s) == \A i, j \in 1 .. Len(s) : i < j => s[i] < s[j]
Elems(s) == {s[i] : i \in 1 .. Len(s)}
Below(A, B) == \A x \in A, y \in B : x < y

LEMMA SmallLines ==
    /\ Inc(<<>>) /\ Elems(<<>>) = {}
    /\ \A x : Inc(<<x>>) /\ Elems(<<x>>) = {x}
BY DEF Inc, Elems

\* Two sequences of lines, one behind the other.
LEMMA ConcatLines ==
    ASSUME NEW S, NEW a \in Seq(S), NEW c \in Seq(S)
    PROVE  /\ a \o c \in Seq(S)
           /\ Elems(a \o c) = Elems(a) \cup Elems(c)
           /\ Inc(a \o c) <=> Inc(a) /\ Inc(c) /\ Below(Elems(a), Elems(c))
<1> DEFINE d == a \o c
<1>1. /\ d \in Seq(S) /\ Len(a) \in Nat /\ Len(c) \in Nat /\ Len(d) = Len(a) + Len(c)
      /\ \A i \in 1 .. Len(a) : d[i] = a[i]
      /\ \A i \in 1 .. Len(c) : d[Len(a) + i] = c[i]
  OBVIOUS
<1> HIDE DEF d
<1>2. \A i \in 1 .. Len(d) :
          i \in 1 .. Len(a) \/ (i - Len(a) \in 1 .. Len(c) /\ i = Len(a) + (i - Len(a)))
  BY <1>1
<1>3. \A i \in 1 .. Len(d) :
          \/ i \in 1 .. Len(a) /\ d[i] = a[i]
          \/ i - Len(a) \in 1 .. Len(c) /\ d[i] = c[i - Len(a)]
  BY <1>1, <1>2
<1>4. /\ \A i \in 1 .. Len(a) : i \in 1 .. Len(d)
      /\ \A i \in 1 .. Len(c) : Len(a) + i \in 1 .. Len(d)
  BY <1>1
<1>5. Elems(d) = Elems(a) \cup Elems(c)
  <2>1. ASSUME NEW x \in Elems(d) PROVE x \in Elems(a) \cup Elems(c)
    <3>1. PICK i \in 1 .. Len(d) : x = d[i]
      BY <2>1 DEF Elems
    <3> QED
      BY <1>3, <3>1 DEF Elems
  <2>2. ASSUME NEW x \in Elems(a) PROVE x \in Elems(d)
    <3>1. PICK i \in 1 .. Len(a) : x = a[i]
      BY <2>2 DEF Elems
    <3>2. i \in 1 .. Len(d) /\ x = d[i]
      BY <1>1, <1>4, <3>1
    <3> QED
      BY <3>2 DEF Elems
  <2>3. ASSUME NEW x \in Elems(c) PROVE x \in Elems(d)
    <3>1. PICK i \in 1 .. Len(c) : x = c[i]
      BY <2>3 DEF Elems
    <3>2. Len(a) + i \in 1 .. Len(d) /\ x = d[Len(a) + i]
      BY <1>1, <1>4, <3>1
    <3> QED
      BY <3>2 DEF Elems
  <2> QED
    BY <2>1, <2>2, <2>3
<1>6. ASSUME Inc(d) PROVE Inc(a) /\ Inc(c) /\ Below(Elems(a), Elems(c))
  <2>1. Inc(a)
    BY <1>1, <1>4, <1>6 DEF Inc
  <2>2. Inc(c)
    <3> SUFFICES ASSUME NEW i \in 1 .. Len(c), NEW j \in 1 .. Len(c), i < j
                 PROVE  c[i] < c[j]
      BY DEF Inc
    <3>1. Len(a) + i \in 1 .. Len(d) /\ Len(a) + j \in 1 .. Len(d) /\ Len(a) + i < Len(a) + j
      BY <1>1, <1>4
    <3>2. d[Len(a) + i] < d[Len(a) + j]
      BY <1>6, <3>1 DEF Inc
    <3> QED
      BY <1>1, <3>2
  <2>3. ASSUME NEW i \in 1 .. Len(a), NEW j \in 1 .. Len(c) PROVE a[i] < c[j]
    <3>1. i \in 1 .. Len(d) /\ Len(a) + j \in 1 .. Len(d) /\ i < Len(a) + j
      BY <1>1, <1>4
    <3>2. d[i] < d[Len(a) + j]
      BY <1>6, <3>1 DEF Inc
    <3> QED
      BY <1>1, <3>2
  <2> QED
    BY <2>1, <2>2, <2>3 DEF Below, Elems
<1>7. ASSUME Inc(a), Inc(c), Below(Elems(a), Elems(c)) PROVE Inc(d)
  <2> SUFFICES ASSUME NEW i \in 1 .. Len(d), NEW j \in 1 .. Len(d), i < j
               PROVE  d[i] < d[j]
    BY DEF Inc
  <2>1. CASE j \in 1 .. Len(a) /\ d[j] = a[j]
    <3>1. i \in 1 .. Len(a) /\ d[i] = a[i]
      BY <1>1, <2>1
    <3> QED
      BY <1>7, <2>1, <3>1 DEF Inc
  <2>2. CASE j - Len(a) \in 1 .. Len(c) /\ d[j] = c[j - Len(a)]
    <3>1. CASE i \in 1 .. Len(a) /\ d[i] = a[i]
      <4>1. d[i] \in Elems(a) /\ d[j] \in Elems(c)
        BY <2>2, <3>1 DEF Elems
      <4> QED
        BY <1>7, <4>1 DEF Below
    <3>2. CASE i - Len(a) \in 1 .. Len(c) /\ d[i] = c[i - Len(a)]
      <4>1. i - Len(a) < j - Len(a)
        BY <1>1
      <4> QED
        BY <1>7, <2>2, <3>2, <4>1 DEF Inc
    <3> QED
      BY <1>3, <3>1, <3>2
  <2> QED
    BY <1>3, <2>1, <2>2
<1> QED
  BY <1>1, <1>5, <1>6, <1>7 DEF d

\* Four pieces in a row, as NothingElseLost puts them together.
InOrder(a, w, c, d) ==
    /\ Inc(a) /\ Inc(w) /\ Inc(c) /\ Inc(d)
    /\ Below(Elems(a), Elems(w)) /\ Below(Elems(a), Elems(c)) /\ Below(Elems(a), Elems(d))
    /\ Below(Elems(w), Elems(c)) /\ Below(Elems(w), Elems(d))
    /\ Below(Elems(c), Elems(d))

LEMMA FourPieces ==
    ASSUME NEW S, NEW a \in Seq(S), NEW w \in Seq(S), NEW c \in Seq(S), NEW d \in Seq(S)
    PROVE  LET s == a \o (w \o c \o d)
           IN  /\ s \in Seq(S)
               /\ Inc(s) <=> InOrder(a, w, c, d)
               /\ Elems(s) = Elems(a) \cup Elems(w) \cup Elems(c) \cup Elems(d)
<1> DEFINE Joined(x, y, z) ==
               /\ z = x \o y /\ z \in Seq(S) /\ Elems(z) = Elems(x) \cup Elems(y)
               /\ Inc(z) <=> Inc(x) /\ Inc(y) /\ Below(Elems(x), Elems(y))
<1>0. \A x, y \in Seq(S) : Joined(x, y, x \o y)
  BY ConcatLines
<1>1. PICK p \in Seq(S) : Joined(w, c, p)
  BY <1>0
<1>2. PICK q \in Seq(S) : Joined(p, d, q)
  BY <1>0
<1>3. PICK s \in Seq(S) : Joined(a, q, s)
  BY <1>0
<1>4. /\ Below(Elems(p), Elems(d)) <=> Below(Elems(w), Elems(d)) /\ Below(Elems(c), Elems(d))
      /\ Below(Elems(a), Elems(q)) <=> /\ Below(Elems(a), Elems(w)) /\ Below(Elems(a), Elems(c))
                                       /\ Below(Elems(a), Elems(d))
  <2>1. Elems(p) = Elems(w) \cup Elems(c) /\ Elems(q) = Elems(p) \cup Elems(d)
    BY <1>1, <1>2
  <2> QED
    BY <2>1, Zenon DEF Below
<1>5. Inc(s) <=> InOrder(a, w, c, d)
  BY <1>1, <1>2, <1>3, <1>4, Zenon DEF InOrder
<1>6. Elems(s) = Elems(a) \cup Elems(w) \cup Elems(c) \cup Elems(d)
  BY <1>1, <1>2, <1>3
<1>7. s = a \o (w \o c \o d)
  BY <1>1, <1>2, <1>3
<1> QED
  BY <1>5, <1>6, <1>7

\* The lines of the file, of the buffers being written, of the queued ones
\* and of the current one, when n lines were appended and D were dropped.
Pieces(f, w, q, c, n, D) ==
    /\ f \in Seq(Nat) /\ w \in Seq(Nat) /\ q \in Seq(Nat) /\ c \in Seq(Nat)
    /\ n \in Nat /\ D \subseteq 1 .. n
    /\ InOrder(f, w, q, c)
    /\ Elems(f) \cup Elems(w) \cup Elems(q) \cup Elems(c) = (1 .. n) \ D

\* append() puts the next line behind all others.
LEMMA AppendPieces ==
    ASSUME NEW f, NEW w, NEW q, NEW c, NEW n, NEW D, Pieces(f, w, q, c, n, D)
    PROVE  Pieces(f, w, q, Append(c, n + 1), n + 1, D)
<1> DEFINE e == Append(c, n + 1)
<1>1. n \in Nat /\ n + 1 \in Nat /\ c \in Seq(Nat) /\ <<n + 1>> \in Seq(Nat)
  BY DEF Pieces
<1>2. e = c \o <<n + 1>>
  BY <1>1
<1> HIDE DEF e
<1>3. \A x \in Elems(f) \cup Elems(w) \cup Elems(q) \cup Elems(c) : x < n + 1
  <2>1. \A x \in 1 .. n : x < n + 1
    BY <1>1
  <2> QED
    BY <2>1 DEF Pieces
<1>4. /\ e \in Seq(Nat) /\ Elems(e) = Elems(c) \cup {n + 1}
      /\ Inc(e) <=> Inc(c) /\ Below(Elems(c), {n + 1})
  <2>1. PICK d \in Seq(Nat) : d = <<n + 1>>
    BY <1>1
  <2>2. Inc(d) /\ Elems(d) = {n + 1}
    BY <2>1, SmallLines, Zenon
  <2>3. e = c \o d
    BY <1>2, <2>1
  <2>4. /\ c \o d \in Seq(Nat) /\ Elems(c \o d) = Elems(c) \cup Elems(d)
        /\ Inc(c \o d) <=> Inc(c) /\ Inc(d) /\ Below(Elems(c), Elems(d))
    BY <1>1, ConcatLines
  <2> QED
    BY <2>2, <2>3, <2>4
<1>5. Inc(e)
  BY <1>3, <1>4 DEF Pieces, InOrder, Below
<1>6. InOrder(f, w, q, e)
  <2>1. /\ Below(Elems(f), Elems(e)) /\ Below(Elems(w), Elems(e))
        /\ Below(Elems(q), Elems(e))
    BY <1>3, <1>4 DEF Pieces, InOrder, Below
  <2> QED
    BY <1>5, <2>1 DEF Pieces, InOrder
<1>7. D \subseteq 1 .. n + 1 /\ n + 1 \notin D /\ 1 .. n + 1 = (1 .. n) \cup {n + 1}
  <2>1. 1 .. n + 1 = (1 .. n) \cup {n + 1} /\ n + 1 \notin 1 .. n
    BY <1>1
  <2> QED
    BY <2>1 DEF Pieces
<1>8. Elems(f) \cup Elems(w) \cup Elems(q) \cup Elems(e) = (1 .. n + 1) \ D
  BY <1>4, <1>7 DEF Pieces
<1> QED
  BY <1>1, <1>4, <1>6, <1>7, <1>8 DEF Pieces, e

\* A full buffer is queued behind the others.
LEMMA QueuePieces ==
    ASSUME NEW f, NEW w, NEW q, NEW c, NEW n, NEW D, Pieces(f, w, q, c, n, D)
    PROVE  Pieces(f, w, q \o c, <<>>, n, D)
<1> DEFINE e == q \o c
<1>1. /\ e \in Seq(Nat) /\ Elems(e) = Elems(q) \cup Elems(c)
      /\ Inc(e) <=> Inc(q) /\ Inc(c) /\ Below(Elems(q), Elems(c))
  BY ConcatLines DEF Pieces
<1>2. <<>> \in Seq(Nat) /\ Inc(<<>>) /\ Elems(<<>>) = {}
  BY SmallLines, EmptySeq
<1> HIDE DEF e
<1>3. InOrder(f, w, e, <<>>)
  BY <1>1, <1>2, Zenon DEF Pieces, InOrder, Below
<1>4. Elems(f) \cup Elems(w) \cup Elems(e) \cup Elems(<<>>) = (1 .. n) \ D
  BY <1>1, <1>2 DEF Pieces
<1> QED
  BY <1>1, <1>2, <1>3, <1>4 DEF Pieces, e

\* The backend takes the queued buffers and the current one.
LEMMA TakePieces ==
    ASSUME NEW f, NEW q, NEW c, NEW n, NEW D, Pieces(f, <<>>, q, c, n, D)
    PROVE  Pieces(f, q \o c, <<>>, <<>>, n, D)
<1> DEFINE e == q \o c
<1>1. /\ e \in Seq(Nat) /\ Elems(e) = Elems(q) \cup Elems(c)
      /\ Inc(e) <=> Inc(q) /\ Inc(c) /\ Below(Elems(q), Elems(c))
  BY ConcatLines DEF Pieces
<1>2. <<>> \in Seq(Nat) /\ Inc(<<>>) /\ Elems(<<>>) = {}
  BY SmallLines, EmptySeq
<1> HIDE DEF e
<1>3. InOrder(f, e, <<>>, <<>>)
  BY <1>1, <1>2, Zenon DEF Pieces, InOrder, Below
<1>4. Elems(f) \cup Elems(e) \cup Elems(<<>>) \cup Elems(<<>>) = (1 .. n) \ D
  BY <1>1, <1>2 DEF Pieces
<1> QED
  BY <1>1, <1>2, <1>3, <1>4 DEF Pieces, e

\* The first lines k are written, the others r erased.
LEMMA WritePieces ==
    ASSUME NEW f, NEW k \in Seq(Nat), NEW r \in Seq(Nat), NEW q, NEW c, NEW n, NEW D,
           Pieces(f, k \o r, q, c, n, D)
    PROVE  Pieces(f \o k, <<>>, q, c, n, D \cup (Elems(k \o r) \ Elems(k)))
<1> DEFINE e == k \o r
           g == f \o k
           E == D \cup (Elems(e) \ Elems(k))
<1>1. /\ e \in Seq(Nat) /\ Elems(e) = Elems(k) \cup Elems(r)
      /\ Inc(e) <=> Inc(k) /\ Inc(r) /\ Below(Elems(k), Elems(r))
  BY ConcatLines
<1>2. /\ g \in Seq(Nat) /\ Elems(g) = Elems(f) \cup Elems(k)
      /\ Inc(g) <=> Inc(f) /\ Inc(k) /\ Below(Elems(f), Elems(k))
  BY ConcatLines DEF Pieces
<1>3. <<>> \in Seq(Nat) /\ Inc(<<>>) /\ Elems(<<>>) = {}
  BY SmallLines, EmptySeq
<1>4. Pieces(f, e, q, c, n, D)
  OBVIOUS
<1> HIDE DEF e, g
<1>5. /\ Below(Elems(f), Elems(k)) /\ Below(Elems(f), Elems(r)) /\ Below(Elems(k), Elems(r))
      /\ Below(Elems(k), Elems(q)) /\ Below(Elems(k), Elems(c))
      /\ Below(Elems(r), Elems(q)) /\ Below(Elems(r), Elems(c))
      /\ Below(Elems(f), Elems(q)) /\ Below(Elems(f), Elems(c)) /\ Below(Elems(q), Elems(c))
      /\ Inc(f) /\ Inc(k) /\ Inc(q) /\ Inc(c)
  BY <1>1, <1>4, Zenon DEF Pieces, InOrder, Below
<1>6. InOrder(g, <<>>, q, c)
  BY <1>2, <1>3, <1>5, Zenon DEF InOrder, Below
<1>7. Elems(f) \cup Elems(k) \cup Elems(r) \cup Elems(q) \cup Elems(c) = (1 .. n) \ D
  BY <1>1, <1>4 DEF Pieces
<1>8. \A x \in Elems(r) : x \notin Elems(f) \cup Elems(k) \cup Elems(q) \cup Elems(c)
  <2>1. \A x \in Elems(r) : x \in 1 .. n
    BY <1>7
  <2>2. \A x \in 1 .. n : ~(x < x)
    BY <1>4 DEF Pieces
  <2> QED
    BY <1>5, <2>1, <2>2, Zenon DEF Below
<1>9. E = D \cup Elems(r)
  BY <1>1, <1>8
<1>10. Elems(g) \cup Elems(<<>>) \cup Elems(q) \cup Elems(c) = (1 .. n) \ E
  <2> HIDE DEF E
  <2>1. (1 .. n) \ E = ((1 .. n) \ D) \ Elems(r)
    BY <1>9
  <2> QED
    BY <1>2, <1>3, <1>7, <1>8, <2>1
<1>11. E \subseteq 1 .. n
  <2>1. Elems(r) \subseteq 1 .. n /\ D \subseteq 1 .. n
    BY <1>4, <1>7 DEF Pieces
  <2> QED
    BY <1>9, <2>1
<1>12. Pieces(g, <<>>, q, c, n, E)
  <2> HIDE DEF E
  <2> QED
    BY <1>2, <1>3, <1>4, <1>6, <1>10, <1>11 DEF Pieces
<1> QED
  BY <1>12 DEF e, g

----------------------------------------------------------------------------
(* Nothing else is lost: the invariant over the steps of the threads.       *)

\* The lines the backend is about to write.
Writing == IF backend = "write" THEN Log!FlattenSeq(buffersToWrite) ELSE <<>>

\* The inductive invariant: the pieces NothingElseLost is about, and that
\* the second buffer is empty while append() has not used it.
LinesInv ==
    /\ Pieces(file, Writing, Log!FlattenSeq(buffers_), currentBuffer_[1], numLines, dropped)
    /\ nextBuffer_ \in {Log!Null, Log!Empty}

LEMMA LinesInit ==
    ASSUME Log!Init
    PROVE  LinesInv
<1>1. <<>> \in Seq(Nat) /\ Inc(<<>>) /\ Elems(<<>>) = {}
  BY SmallLines, EmptySeq
<1>2. /\ file = <<>> /\ Writing = <<>> /\ Log!FlattenSeq(buffers_) = <<>>
      /\ currentBuffer_[1] = <<>> /\ numLines = 0 /\ dropped = {}
      /\ nextBuffer_ = Log!Empty
  BY FlattenEmpty DEF Log!Init, Writing, Log!Empty
<1>3. InOrder(<<>>, <<>>, <<>>, <<>>)
  BY <1>1, Zenon DEF InOrder, Below
<1>4. Pieces(<<>>, <<>>, <<>>, <<>>, 0, {})
  <2>1. 0 \in Nat /\ {} \subseteq 1 .. 0 /\ (1 .. 0) \ {} = {}
    OBVIOUS
  <2> QED
    BY <1>1, <1>3, <2>1 DEF Pieces
<1> QED
  BY <1>2, <1>4 DEF LinesInv

\* Lines are positive numbers.
LEMMA LinesAreNumbers ==
    ASSUME Log!AsyncLoggingAssumption
    PROVE  Log!Buffer \subseteq Seq(Nat) /\ Seq(Log!Buffer) \subseteq Seq(Seq(Nat))
<1>1. Log!Lines \subseteq Nat
  BY Log!AsyncLoggingAssumption DEF Log!Lines
<1>2. \A T, U : T \subseteq U => Seq(T) \subseteq Seq(U)
  <2> SUFFICES ASSUME NEW T, NEW U, T \subseteq U, NEW s \in Seq(T) PROVE s \in Seq(U)
    OBVIOUS
  <2>1. Len(s) \in Nat /\ s \in [1 .. Len(s) -> T]
    BY LenProperties
  <2>2. s \in [1 .. Len(s) -> U]
    BY <2>1
  <2> QED
    BY <2>1, <2>2
<1> QED
  BY <1>1, <1>2 DEF Log!Buffer

LEMMA LinesAppendStep ==
    ASSUME Log!AsyncLoggingAssumption, LogIInv, LinesInv, Log!append
    PROVE  LinesInv'
<1> DEFINE Q == Log!FlattenSeq(buffers_)
           C == currentBuffer_[1]
<1>1. Pieces(file, Writing, Q, C, numLines, dropped)
  BY DEF LinesInv
<1>2. /\ numLines' = numLines + 1 /\ UNCHANGED <<backend, buffersToWrite, dropped, file>>
  BY DEF Log!append, Log!backendVars, Log!fileVars
<1>3. Writing' = Writing
  BY <1>2 DEF Writing
<1>4. CASE /\ currentBuffer_' = <<Append(C, numLines + 1)>>
           /\ UNCHANGED <<nextBuffer_, buffers_>>
  <2>1. Q' = Q /\ C' = Append(C, numLines + 1)
    BY <1>4
  <2> HIDE DEF Q, C
  <2>2. Pieces(file, Writing, Q, Append(C, numLines + 1), numLines + 1, dropped)
    BY <1>1, AppendPieces
  <2>3. Pieces(file, Writing, Q, C, numLines, dropped)'
    BY <1>2, <1>3, <2>1, <2>2
  <2> QED
    BY <1>4, <2>3 DEF LinesInv, Q, C
<1>5. CASE /\ buffers_' = Append(buffers_, C)
           /\ currentBuffer_' = IF nextBuffer_ /= Log!Null
                                THEN <<Append(nextBuffer_[1], numLines + 1)>>
                                ELSE << <<numLines + 1>> >>
           /\ nextBuffer_' = Log!Null
  <2>1. C' = Append(<<>>, numLines + 1)
    <3>1. nextBuffer_ \in {Log!Null, Log!Empty} /\ Log!Empty[1] = <<>>
      BY DEF LinesInv, Log!Empty
    <3>2. Append(<<>>, numLines + 1) = <<numLines + 1>>
      OBVIOUS
    <3> QED
      BY <1>5, <3>1, <3>2
  <2>2. Q' = Q \o C
    <3>1. buffers_ \in Seq(Seq(Nat)) /\ C \in Seq(Nat)
      BY LinesAreNumbers, NullEmpty DEF LogIInv, BuffersTyped
    <3> HIDE DEF C
    <3>2. Log!FlattenSeq(Append(buffers_, C)) = Log!FlattenSeq(buffers_) \o C
      BY <3>1, FlattenAppend
    <3> QED
      BY <1>5, <3>2
  <2> HIDE DEF Q, C
  <2>3. Pieces(file, Writing, Q \o C, <<>>, numLines, dropped)
    BY <1>1, QueuePieces
  <2>4. Pieces(file, Writing, Q \o C, Append(<<>>, numLines + 1), numLines + 1, dropped)
    BY <2>3, AppendPieces
  <2>5. Pieces(file, Writing, Q, C, numLines, dropped)'
    BY <1>2, <1>3, <2>1, <2>2, <2>4
  <2> QED
    BY <1>5, <2>5 DEF LinesInv, Q, C
<1> QED
  BY <1>4, <1>5 DEF Log!append

LEMMA LinesTakeStep ==
    ASSUME Log!AsyncLoggingAssumption, LogIInv, LinesInv, Log!TakeBuffers,
           backend \in {"lock", "waiting"}, backend' = "write",
           UNCHANGED <<numLines, dropped, file>>
    PROVE  LinesInv'
<1> DEFINE Q == Log!FlattenSeq(buffers_)
           C == currentBuffer_[1]
<1>1. Pieces(file, <<>>, Q, C, numLines, dropped)
  BY DEF LinesInv, Writing
<1>2. newBuffer1 = Log!Empty /\ newBuffer2 = Log!Empty
  BY DEF LogIInv, SparesAccounted
<1>3. Q' = <<>> /\ C' = <<>>
  BY <1>2, FlattenEmpty DEF Log!TakeBuffers, Log!Empty
<1>4. Writing' = Q \o C
  <2>1. buffers_ \in Seq(Seq(Nat)) /\ C \in Seq(Nat)
    BY LinesAreNumbers, NullEmpty DEF LogIInv, BuffersTyped
  <2>2. buffersToWrite' = Append(buffers_, C)
    BY DEF Log!TakeBuffers
  <2> HIDE DEF C
  <2>3. Log!FlattenSeq(Append(buffers_, C)) = Log!FlattenSeq(buffers_) \o C
    BY <2>1, FlattenAppend
  <2> QED
    BY <2>2, <2>3 DEF Writing
<1>5. nextBuffer_' \in {Log!Null, Log!Empty}
  BY <1>2 DEF LinesInv, Log!TakeBuffers
<1> HIDE DEF Q, C
<1>6. Pieces(file, Q \o C, <<>>, <<>>, numLines, dropped)
  BY <1>1, TakePieces
<1>7. Pieces(file, Writing, Q, C, numLines, dropped)'
  BY <1>3, <1>4, <1>6
<1> QED
  BY <1>5, <1>7 DEF LinesInv, Q, C

LEMMA LinesWriteStep ==
    ASSUME Log!AsyncLoggingAssumption, LogIInv, LinesInv, Log!writeBuffers
    PROVE  LinesInv'
<1> DEFINE Q == Log!FlattenSeq(buffers_)
           C == currentBuffer_[1]
           W == Log!FlattenSeq(buffersToWrite)
           K == Log!FlattenSeq(Log!Kept)
<1>1. Pieces(file, W, Q, C, numLines, dropped)
  BY DEF LinesInv, Writing, Log!writeBuffers
<1>2. buffersToWrite \in Seq(Seq(Nat)) /\ Len(buffersToWrite) \in Nat
  BY LinesAreNumbers, LenProperties DEF LogIInv, BuffersTyped
<1>3. W \in Seq(Nat) /\ <<>> \in Seq(Nat)
  BY <1>1, EmptySeq DEF Pieces
<1>4. PICK r \in Seq(Nat) : W = K \o r /\ K \in Seq(Nat)
  <2>1. CASE Len(buffersToWrite) > kMaxBuffers
    <3>1. kKeptBuffers \in 1 .. Len(buffersToWrite)
      BY <1>2, <2>1, Log!AsyncLoggingAssumption
    <3>2. Log!Kept = SubSeq(buffersToWrite, 1, kKeptBuffers)
      BY <2>1 DEF Log!Kept
    <3>3. PICK r \in Seq(Nat) : W = K \o r
      BY <1>2, <3>1, <3>2, FlattenPrefix
    <3>4. Log!Kept \in Seq(Seq(Nat))
      <4>1. \A i \in 1 .. kKeptBuffers : buffersToWrite[i] \in Seq(Nat)
        BY <1>2, <3>1, ElementOfSeq
      <4>2. SubSeq(buffersToWrite, 1, kKeptBuffers) \in Seq(Seq(Nat))
        BY <3>1, <4>1, SubSeqProperties
      <4> QED
        BY <3>2, <4>2
    <3>5. K \in Seq(Nat)
      BY <1>3, <3>4, FlattenAppend
    <3> QED
      BY <3>3, <3>5
  <2>2. CASE ~(Len(buffersToWrite) > kMaxBuffers)
    <3>1. K = W
      BY <2>2 DEF Log!Kept
    <3> HIDE DEF K, W
    <3> QED
      BY <1>3, <3>1, ConcatEmptySeq
  <2> QED
    BY <2>1, <2>2
<1>5. Log!ToSet(W) = Elems(W) /\ Log!ToSet(K) = Elems(K)
  <2>1. \A s \in Seq(Nat) : Log!ToSet(s) = Elems(s)
    BY LenProperties DEF Log!ToSet, Elems
  <2> HIDE DEF W, K
  <2> QED
    BY <1>3, <1>4, <2>1
<1>6. /\ file' = file \o K /\ dropped' = dropped \cup (Elems(W) \ Elems(K))
      /\ backend' = "refill" /\ UNCHANGED <<buffers_, currentBuffer_, nextBuffer_, numLines>>
  BY <1>5 DEF Log!writeBuffers, Log!sharedVars
<1>7. Writing' = <<>> /\ Q' = Q /\ C' = C
  BY <1>6 DEF Writing
<1> HIDE DEF Q, C, W, K
<1>8. Pieces(file \o K, <<>>, Q, C, numLines, dropped \cup (Elems(W) \ Elems(K)))
  BY <1>1, <1>4, WritePieces
<1>9. Pieces(file, Writing, Q, C, numLines, dropped)'
  BY <1>6, <1>7, <1>8
<1> QED
  BY <1>6, <1>9 DEF LinesInv, Q, C

\* The other steps move no line.
LEMMA LinesOtherStep ==
    ASSUME LinesInv, UNCHANGED <<buffers_, currentBuffer_, nextBuffer_, numLines, dropped, file>>,
           backend /= "write", backend' /= "write"
    PROVE  LinesInv'
<1>1. UNCHANGED <<Writing, Log!FlattenSeq(buffers_), currentBuffer_[1]>>
  BY DEF Writing
<1> QED
  BY <1>1 DEF LinesInv

LEMMA LinesStep ==
    ASSUME Log!AsyncLoggingAssumption, LogIInv, LinesInv, [Log!Next]_(Log!vars)
    PROVE  LinesInv'
<1> USE DEF Log!ownerVars, Log!sharedVars, Log!fileVars
<1>1. CASE Log!Owner
  <2>1. UNCHANGED <<buffers_, currentBuffer_, nextBuffer_, numLines, dropped, file, buffersToWrite>>
    BY <1>1 DEF Log!Owner, Log!start, Log!latchWait, Log!stop, Log!join, Log!backendVars
  <2>2. UNCHANGED backend \/ (backend /= "write" /\ backend' /= "write")
    BY <1>1 DEF Log!Owner, Log!start, Log!latchWait, Log!stop, Log!join, LogIInv, StartupOrdered
  <2>3. UNCHANGED <<Writing, Log!FlattenSeq(buffers_), currentBuffer_[1]>>
    BY <2>1, <2>2 DEF Writing
  <2> QED
    BY <2>1, <2>3 DEF LinesInv
<1>2. CASE Log!append
  BY <1>2, LinesAppendStep
<1>3. CASE Log!threadEntry \/ Log!testRunning \/ Log!lockAndWait \/ Log!refill \/ Log!flush
  <2>1. UNCHANGED <<buffers_, currentBuffer_, nextBuffer_, numLines, dropped, file>>
    BY <1>3 DEF Log!threadEntry, Log!testRunning, Log!lockAndWait, Log!refill, Log!flush
  <2>2. backend /= "write" /\ backend' /= "write"
    BY <1>3 DEF Log!threadEntry, Log!testRunning, Log!lockAndWait, Log!refill, Log!flush
  <2> QED
    BY <2>1, <2>2, LinesOtherStep
<1>4. CASE Log!lockAndSwap \/ Log!waitReturns
  <2>1. /\ Log!TakeBuffers /\ backend \in {"lock", "waiting"} /\ backend' = "write"
        /\ UNCHANGED <<numLines, dropped, file>>
    BY <1>4 DEF Log!lockAndSwap, Log!waitReturns
  <2> QED
    BY <2>1, LinesTakeStep
<1>5. CASE Log!writeBuffers
  BY <1>5, LinesWriteStep
<1>6. CASE UNCHANGED Log!vars
  <2>1. UNCHANGED <<backend, buffersToWrite, buffers_, currentBuffer_, nextBuffer_,
                    numLines, dropped, file>>
    BY <1>6 DEF Log!vars
  <2>2. UNCHANGED <<Writing, Log!FlattenSeq(buffers_), currentBuffer_[1]>>
    BY <2>1 DEF Writing
  <2> QED
    BY <2>1, <2>2 DEF LinesInv
<1> QED
  BY <1>1, <1>2, <1>3, <1>4, <1>5, <1>6 DEF Log!Next, Log!Backend

\* The pieces in a row are what NothingElseLost speaks of.
LEMMA LinesImply == ASSUME LinesInv PROVE Log!NothingElseLost
<1> DEFINE Q == Log!FlattenSeq(buffers_)
           C == currentBuffer_[1]
           s == file \o (Writing \o Q \o C)
<1>1. Pieces(file, Writing, Q, C, numLines, dropped)
  BY DEF LinesInv
<1>2. Log!InTransit = Writing \o Q \o C
  BY DEF Log!InTransit, Writing
<1> HIDE DEF Q, C
<1>3. /\ s \in Seq(Nat)
      /\ Inc(s) <=> InOrder(file, Writing, Q, C)
      /\ Elems(s) = Elems(file) \cup Elems(Writing) \cup Elems(Q) \cup Elems(C)
  <2>1. file \in Seq(Nat) /\ Writing \in Seq(Nat) /\ Q \in Seq(Nat) /\ C \in Seq(Nat)
    BY <1>1 DEF Pieces
  <2> QED
    BY <2>1, FourPieces
<1>4. s = file \o Log!InTransit
  BY <1>2
<1> HIDE DEF s
<1>5. Inc(s) /\ Elems(s) = (1 .. numLines) \ dropped
  BY <1>1, <1>3 DEF Pieces
<1>6. Log!ToSet(s) = Elems(s)
  BY <1>3, LenProperties DEF Log!ToSet, Elems
<1> QED
  BY <1>4, <1>5, <1>6 DEF Log!NothingElseLost, Inc

\* Whatever the threads append and whenever the backend exchanges, writes
\* and erases buffers, a line append() took is in the file or on its way to
\* it, once and in the order of the calls, unless it was in an erased
\* buffer: for every size of a buffer, every limit on their number and
\* every number of lines.
THEOREM LoggerLosesNothingElse ==
    ASSUME Log!AsyncLoggingAssumption
    PROVE  Log!Spec => []Log!NothingElseLost
<1>1. Log!Init => LinesInv
  BY LinesInit
<1>2. LogIInv /\ LinesInv /\ [Log!Next]_(Log!vars) => LinesInv'
  BY LinesStep
<1>3. LinesInv => Log!NothingElseLost
  BY LinesImply
<1> QED
  BY <1>1, <1>2, <1>3, LogInvariant, PTL DEF Log!Spec
============================================================================
