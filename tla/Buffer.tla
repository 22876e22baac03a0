------------------------------- MODULE Buffer -------------------------------
(***************************************************************************)
(* Buffer (Buffer.h, Buffer.cpp): a vector of bytes and two indices into   *)
(* it.  Indices count from 0 as in the code; byte i of the vector is       *)
(* element i + 1 of the sequence.                                          *)
(*                                                                         *)
(* shrink and swap_demo, which nothing in the library calls, are not here: *)
(* both leave the indices of another vector behind.                        *)
(***************************************************************************)
EXTENDS Integers, Sequences

CONSTANTS
    Byte,
    kCheapPrepend, kInitialSize,
    ExtraBuf,           \* sizeof extrabuf in readfd
    MaxLen,             \* bound: bytes passed to one call
    MaxSize             \* bound: size of the vector

ASSUME BufferAssumption ==
    /\ 0 \in Byte
    /\ kCheapPrepend \in Nat /\ kInitialSize \in Nat
    /\ kCheapPrepend <= kInitialSize
    /\ ExtraBuf \in Nat /\ MaxLen \in Nat /\ MaxSize \in Nat

VARIABLES
    b,                  \* the members of the Buffer
    call                \* the last call: its name and the bytes it moved

vars == <<b, call>>

Data == UNION {[1 .. n -> Byte] : n \in 0 .. MaxLen}
Calls == {"ctor", "append", "readfd", "prepend", "retrieve", "retrieveAll",
          "retrieveAsString"}

readableBytes(x) == x.writeIndex - x.readIndex
writableBytes(x) == Len(x.buffer_) - x.writeIndex
prependableBytes(x) == x.readIndex

\* The bytes between peek() and beginWrite().
Content(x) == SubSeq(x.buffer_, x.readIndex + 1, x.writeIndex)

Init ==
    /\ b = [buffer_ |-> [i \in 1 .. kCheapPrepend + kInitialSize |-> 0],
            readIndex |-> kCheapPrepend,
            writeIndex |-> kInitialSize]
    /\ call = [name |-> "ctor", data |-> <<>>]

----------------------------------------------------------------------------
(* Space for new data.                                                     *)

\* vector::resize, to a larger size.
Resize(v, n) == [i \in 1 .. n |-> IF i <= Len(v) THEN v[i] ELSE 0]

\* std::copy of d into v, from index at on.
CopyInto(v, at, d) ==
    [i \in 1 .. Len(v) |->
        IF at < i /\ i <= at + Len(d) THEN d[i - at] ELSE v[i]]

\* Mutant: the reserve in front is not taken into account.
NeedsResize_NoReserve(x, len) ==
    writableBytes(x) + prependableBytes(x) < len

NeedsResize(x, len) ==
    writableBytes(x) + prependableBytes(x) < len + kCheapPrepend

\* Mutant: the indices move, the readable bytes do not.
makeSpace_NoCopy(x, len) ==
    IF NeedsResize(x, len)
    THEN [x EXCEPT !.buffer_ = Resize(@, x.writeIndex + len)]
    ELSE [x EXCEPT !.readIndex = kCheapPrepend,
                   !.writeIndex = kCheapPrepend + readableBytes(x)]

\* Grow the vector, or move the readable bytes to the front.
makeSpace(x, len) ==
    IF NeedsResize(x, len)
    THEN [x EXCEPT !.buffer_ = Resize(@, x.writeIndex + len)]
    ELSE [x EXCEPT !.buffer_ = CopyInto(@, kCheapPrepend, Content(x)),
                   !.readIndex = kCheapPrepend,
                   !.writeIndex = kCheapPrepend + readableBytes(x)]

ensureWritableBytes(x, len) ==
    IF writableBytes(x) < len THEN makeSpace(x, len) ELSE x

\* The Buffer after append(d).
Appended(x, d) ==
    LET y == ensureWritableBytes(x, Len(d))
    IN  [y EXCEPT !.buffer_ = CopyInto(@, y.writeIndex, d),
                  !.writeIndex = @ + Len(d)]

\* The assert()s met on the way: in makeSpace's second branch, and at the
\* end of ensureWritableBytes.
AppendAsserts(x, len) ==
    /\ writableBytes(x) < len /\ ~NeedsResize(x, len) =>
          kCheapPrepend < x.readIndex
    /\ writableBytes(ensureWritableBytes(x, len)) >= len

----------------------------------------------------------------------------
(* The operations.                                                         *)

append(d) ==
    /\ b' = Appended(b, d)
    /\ call' = [name |-> "append", data |-> d]

\* readfd: readv fills the writable bytes first, then extrabuf, whose part
\* is appended.  A failed or empty read changes nothing.
readfd(d) ==
    LET writable == writableBytes(b)
        n == Len(d)
    IN  /\ n <= writable + ExtraBuf
        /\ b' = IF n <= writable
                THEN [b EXCEPT !.buffer_ = CopyInto(@, b.writeIndex, d),
                               !.writeIndex = @ + n]
                ELSE Appended([b EXCEPT
                                 !.buffer_ = CopyInto(@, b.writeIndex,
                                                      SubSeq(d, 1, writable)),
                                 !.writeIndex = Len(b.buffer_)],
                              SubSeq(d, writable + 1, n))
        /\ call' = [name |-> "readfd", data |-> d]

prepend(d) ==
    /\ Len(d) <= prependableBytes(b)        \* assert
    /\ b' = [b EXCEPT !.buffer_ = CopyInto(@, b.readIndex - Len(d), d),
                      !.readIndex = @ - Len(d)]
    /\ call' = [name |-> "prepend", data |-> d]

\* retrieve, and retrieveUntil, which calls it.
retrieve(len) ==
    /\ len <= readableBytes(b)              \* assert
    /\ b' = [b EXCEPT !.readIndex = @ + len]
    /\ call' = [name |-> "retrieve",
                data |-> SubSeq(b.buffer_, b.readIndex + 1, b.readIndex + len)]

\* retrieveAll, alone or after retrieveAsString has copied the bytes.
retrieveAll(name) ==
    /\ b' = [b EXCEPT !.readIndex = kCheapPrepend, !.writeIndex = kCheapPrepend]
    /\ call' = [name |-> name, data |-> Content(b)]

----------------------------------------------------------------------------
Next ==
    \/ \E d \in Data : append(d)
    \/ \E d \in Data : readfd(d)
    \/ \E d \in Data : prepend(d)
    \/ \E len \in 0 .. MaxSize : retrieve(len)
    \/ retrieveAll("retrieveAll")
    \/ retrieveAll("retrieveAsString")

Spec == Init /\ [][Next]_vars

\* Bound for model checking.
SizeBound == Len(b.buffer_) <= MaxSize

----------------------------------------------------------------------------
(* Properties.                                                             *)

\* The indices are never negative and the vector holds bytes.
TypeOK ==
    /\ b \in [buffer_ : Seq(Byte), readIndex : Nat, writeIndex : Nat]
    /\ call \in [name : Calls, data : Seq(Byte)]

\* The picture in Buffer.h: 0 <= readerIndex <= writerIndex <= size.  An
\* index beyond the end makes peek() or beginWrite() point outside.
IndicesInRange ==
    /\ b.readIndex <= b.writeIndex
    /\ b.writeIndex <= Len(b.buffer_)

\* No append finds an assert() false, directly or from readfd, which
\* appends with the writable part already full.
AssertionsHold ==
    \A len \in 0 .. MaxLen :
        /\ AppendAsserts(b, len)
        /\ AppendAsserts([b EXCEPT !.writeIndex = Len(b.buffer_)], len)

\* Moving and growing the storage never loses, changes or reorders a
\* readable byte: every operation does to the content what a queue of bytes
\* does.  Only the steps: the constructor sets writeIndex to kInitialSize,
\* so that a new Buffer is not the empty queue of Queue!Init.
Queue == INSTANCE ByteQueue WITH content <- Content(b)
QueueSteps == [][Queue!Next]_<<Content(b), call>>

============================================================================
