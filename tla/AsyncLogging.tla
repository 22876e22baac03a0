---------------------------- MODULE AsyncLogging ----------------------------
(***************************************************************************)
(* AsyncLogging (log/base/AsyncLogging.h/.cpp) with the LogFile it writes: *)
(* threads append log lines to a current buffer, a backend thread writes   *)
(* full buffers, or after flushInterval_ seconds the current one, to a     *)
(* file.                                                                   *)
(*                                                                         *)
(* Log lines are numbered as append() takes them.  A buffer is the         *)
(* sequence of its lines.  The backend's and the callers' critical         *)
(* sections are single steps, except where the backend waits.              *)
(***************************************************************************)
EXTENDS Integers, Sequences, SequencesExt

CONSTANTS
    kLargeBuffer,       \* size of a buffer, in log lines
    kMaxBuffers,        \* 25: more than this are not written
    kKeptBuffers,       \* 2: how many are written then
    MaxLines            \* bound: lines appended

ASSUME AsyncLoggingAssumption ==
    /\ kLargeBuffer \in Nat /\ kLargeBuffer > 1
    /\ kMaxBuffers \in Nat /\ kKeptBuffers \in Nat
    /\ 2 <= kKeptBuffers /\ kKeptBuffers <= kMaxBuffers
    /\ MaxLines \in Nat

VARIABLES
    running_,
    owner,              \* thread calling start() and stop()
    latch,              \* latch_.count_
    currentBuffer_, nextBuffer_, buffers_,
    backend,            \* threadFunc
    newBuffer1, newBuffer2, buffersToWrite,
    numLines,           \* lines appended
    dropped,            \* lines in buffers that were erased (history)
    file,               \* lines given to LogFile
    flushed             \* how many of them have been flushed

ownerVars == <<running_, owner>>
sharedVars == <<currentBuffer_, nextBuffer_, buffers_>>
backendVars == <<newBuffer1, newBuffer2, buffersToWrite>>
fileVars == <<file, flushed>>
vars == <<running_, owner, latch, currentBuffer_, nextBuffer_, buffers_,
          backend, newBuffer1, newBuffer2, buffersToWrite, numLines, dropped,
          file, flushed>>

Lines == 1 .. MaxLines
Buffer == Seq(Lines)

\* A pointer to a buffer: null, or <<the buffer>>.
Null == <<>>
BufferPtr == {p \in Seq(Buffer) : Len(p) <= 1}

TypeOK ==
    /\ running_ \in BOOLEAN
    /\ owner \in {"constructed", "starting", "running", "joining", "stopped"}
    /\ latch \in {0, 1}
    /\ currentBuffer_ \in BufferPtr \ {Null}
    /\ nextBuffer_ \in BufferPtr
    /\ buffers_ \in Seq(Buffer)
    /\ backend \in {"none", "entry", "test", "lock", "waiting", "write", "refill",
                    "flush", "exit", "done"}
    /\ newBuffer1 \in BufferPtr /\ newBuffer2 \in BufferPtr
    /\ buffersToWrite \in Seq(Buffer)
    /\ numLines \in 0 .. MaxLines
    /\ dropped \subseteq Lines
    /\ file \in Seq(Lines)
    /\ flushed \in 0 .. Len(file)

Empty == << <<>> >>                 \* a new or reset buffer

Init ==
    /\ running_ = FALSE /\ owner = "constructed" /\ latch = 1
    /\ currentBuffer_ = Empty /\ nextBuffer_ = Empty /\ buffers_ = <<>>
    /\ backend = "none"
    /\ newBuffer1 = Null /\ newBuffer2 = Null /\ buffersToWrite = <<>>
    /\ numLines = 0 /\ dropped = {}
    /\ file = <<>> /\ flushed = 0

----------------------------------------------------------------------------
(* The owner.                                                              *)

\* start: set running_ and start the thread ...
start ==
    /\ owner = "constructed"
    /\ running_' = TRUE
    /\ owner' = "starting"
    /\ backend' = "entry"
    /\ UNCHANGED <<latch, sharedVars, backendVars, numLines, dropped, fileVars>>

\* ... and wait for it to count down the latch.
latchWait ==
    /\ owner = "starting"
    /\ latch = 0
    /\ owner' = "running"
    /\ UNCHANGED <<running_, latch, sharedVars, backend, backendVars, numLines,
                   dropped, fileVars>>

\* Mutant: running_ is left for the destructor to clear.
stop_JoinFirst ==
    /\ owner = "running"
    /\ owner' = "joining"
    /\ UNCHANGED <<running_, latch, sharedVars, backend, backendVars, numLines,
                   dropped, fileVars>>

\* stop, or the destructor.  The notification only ends a wait early.
stop ==
    /\ owner = "running"
    /\ running_' = FALSE
    /\ owner' = "joining"
    /\ UNCHANGED <<latch, sharedVars, backend, backendVars, numLines, dropped,
                   fileVars>>

join ==
    /\ owner = "joining"
    /\ backend = "done"
    /\ owner' = "stopped"
    /\ UNCHANGED <<running_, latch, sharedVars, backend, backendVars, numLines,
                   dropped, fileVars>>

----------------------------------------------------------------------------
(* append, in any thread: Logger's users call it once start() has          *)
(* returned.                                                               *)

\* Room for one more line: avail() > len.
HasRoom(buf) == kLargeBuffer - Len(buf) > 1

\* Mutant: a full buffer is replaced without being queued.
append_NotQueued ==
    /\ owner \in {"running", "joining"}
    /\ numLines < MaxLines
    /\ numLines' = numLines + 1
    /\ \/ /\ HasRoom(currentBuffer_[1])
          /\ currentBuffer_' = <<Append(currentBuffer_[1], numLines + 1)>>
          /\ UNCHANGED <<nextBuffer_, buffers_>>
       \/ /\ ~HasRoom(currentBuffer_[1])
          /\ currentBuffer_' = << <<numLines + 1>> >>
          /\ nextBuffer_' = Null
          /\ UNCHANGED buffers_
    /\ UNCHANGED <<ownerVars, latch, backend, backendVars, dropped, fileVars>>

append ==
    /\ owner \in {"running", "joining"}
    /\ numLines < MaxLines
    /\ numLines' = numLines + 1
    /\ \/ /\ HasRoom(currentBuffer_[1])
          /\ currentBuffer_' = <<Append(currentBuffer_[1], numLines + 1)>>
          /\ UNCHANGED <<nextBuffer_, buffers_>>
       \/ /\ ~HasRoom(currentBuffer_[1])
          /\ buffers_' = Append(buffers_, currentBuffer_[1])
          /\ currentBuffer_' =
                IF nextBuffer_ /= Null
                THEN <<Append(nextBuffer_[1], numLines + 1)>>
                ELSE << <<numLines + 1>> >>
          /\ nextBuffer_' = Null
    /\ UNCHANGED <<ownerVars, latch, backend, backendVars, dropped, fileVars>>

----------------------------------------------------------------------------
(* threadFunc.                                                             *)

\* Count down the latch, allocate the spare buffers.
threadEntry ==
    /\ backend = "entry"
    /\ latch' = latch - 1
    /\ newBuffer1' = Empty /\ newBuffer2' = Empty
    /\ backend' = "test"
    /\ UNCHANGED <<ownerVars, sharedVars, buffersToWrite, numLines, dropped,
                   fileVars>>

testRunning ==
    /\ backend = "test"
    /\ backend' = IF running_ THEN "lock" ELSE "exit"
    /\ UNCHANGED <<ownerVars, latch, sharedVars, backendVars, numLines, dropped,
                   fileVars>>

\* Exchange the buffers for the spare ones.
TakeBuffers ==
    /\ buffersToWrite' = Append(buffers_, currentBuffer_[1])
    /\ buffers_' = <<>>
    /\ currentBuffer_' = newBuffer1
    /\ newBuffer1' = Null
    /\ IF nextBuffer_ = Null
       THEN nextBuffer_' = newBuffer2 /\ newBuffer2' = Null
       ELSE UNCHANGED <<nextBuffer_, newBuffer2>>

\* if (buffers_.empty()) waitForSeconds: the mutex is free while waiting.
lockAndWait ==
    /\ backend = "lock"
    /\ buffers_ = <<>>
    /\ backend' = "waiting"
    /\ UNCHANGED <<ownerVars, latch, sharedVars, backendVars, numLines, dropped,
                   fileVars>>

lockAndSwap ==
    /\ backend = "lock"
    /\ buffers_ /= <<>>
    /\ TakeBuffers
    /\ backend' = "write"
    /\ UNCHANGED <<ownerVars, latch, numLines, dropped, fileVars>>

\* The wait ends by notification, by timeout or for no reason, and with the
\* mutex held again the condition is not tested a second time.
waitReturns ==
    /\ backend = "waiting"
    /\ TakeBuffers
    /\ backend' = "write"
    /\ UNCHANGED <<ownerVars, latch, numLines, dropped, fileVars>>

\* Of too many buffers the first two are kept.
Kept ==
    IF Len(buffersToWrite) > kMaxBuffers
    THEN SubSeq(buffersToWrite, 1, kKeptBuffers)
    ELSE buffersToWrite

\* Write the buffers and keep at most two of them.
writeBuffers ==
    /\ backend = "write"
    /\ file' = file \o FlattenSeq(Kept)
    /\ dropped' = dropped \cup
          (ToSet(FlattenSeq(buffersToWrite)) \ ToSet(FlattenSeq(Kept)))
    /\ buffersToWrite' = IF Len(Kept) > 2 THEN SubSeq(Kept, 1, 2) ELSE Kept
    /\ backend' = "refill"
    /\ UNCHANGED <<ownerVars, latch, sharedVars, newBuffer1, newBuffer2,
                   numLines, flushed>>

\* How many of the written buffers the spare ones are taken from.
Missing == (IF newBuffer1 = Null THEN 1 ELSE 0) + (IF newBuffer2 = Null THEN 1 ELSE 0)

\* Mutant: the first spare buffer keeps its lines.
refill_NoReset ==
    /\ backend = "refill"
    /\ newBuffer1' = IF newBuffer1 = Null THEN <<Last(buffersToWrite)>> ELSE newBuffer1
    /\ newBuffer2' = Empty
    /\ buffersToWrite' = <<>>
    /\ backend' = "flush"
    /\ UNCHANGED <<ownerVars, latch, sharedVars, numLines, dropped, fileVars>>

\* The spare buffers are replaced by written ones, which are reset; the
\* rest is released.
refill ==
    /\ backend = "refill"
    /\ newBuffer1' = IF newBuffer1 = Null THEN Empty ELSE newBuffer1
    /\ newBuffer2' = IF newBuffer2 = Null THEN Empty ELSE newBuffer2
    /\ buffersToWrite' = <<>>
    /\ backend' = "flush"
    /\ UNCHANGED <<ownerVars, latch, sharedVars, numLines, dropped, fileVars>>

\* Mutant: nothing is flushed at the end of an iteration.
flush_Skipped ==
    /\ backend \in {"flush", "exit"}
    /\ backend' = IF backend = "flush" THEN "test" ELSE "done"
    /\ UNCHANGED <<ownerVars, latch, sharedVars, backendVars, numLines, dropped,
                   fileVars>>

\* output.flush(), at the end of an iteration and after the loop.
flush ==
    /\ backend \in {"flush", "exit"}
    /\ flushed' = Len(file)
    /\ backend' = IF backend = "flush" THEN "test" ELSE "done"
    /\ UNCHANGED <<ownerVars, latch, sharedVars, backendVars, numLines, dropped,
                   file>>

----------------------------------------------------------------------------
Owner == start \/ latchWait \/ stop \/ join

Backend ==
    \/ threadEntry \/ testRunning \/ lockAndWait \/ lockAndSwap \/ waitReturns
    \/ writeBuffers \/ refill \/ flush

Next == Owner \/ append \/ Backend

Spec == Init /\ [][Next]_vars

\* The threads run, and waitForSeconds returns after flushInterval_ at the
\* latest.  Nobody has to call start, append or stop.
FairSpec ==
    /\ Spec
    /\ WF_vars(Backend)
    /\ WF_vars(latchWait) /\ WF_vars(join)

----------------------------------------------------------------------------
(* Properties.                                                             *)

\* The lines between append() and the file, in the order they will reach
\* it.  Buffers already written stay in buffersToWrite until the refill.
InTransit ==
    (IF backend = "write" THEN FlattenSeq(buffersToWrite) ELSE <<>>)
        \o FlattenSeq(buffers_) \o currentBuffer_[1]

\* Every line that append() took is in the file or on its way to it, once
\* and in the order of the append() calls, except for the lines of buffers
\* that were erased because there were too many.  Holds through every
\* exchange of buffers between the threads.
NothingElseLost ==
    LET lines == file \o InTransit
    IN  /\ \A i, j \in 1 .. Len(lines) : i < j => lines[i] < lines[j]
        /\ ToSet(lines) = (1 .. numLines) \ dropped

\* The assert()s of threadFunc: running_ is set when the thread starts, at
\* the top of the loop both spare buffers are there and empty and nothing is
\* left to write, there is a buffer to write after each exchange, and the
\* written buffers suffice to replace the spare ones.
AssertionsHold ==
    /\ backend = "entry" => running_
    /\ backend = "lock" => /\ newBuffer1 = Empty /\ newBuffer2 = Empty
                           /\ buffersToWrite = <<>>
    /\ backend = "write" => buffersToWrite /= <<>>
    /\ backend = "refill" => Missing <= Len(buffersToWrite)

\* Unless the logger is stopped, a line reaches the disk, or is erased
\* with a surplus buffer.
LineIsWritten ==
    \A n \in Lines :
        numLines >= n ~> \/ \E i \in 1 .. flushed : file[i] = n
                         \/ n \in dropped
                         \/ ~running_

\* stop() returns: the notification may be missed, the timeout not.
StopReturns == owner = "joining" ~> owner = "stopped"
============================================================================
