--------------------------- MODULE TcpServerProofs ---------------------------
(***************************************************************************)
(* The life of the connections of a TcpServer and the sharing out of its   *)
(* loops, for any pool, any number of connections and any interleaving of  *)
(* the loops' threads.                                                     *)
(***************************************************************************)
EXTENDS TcpServer, SequenceTheorems, FiniteSetTheorems, TLAPS

----------------------------------------------------------------------------
(* Queues of functors: P are the pending ones, B the batches, N the next   *)
(* ones to be run, each by loop.                                           *)

\* The connection whose life a functor moves on: shutdownInLoop does not.
Subject(f) == IF f.op = "shutdownInLoop" THEN -1 ELSE f.conn

\* From the given place on, q has no functor of connection c; it has f and
\* no other functor of f's connection.
NoneOf(q, from, c) == \A i \in 1 .. Len(q) : i >= from => Subject(q[i]) /= c
OneOf(q, from, f) ==
    \E i \in 1 .. Len(q) :
        /\ i >= from /\ q[i] = f
        /\ \A j \in 1 .. Len(q) : j >= from /\ Subject(q[j]) = Subject(f) => j = i

\* No functor of c is still to be run; f is the only one, in loop l.
NoFunctor(P, B, N, c) ==
    \A l \in Loops : NoneOf(P[l], 1, c) /\ NoneOf(B[l], N[l], c)
OnlyFunctor(P, B, N, f, l) ==
    /\ \A m \in Loops : m /= l => NoneOf(P[m], 1, Subject(f)) /\ NoneOf(B[m], N[m], Subject(f))
    /\ \/ NoneOf(B[l], N[l], Subject(f)) /\ OneOf(P[l], 1, f)
       \/ NoneOf(P[l], 1, Subject(f)) /\ OneOf(B[l], N[l], f)

Idle(c) == NoFunctor(pending, batch, next, c)
Due(op, c, l) == OnlyFunctor(pending, batch, next, Functor(op, c), l)

----------------------------------------------------------------------------
(* The life of a connection.                                               *)

\* newConnection has queued connectEstablished in the connection's loop.
Fresh(c) ==
    /\ state_[c] = "kConnecting" /\ channel[c] = "new"
    /\ c \in connections_ /\ ioLoop[c] /= Base
    /\ Due("connectEstablished", c, ioLoop[c])

Open(c) ==
    /\ Established(c) /\ channel[c] = "added"
    /\ c \in connections_
    /\ Idle(c)

\* handleClose has queued removeConnectionInLoop in the base loop, ...
Closing(c) ==
    /\ Established(c) /\ channel[c] = "disabled"
    /\ c \in connections_ /\ ioLoop[c] /= Base
    /\ Due("removeConnectionInLoop", c, Base)

\* ... which has queued connectDestroyed in the connection's loop.
Leaving(c) ==
    /\ Established(c) /\ channel[c] = "disabled"
    /\ c \notin connections_
    /\ Due("connectDestroyed", c, ioLoop[c])

Gone(c) ==
    /\ channel[c] = "removed" /\ c \notin connections_
    /\ Idle(c)

Phase(c) == Fresh(c) \/ Open(c) \/ Closing(c) \/ Leaving(c) \/ Gone(c)

\* A number that is not in use yet.
Unborn(c) ==
    /\ state_[c] = "none" /\ channel[c] = "new"
    /\ c \notin connections_
    /\ Idle(c)

----------------------------------------------------------------------------
(* The inductive invariant.                                                *)

BatchIsForFunctors ==
    /\ \A l \in Loops : next[l] >= 1
    /\ \A l \in Loops : pc[l] /= "functors" => batch[l] = <<>> /\ next[l] = 1

NextInRange == loops_ /= <<>> => next_ + 1 \in DOMAIN loops_

\* Only a server without a pool has connections in the base loop.
Placed == \A c \in Created : ioLoop[c] = Base <=> loops_ = <<>>

\* An event is reported to the connection's own loop, while it is open.
ActiveIsOpen ==
    \A l \in Loops : \A c \in active[l] :
        c /= 0 => c \in Created /\ ioLoop[c] = l /\ channel[c] = "added"

Lives ==
    /\ \A c \in Created : Phase(c)
    /\ \A c \in Conns : c \notin Created => Unborn(c)
    /\ ActiveIsOpen

\* Only connections that were established are used.
Used ==
    /\ handling \subseteq Created
    /\ \A c \in Conns : upc[c] /= "idle" => channel[c] /= "new"

\* A shutdownInLoop of c is among the functors of q from the given place on;
\* none stands behind connectDestroyed.
Awaits(q, from, c) ==
    \E i \in 1 .. Len(q) : i >= from /\ q[i] = Functor("shutdownInLoop", c)
Ordered(q, c) ==
    \A i, j \in 1 .. Len(q) :
        q[i] = Functor("connectDestroyed", c) /\ i < j
            => q[j] /= Functor("shutdownInLoop", c)

\* A shutdownInLoop that the peer's close did not overtake is run by the
\* iteration that handles the close, at the latest: before connectDestroyed.
InTime(c) ==
    \A l \in Loops :
        /\ Awaits(pending[l], 1, c) \/ Awaits(batch[l], next[l], c) =>
              l = ioLoop[c] /\ c \in Created /\ channel[c] /= "removed"
        /\ Awaits(pending[l], 1, c) /\ channel[c] = "disabled" => pc[l] = "dispatch"
        /\ Ordered(pending[l], c) /\ Ordered(batch[l], c)
Shutdowns == ~late /\ loops_ /= <<>> => \A c \in Conns : InTime(c)

IInv ==
    /\ TypeOK /\ BatchIsForFunctors /\ NextInRange /\ Placed
    /\ server => Lives /\ Used /\ Shutdowns
    /\ ServerIsSafe

\* The loops before next_ have had one connection more than the others.
Dealt ==
    \E q \in Nat : \A i \in 1 .. Len(loops_) :
        Given(loops_[i]) = IF i <= next_ THEN q + 1 ELSE q

----------------------------------------------------------------------------
(* What the operations on the queues do to the functors still to be run.   *)

\* A functor is appended.
LEMMA PushNoneOf ==
    ASSUME NEW q \in Seq(Functors), NEW f \in Functors, NEW c,
           Subject(f) /= c, NoneOf(q, 1, c)
    PROVE  NoneOf(Append(q, f), 1, c)
BY DEF NoneOf

LEMMA PushOneOf ==
    ASSUME NEW q \in Seq(Functors), NEW f \in Functors, NEW g \in Functors,
           Subject(f) /= Subject(g), OneOf(q, 1, g)
    PROVE  OneOf(Append(q, f), 1, g)
<1>1. PICK i \in 1 .. Len(q) :
          /\ i >= 1 /\ q[i] = g
          /\ \A j \in 1 .. Len(q) : j >= 1 /\ Subject(q[j]) = Subject(g) => j = i
  BY DEF OneOf
<1>2. i \in 1 .. Len(Append(q, f)) /\ Append(q, f)[i] = g
  BY <1>1
<1>3. ASSUME NEW j \in 1 .. Len(Append(q, f)), j >= 1,
             Subject(Append(q, f)[j]) = Subject(g)
      PROVE  j = i
  BY <1>1, <1>3
<1> QED
  BY <1>1, <1>2, <1>3 DEF OneOf

LEMMA PushIsOne ==
    ASSUME NEW q \in Seq(Functors), NEW f \in Functors,
           NoneOf(q, 1, Subject(f))
    PROVE  OneOf(Append(q, f), 1, f)
<1>1. Len(q) + 1 \in 1 .. Len(Append(q, f))
      /\ Append(q, f)[Len(q) + 1] = f
  OBVIOUS
<1>2. ASSUME NEW j \in 1 .. Len(Append(q, f)), j >= 1,
             Subject(Append(q, f)[j]) = Subject(f)
      PROVE  j = Len(q) + 1
  BY <1>2 DEF NoneOf
<1> QED
  BY <1>1, <1>2 DEF OneOf

LEMMA PushKeepsNo ==
    ASSUME NEW P \in [Loops -> Seq(Functors)], NEW B, NEW N,
           NEW l \in Loops, NEW f \in Functors, NEW c,
           Subject(f) /= c, NoFunctor(P, B, N, c)
    PROVE  NoFunctor([P EXCEPT ![l] = Append(@, f)], B, N, c)
<1> DEFINE P2 == [P EXCEPT ![l] = Append(@, f)]
<1> SUFFICES ASSUME NEW m \in Loops
             PROVE  NoneOf(P2[m], 1, c) /\ NoneOf(B[m], N[m], c)
  BY DEF NoFunctor
<1>1. NoneOf(P[m], 1, c) /\ NoneOf(B[m], N[m], c)
  BY DEF NoFunctor
<1>2. P2[m] = IF m = l THEN Append(P[m], f) ELSE P[m]
  OBVIOUS
<1> QED
  BY <1>1, <1>2, PushNoneOf

LEMMA PushKeepsOnly ==
    ASSUME NEW P \in [Loops -> Seq(Functors)], NEW B, NEW N,
           NEW l \in Loops, NEW f \in Functors,
           NEW g \in Functors, NEW m \in Loops,
           Subject(f) /= Subject(g), OnlyFunctor(P, B, N, g, m)
    PROVE  OnlyFunctor([P EXCEPT ![l] = Append(@, f)], B, N, g, m)
<1> DEFINE P2 == [P EXCEPT ![l] = Append(@, f)]
<1>1. \A k \in Loops : P2[k] = IF k = l THEN Append(P[k], f) ELSE P[k]
  OBVIOUS
<1>2. \A k \in Loops : NoneOf(P[k], 1, Subject(g)) => NoneOf(P2[k], 1, Subject(g))
  BY <1>1, PushNoneOf
<1>3. OneOf(P[m], 1, g) => OneOf(P2[m], 1, g)
  BY <1>1, PushOneOf
<1> HIDE DEF P2
<1>4. OnlyFunctor(P2, B, N, g, m)
  BY <1>2, <1>3 DEF OnlyFunctor
<1> QED
  BY <1>4 DEF P2

LEMMA PushMakesOnly ==
    ASSUME NEW P \in [Loops -> Seq(Functors)], NEW B, NEW N,
           NEW l \in Loops, NEW f \in Functors,
           NoFunctor(P, B, N, Subject(f))
    PROVE  OnlyFunctor([P EXCEPT ![l] = Append(@, f)], B, N, f, l)
<1> DEFINE P2 == [P EXCEPT ![l] = Append(@, f)]
<1>1. \A k \in Loops : P2[k] = IF k = l THEN Append(P[k], f) ELSE P[k]
  OBVIOUS
<1>2. OneOf(P2[l], 1, f)
  BY <1>1, PushIsOne DEF NoFunctor
<1>3. \A m \in Loops : m /= l => NoneOf(P2[m], 1, Subject(f))
  BY <1>1 DEF NoFunctor
<1> HIDE DEF P2
<1>4. OnlyFunctor(P2, B, N, f, l)
  BY <1>2, <1>3 DEF OnlyFunctor, NoFunctor
<1> QED
  BY <1>4 DEF P2

\* The next functor of a batch is taken.
LEMMA TakeNoneOf ==
    ASSUME NEW q \in Seq(Functors), NEW n \in Nat, NEW c,
           n >= 1, n <= Len(q), NoneOf(q, n, c)
    PROVE  Subject(q[n]) /= c /\ NoneOf(q, n + 1, c)
BY DEF NoneOf

LEMMA TakeOneOf ==
    ASSUME NEW q \in Seq(Functors), NEW n \in Nat, NEW g \in Functors,
           n >= 1, n <= Len(q), OneOf(q, n, g)
    PROVE  /\ Subject(q[n]) /= Subject(g) => OneOf(q, n + 1, g)
           /\ Subject(q[n]) = Subject(g) => q[n] = g /\ NoneOf(q, n + 1, Subject(g))
<1>1. PICK i \in 1 .. Len(q) :
          /\ i >= n /\ q[i] = g
          /\ \A j \in 1 .. Len(q) : j >= n /\ Subject(q[j]) = Subject(g) => j = i
  BY DEF OneOf
<1>2. ASSUME Subject(q[n]) /= Subject(g) PROVE OneOf(q, n + 1, g)
  <2>1. i >= n + 1
    BY <1>1, <1>2
  <2> QED
    BY <1>1, <2>1 DEF OneOf
<1>3. ASSUME Subject(q[n]) = Subject(g)
      PROVE  q[n] = g /\ NoneOf(q, n + 1, Subject(g))
  <2>1. i = n
    BY <1>1, <1>3
  <2> QED
    BY <1>1, <2>1 DEF NoneOf
<1> QED
  BY <1>2, <1>3

LEMMA TakeKeepsNo ==
    ASSUME NEW P, NEW B \in [Loops -> Seq(Functors)],
           NEW N \in [Loops -> Nat], NEW l \in Loops, NEW c,
           N[l] >= 1, N[l] <= Len(B[l]), NoFunctor(P, B, N, c)
    PROVE  /\ Subject(B[l][N[l]]) /= c
           /\ NoFunctor(P, B, [N EXCEPT ![l] = @ + 1], c)
<1> DEFINE N2 == [N EXCEPT ![l] = @ + 1]
<1>1. \A k \in Loops : N2[k] = IF k = l THEN N[k] + 1 ELSE N[k]
  OBVIOUS
<1>2. NoneOf(B[l], N[l], c)
  BY DEF NoFunctor
<1>3. Subject(B[l][N[l]]) /= c /\ NoneOf(B[l], N[l] + 1, c)
  BY <1>2, TakeNoneOf
<1>4. \A k \in Loops : NoneOf(B[k], N2[k], c)
  BY <1>1, <1>3 DEF NoFunctor
<1> HIDE DEF N2
<1>5. NoFunctor(P, B, N2, c)
  BY <1>4 DEF NoFunctor
<1> QED
  BY <1>3, <1>5 DEF N2

LEMMA TakeKeepsOnly ==
    ASSUME NEW P, NEW B \in [Loops -> Seq(Functors)],
           NEW N \in [Loops -> Nat], NEW l \in Loops,
           NEW g \in Functors, NEW m \in Loops,
           N[l] >= 1, N[l] <= Len(B[l]), Subject(B[l][N[l]]) /= Subject(g),
           OnlyFunctor(P, B, N, g, m)
    PROVE  OnlyFunctor(P, B, [N EXCEPT ![l] = @ + 1], g, m)
<1> DEFINE N2 == [N EXCEPT ![l] = @ + 1]
<1>1. \A k \in Loops : N2[k] = IF k = l THEN N[k] + 1 ELSE N[k]
  OBVIOUS
<1>2. NoneOf(B[l], N[l], Subject(g)) => NoneOf(B[l], N[l] + 1, Subject(g))
  BY TakeNoneOf
<1>3. \A k \in Loops : NoneOf(B[k], N[k], Subject(g)) => NoneOf(B[k], N2[k], Subject(g))
  BY <1>1, <1>2
<1>4. OneOf(B[l], N[l], g) => OneOf(B[l], N[l] + 1, g)
  BY TakeOneOf
<1>5. OneOf(B[m], N[m], g) => OneOf(B[m], N2[m], g)
  BY <1>1, <1>4
<1> HIDE DEF N2
<1>6. OnlyFunctor(P, B, N2, g, m)
  BY <1>3, <1>5 DEF OnlyFunctor
<1> QED
  BY <1>6 DEF N2

LEMMA TakeEndsOnly ==
    ASSUME NEW P, NEW B \in [Loops -> Seq(Functors)],
           NEW N \in [Loops -> Nat], NEW l \in Loops,
           NEW g \in Functors, NEW m \in Loops,
           N[l] >= 1, N[l] <= Len(B[l]), Subject(B[l][N[l]]) = Subject(g),
           OnlyFunctor(P, B, N, g, m)
    PROVE  /\ m = l /\ B[l][N[l]] = g
           /\ NoFunctor(P, B, [N EXCEPT ![l] = @ + 1], Subject(g))
<1> DEFINE N2 == [N EXCEPT ![l] = @ + 1]
<1>1. \A k \in Loops : N2[k] = IF k = l THEN N[k] + 1 ELSE N[k]
  OBVIOUS
<1>2. ~NoneOf(B[l], N[l], Subject(g))
  BY TakeNoneOf
<1>3. m = l
  BY <1>2 DEF OnlyFunctor
<1>4. NoneOf(P[l], 1, Subject(g)) /\ OneOf(B[l], N[l], g)
  BY <1>2, <1>3 DEF OnlyFunctor
<1>5. B[l][N[l]] = g /\ NoneOf(B[l], N[l] + 1, Subject(g))
  BY <1>4, TakeOneOf
<1>6. \A k \in Loops : NoneOf(P[k], 1, Subject(g)) /\ NoneOf(B[k], N2[k], Subject(g))
  BY <1>1, <1>3, <1>4, <1>5 DEF OnlyFunctor
<1> HIDE DEF N2
<1>7. NoFunctor(P, B, N2, Subject(g))
  BY <1>6 DEF NoFunctor
<1> QED
  BY <1>3, <1>5, <1>7 DEF N2

\* The pending functors become the batch; a batch that was run is dropped.
LEMMA SwapKeeps ==
    ASSUME NEW P \in [Loops -> Seq(Functors)],
           NEW B \in [Loops -> Seq(Functors)],
           NEW N \in [Loops -> Nat], NEW l \in Loops,
           B[l] = <<>>, N[l] = 1
    PROVE  LET P2 == [P EXCEPT ![l] = <<>>]
               B2 == [B EXCEPT ![l] = P[l]]
           IN  /\ \A c : NoFunctor(P, B, N, c) => NoFunctor(P2, B2, N, c)
               /\ \A g, m : m \in Loops /\ OnlyFunctor(P, B, N, g, m)
                                => OnlyFunctor(P2, B2, N, g, m)
<1> DEFINE P2 == [P EXCEPT ![l] = <<>>]
           B2 == [B EXCEPT ![l] = P[l]]
<1>1. \A k \in Loops : /\ P2[k] = IF k = l THEN <<>> ELSE P[k]
                       /\ B2[k] = IF k = l THEN P[l] ELSE B[k]
  OBVIOUS
<1> HIDE DEF P2, B2
<1>2. \A c : NoneOf(<<>>, 1, c)
  BY DEF NoneOf
<1>3. \A g : ~OneOf(<<>>, 1, g)
  BY DEF OneOf
<1>4. ASSUME NEW c, NoFunctor(P, B, N, c) PROVE NoFunctor(P2, B2, N, c)
  BY <1>1, <1>2, <1>4 DEF NoFunctor
<1>5. ASSUME NEW g, NEW m, m \in Loops, OnlyFunctor(P, B, N, g, m)
      PROVE  OnlyFunctor(P2, B2, N, g, m)
  <2>1. \A k \in Loops : k /= m => NoneOf(P2[k], 1, Subject(g))
                                   /\ NoneOf(B2[k], N[k], Subject(g))
    BY <1>1, <1>2, <1>5 DEF OnlyFunctor
  <2>2. CASE m = l
    <3>1. OneOf(P[l], 1, g)
      BY <1>3, <1>5, <2>2 DEF OnlyFunctor
    <3>2. NoneOf(P2[l], 1, Subject(g)) /\ OneOf(B2[l], N[l], g)
      BY <1>1, <1>2, <3>1
    <3> QED
      BY <2>1, <2>2, <3>2 DEF OnlyFunctor
  <2>3. CASE m /= l
    BY <1>1, <1>5, <2>1, <2>3 DEF OnlyFunctor
  <2> QED
    BY <2>2, <2>3
<1> QED
  BY <1>4, <1>5 DEF P2, B2

LEMMA DropKeeps ==
    ASSUME NEW P,
           NEW B \in [Loops -> Seq(Functors)],
           NEW N \in [Loops -> Nat], NEW l \in Loops, N[l] > Len(B[l])
    PROVE  LET B2 == [B EXCEPT ![l] = <<>>]
               N2 == [N EXCEPT ![l] = 1]
           IN  /\ \A c : NoFunctor(P, B, N, c) => NoFunctor(P, B2, N2, c)
               /\ \A g, m : m \in Loops /\ OnlyFunctor(P, B, N, g, m)
                                => OnlyFunctor(P, B2, N2, g, m)
<1> DEFINE B2 == [B EXCEPT ![l] = <<>>]
           N2 == [N EXCEPT ![l] = 1]
<1>1. \A k \in Loops : /\ B2[k] = IF k = l THEN <<>> ELSE B[k]
                       /\ N2[k] = IF k = l THEN 1 ELSE N[k]
  OBVIOUS
<1> HIDE DEF B2, N2
<1>2. \A c : NoneOf(<<>>, 1, c)
  BY DEF NoneOf
<1>3. \A g : ~OneOf(B[l], N[l], g)
  BY DEF OneOf
<1>4. ASSUME NEW c, NoFunctor(P, B, N, c) PROVE NoFunctor(P, B2, N2, c)
  BY <1>1, <1>2, <1>4 DEF NoFunctor
<1>5. ASSUME NEW g, NEW m, m \in Loops, OnlyFunctor(P, B, N, g, m)
      PROVE  OnlyFunctor(P, B2, N2, g, m)
  <2>1. \A k \in Loops : k /= m => NoneOf(P[k], 1, Subject(g))
                                   /\ NoneOf(B2[k], N2[k], Subject(g))
    BY <1>1, <1>2, <1>5 DEF OnlyFunctor
  <2>2. CASE m = l
    <3>1. OneOf(P[l], 1, g) /\ NoneOf(B2[l], N2[l], Subject(g))
      BY <1>1, <1>2, <1>3, <1>5, <2>2 DEF OnlyFunctor
    <3> QED
      BY <2>1, <2>2, <3>1 DEF OnlyFunctor
  <2>3. CASE m /= l
    BY <1>1, <1>5, <2>1, <2>3 DEF OnlyFunctor
  <2> QED
    BY <2>2, <2>3
<1> QED
  BY <1>4, <1>5 DEF B2, N2

----------------------------------------------------------------------------
(* The same, of the loops of the server.                                   *)

Ops == {"listen", "connectEstablished", "removeConnectionInLoop",
        "connectDestroyed"}

\* A step leaves the functors of d that are still to be run as they are.
QueueSame(d) ==
    /\ Idle(d) => Idle(d)'
    /\ \A op \in Ops, m \in Loops : Due(op, d, m) => Due(op, d, m)'

LEMMA FunctorType ==
    ASSUME NEW op \in Ops, NEW c \in Conns \cup {0}
    PROVE  /\ Functor(op, c) \in Functors
           /\ Functor(op, c).op = op /\ Functor(op, c).conn = c
           /\ Subject(Functor(op, c)) = c
BY DEF Functor, Functors, Ops, Subject

LEMMA ShutdownType ==
    ASSUME NEW c \in Conns
    PROVE  /\ Functor("shutdownInLoop", c) \in Functors
           /\ \A d \in Conns \cup {0} : Subject(Functor("shutdownInLoop", c)) /= d
<1>1. Conns \subseteq Nat
  BY BoundsAssumption DEF Conns
<1>2. Functor("shutdownInLoop", c) \in Functors
      /\ Subject(Functor("shutdownInLoop", c)) = -1
  BY DEF Functor, Functors, Subject
<1> QED
  BY <1>1, <1>2

LEMMA ConnsType == Conns \subseteq Nat \ {0}
BY BoundsAssumption DEF Conns

\* queueInLoop.
LEMMA QueueFrame ==
    ASSUME TypeOK, NEW l \in Loops, NEW op \in Ops, NEW c \in Conns \cup {0},
           queueInLoop(l, Functor(op, c)), UNCHANGED <<batch, next>>
    PROVE  /\ \A d \in Conns : d /= c => QueueSame(d)
           /\ Idle(c) => Due(op, c, l)'
<1>1. pending \in [Loops -> Seq(Functors)]
  BY DEF TypeOK
<1>2. pending' = [pending EXCEPT ![l] = Append(@, Functor(op, c))]
      /\ batch' = batch /\ next' = next
  BY DEF queueInLoop
<1>3. Functor(op, c) \in Functors /\ Subject(Functor(op, c)) = c
  BY FunctorType
<1>4. ASSUME NEW d \in Conns, d /= c PROVE QueueSame(d)
  <2>1. Idle(d) => Idle(d)'
    BY <1>1, <1>2, <1>3, <1>4, PushKeepsNo DEF Idle
  <2>2. ASSUME NEW o \in Ops, NEW m \in Loops, Due(o, d, m)
        PROVE  Due(o, d, m)'
    <3>1. Functor(o, d) \in Functors /\ Subject(Functor(o, d)) = d
      BY FunctorType
    <3> QED
      BY <1>1, <1>2, <1>3, <1>4, <2>2, <3>1, PushKeepsOnly DEF Due
  <2> QED
    BY <2>1, <2>2 DEF QueueSame
<1>5. Idle(c) => Due(op, c, l)'
  BY <1>1, <1>2, <1>3, PushMakesOnly DEF Idle, Due
<1> QED
  BY <1>4, <1>5

\* A loop calls its next functor.
LEMMA TakeFrame ==
    ASSUME TypeOK, BatchIsForFunctors,
           NEW l \in Loops, NEW op \in Ops, NEW c \in Conns \cup {0},
           RunFunctor(l, op, c)
    PROVE  /\ \A d \in Conns : d /= c =>
                  /\ Idle(d) => NoFunctor(pending, batch, next', d)
                  /\ \A o \in Ops, m \in Loops : Due(o, d, m) =>
                        OnlyFunctor(pending, batch, next', Functor(o, d), m)
           /\ ~Idle(c)
           /\ \A o \in Ops, m \in Loops : Due(o, c, m) =>
                  o = op /\ m = l /\ NoFunctor(pending, batch, next', c)
<1>1. batch \in [Loops -> Seq(Functors)] /\ next \in [Loops -> Nat]
  BY DEF TypeOK
<1>2. /\ next[l] >= 1 /\ next[l] <= Len(batch[l])
      /\ batch[l][next[l]] = Functor(op, c)
      /\ next' = [next EXCEPT ![l] = @ + 1]
  BY DEF RunFunctor, BatchIsForFunctors
<1>3. Functor(op, c).op = op /\ Subject(Functor(op, c)) = c
  BY FunctorType
<1>4. ASSUME NEW d \in Conns, d /= c
      PROVE  /\ Idle(d) => NoFunctor(pending, batch, next', d)
             /\ \A o \in Ops, m \in Loops : Due(o, d, m) =>
                   OnlyFunctor(pending, batch, next', Functor(o, d), m)
  <2>1. Idle(d) => NoFunctor(pending, batch, next', d)
    BY <1>1, <1>2, TakeKeepsNo DEF Idle
  <2>2. ASSUME NEW o \in Ops, NEW m \in Loops, Due(o, d, m)
        PROVE  OnlyFunctor(pending, batch, next', Functor(o, d), m)
    <3>1. Functor(o, d) \in Functors /\ Subject(Functor(o, d)) = d
      BY FunctorType
    <3> QED
      BY <1>1, <1>2, <1>3, <1>4, <2>2, <3>1, TakeKeepsOnly DEF Due
  <2> QED
    BY <2>1, <2>2
<1>5. ~Idle(c)
  BY <1>1, <1>2, <1>3, TakeKeepsNo DEF Idle
<1>6. ASSUME NEW o \in Ops, NEW m \in Loops, Due(o, c, m)
      PROVE  o = op /\ m = l /\ NoFunctor(pending, batch, next', c)
  <2>1. /\ Functor(o, c) \in Functors /\ Subject(Functor(o, c)) = c
        /\ Functor(o, c).op = o
    BY FunctorType
  <2> DEFINE g == Functor(o, c)
             f == batch[l][next[l]]
  <2>2. OnlyFunctor(pending, batch, next, g, m)
    BY <1>6 DEF Due
  <2>3. g \in Functors /\ Subject(f) = Subject(g)
    BY <1>2, <1>3, <2>1
  <2> HIDE DEF g
  <2>4. /\ m = l /\ f = g
        /\ NoFunctor(pending, batch, [next EXCEPT ![l] = @ + 1], Subject(g))
    BY <1>1, <1>2, <2>2, <2>3, TakeEndsOnly
  <2>5. /\ m = l /\ batch[l][next[l]] = Functor(o, c)
        /\ NoFunctor(pending, batch, next', c)
    BY <1>2, <2>1, <2>4 DEF g
  <2> QED
    BY <1>2, <1>3, <2>1, <2>5
<1> QED
  BY <1>4, <1>5, <1>6

LEMMA RunFrame ==
    ASSUME TypeOK, BatchIsForFunctors,
           NEW l \in Loops, NEW op \in Ops, NEW c \in Conns \cup {0},
           RunFunctor(l, op, c), UNCHANGED <<pending, batch>>
    PROVE  /\ \A d \in Conns : d /= c => QueueSame(d)
           /\ ~Idle(c)
           /\ \A o \in Ops, m \in Loops : Due(o, c, m) =>
                  o = op /\ m = l /\ Idle(c)'
<1>1. pending' = pending /\ batch' = batch
  OBVIOUS
<1>2. \A d \in Conns : d /= c => QueueSame(d)
  BY <1>1, TakeFrame DEF QueueSame, Idle, Due
<1> QED
  BY <1>1, <1>2, TakeFrame DEF Idle

\* The queues of a loop are swapped, or its batch is dropped.
LEMMA SwapFrame ==
    ASSUME TypeOK, BatchIsForFunctors, NEW l \in Loops,
           Swap(l) \/ FunctorsDone(l)
    PROVE  \A d \in Conns : QueueSame(d)
<1>1. /\ pending \in [Loops -> Seq(Functors)]
      /\ batch \in [Loops -> Seq(Functors)] /\ next \in [Loops -> Nat]
  BY DEF TypeOK
<1>2. CASE Swap(l)
  <2>1. batch[l] = <<>> /\ next[l] = 1
    BY <1>2 DEF Swap, BatchIsForFunctors
  <2>2. /\ pending' = [pending EXCEPT ![l] = <<>>]
        /\ batch' = [batch EXCEPT ![l] = pending[l]] /\ next' = next
    BY <1>2 DEF Swap
  <2>3. /\ \A c : NoFunctor(pending, batch, next, c)
                      => NoFunctor(pending', batch', next, c)
        /\ \A g, m : m \in Loops /\ OnlyFunctor(pending, batch, next, g, m)
                      => OnlyFunctor(pending', batch', next, g, m)
    BY <1>1, <2>1, <2>2, SwapKeeps
  <2> QED
    BY <2>2, <2>3 DEF QueueSame, Idle, Due
<1>3. CASE FunctorsDone(l)
  <2>1. /\ next[l] > Len(batch[l]) /\ pending' = pending
        /\ batch' = [batch EXCEPT ![l] = <<>>]
        /\ next' = [next EXCEPT ![l] = 1]
    BY <1>3 DEF FunctorsDone
  <2>2. /\ \A c : NoFunctor(pending, batch, next, c)
                      => NoFunctor(pending, batch', next', c)
        /\ \A g, m : m \in Loops /\ OnlyFunctor(pending, batch, next, g, m)
                      => OnlyFunctor(pending, batch', next', g, m)
    BY <1>1, <2>1, DropKeeps
  <2> QED
    BY <2>1, <2>2 DEF QueueSame, Idle, Due
<1> QED
  BY <1>2, <1>3

\* A shutdownInLoop is queued, or called.
LEMMA ShutdownFrame ==
    ASSUME TypeOK, BatchIsForFunctors, NEW l \in Loops, NEW c \in Conns,
           \/ /\ queueInLoop(l, Functor("shutdownInLoop", c))
              /\ UNCHANGED <<batch, next>>
           \/ /\ RunFunctor(l, "shutdownInLoop", c)
              /\ UNCHANGED <<pending, batch>>
    PROVE  \A d \in Conns : QueueSame(d)
<1> DEFINE f == Functor("shutdownInLoop", c)
<1>1. /\ pending \in [Loops -> Seq(Functors)]
      /\ batch \in [Loops -> Seq(Functors)] /\ next \in [Loops -> Nat]
  BY DEF TypeOK
<1>2. f \in Functors /\ \A d \in Conns \cup {0} : Subject(f) /= d
  BY ShutdownType
<1> SUFFICES ASSUME NEW d \in Conns PROVE QueueSame(d)
  OBVIOUS
<1>3. \A o \in Ops : Functor(o, d) \in Functors /\ Subject(Functor(o, d)) = d
  BY FunctorType
<1>4. CASE queueInLoop(l, f) /\ UNCHANGED <<batch, next>>
  <2>1. pending' = [pending EXCEPT ![l] = Append(@, f)]
        /\ batch' = batch /\ next' = next
    BY <1>4 DEF queueInLoop
  <2> HIDE DEF f
  <2>2. Idle(d) => Idle(d)'
    BY <1>1, <1>2, <2>1, PushKeepsNo DEF Idle
  <2>3. ASSUME NEW o \in Ops, NEW m \in Loops, Due(o, d, m)
        PROVE  Due(o, d, m)'
    BY <1>1, <1>2, <1>3, <2>1, <2>3, PushKeepsOnly DEF Due
  <2> QED
    BY <2>2, <2>3 DEF QueueSame
<1>5. CASE RunFunctor(l, "shutdownInLoop", c) /\ UNCHANGED <<pending, batch>>
  <2>1. /\ next[l] >= 1 /\ next[l] <= Len(batch[l])
        /\ batch[l][next[l]] = f
        /\ next' = [next EXCEPT ![l] = @ + 1]
        /\ pending' = pending /\ batch' = batch
    BY <1>5 DEF RunFunctor, BatchIsForFunctors
  <2> HIDE DEF f
  <2>2. Idle(d) => Idle(d)'
    BY <1>1, <2>1, TakeKeepsNo DEF Idle
  <2>3. ASSUME NEW o \in Ops, NEW m \in Loops, Due(o, d, m)
        PROVE  Due(o, d, m)'
    BY <1>1, <1>2, <1>3, <2>1, <2>3, TakeKeepsOnly DEF Due
  <2> QED
    BY <2>2, <2>3 DEF QueueSame
<1> QED
  BY <1>4, <1>5

LEMMA StillFrame ==
    ASSUME UNCHANGED <<pending, batch, next>>
    PROVE  \A d \in Conns : QueueSame(d)
BY DEF QueueSame, Idle, Due

----------------------------------------------------------------------------
(* The life of a connection that a step does not touch.                    *)

Same(d) ==
    /\ state_'[d] = state_[d] /\ channel'[d] = channel[d]
    /\ ioLoop'[d] = ioLoop[d]
    /\ d \in connections_' <=> d \in connections_
    /\ QueueSame(d)

LEMMA SamePhase ==
    ASSUME TypeOK, NEW d \in Conns, Same(d)
    PROVE  /\ Phase(d) => Phase(d)'
           /\ Unborn(d) => Unborn(d)'
<1>1. ioLoop[d] \in Loops /\ Base \in Loops
  BY DEF TypeOK, Loops
<1>2. /\ Idle(d) => Idle(d)'
      /\ Due("connectEstablished", d, ioLoop[d])
            => Due("connectEstablished", d, ioLoop[d])'
      /\ Due("removeConnectionInLoop", d, Base)
            => Due("removeConnectionInLoop", d, Base)'
      /\ Due("connectDestroyed", d, ioLoop[d])
            => Due("connectDestroyed", d, ioLoop[d])'
  <2>1. \A op \in Ops, m \in Loops : Due(op, d, m) => Due(op, d, m)'
    BY DEF Same, QueueSame
  <2>2. ioLoop'[d] = ioLoop[d] /\ (Idle(d) => Idle(d)')
    BY DEF Same, QueueSame
  <2> QED
    BY <1>1, <2>1, <2>2 DEF Ops, Due
<1>3. Fresh(d) => Fresh(d)'
  BY <1>2 DEF Same, Fresh
<1>4. Open(d) => Open(d)'
  BY <1>2 DEF Same, Open, Established
<1>5. Closing(d) => Closing(d)'
  BY <1>2 DEF Same, Closing, Established
<1>6. Leaving(d) => Leaving(d)'
  BY <1>2 DEF Same, Leaving, Established
<1>7. Gone(d) => Gone(d)'
  BY <1>2 DEF Same, Gone
<1>8. Unborn(d) => Unborn(d)'
  BY <1>2 DEF Same, Unborn
<1> QED
  BY <1>3, <1>4, <1>5, <1>6, <1>7, <1>8 DEF Phase

LEMMA CreatedInConns ==
    ASSUME TypeOK PROVE Created \subseteq Conns
BY BoundsAssumption DEF TypeOK, Created, Conns

\* The connections a step leaves alone keep their phase.
LEMMA LivesStep ==
    ASSUME TypeOK, Lives, NEW c \in Conns,
           \A d \in Conns : d /= c => Same(d),
           Created' = Created \cup {c}, Phase(c)', ActiveIsOpen'
    PROVE  Lives'
<1>1. ASSUME NEW d \in Conns, d \in Created' PROVE Phase(d)'
  <2>1. CASE d = c
    BY <2>1
  <2>2. CASE d /= c
    BY <1>1, <2>2, SamePhase DEF Lives
  <2> QED
    BY <2>1, <2>2
<1>2. ASSUME NEW d \in Conns, d \notin Created' PROVE Unborn(d)'
  BY <1>2, SamePhase DEF Lives
<1>3. Created' \subseteq Conns
  BY CreatedInConns
<1> QED
  BY <1>1, <1>2, <1>3 DEF Lives

----------------------------------------------------------------------------
(* Types, the loops' batches and the pool's cursor.                        *)

Shape == TypeOK /\ BatchIsForFunctors /\ NextInRange /\ Placed

LEMMA BaseIsLoop == Base \in Loops
BY DEF Loops

\* What getNextLoop returns is a loop: the base loop only without a pool.
LEMMA NextLoopType ==
    ASSUME TypeOK, NextInRange
    PROVE  NextLoop \in Loops /\ (NextLoop = Base <=> loops_ = <<>>)
<1>1. CASE loops_ = <<>>
  BY <1>1, BaseIsLoop DEF NextLoop
<1>2. CASE loops_ /= <<>>
  <2>1. loops_ \in Pools /\ next_ + 1 \in DOMAIN loops_
    BY <1>2 DEF TypeOK, NextInRange
  <2>2. loops_[next_ + 1] \in Elements(loops_)
    BY <2>1 DEF Elements
  <2>3. loops_[next_ + 1] \in PoolLoops
    BY <2>1, <2>2 DEF PoolLoops
  <2> QED
    BY <1>2, <2>3, PoolsAssumption DEF NextLoop, Loops
<1> QED
  BY <1>1, <1>2

\* next_ stays in range.
LEMMA AfterNextInRange ==
    ASSUME TypeOK, NextInRange, loops_ /= <<>>
    PROVE  /\ AfterNext(next_, Len(loops_)) \in Nat
           /\ AfterNext(next_, Len(loops_)) + 1 \in DOMAIN loops_
<1>1. next_ \in Nat /\ loops_ \in Seq(PoolLoops)
  BY PoolsAssumption DEF TypeOK
<1>2. Len(loops_) \in Nat /\ Len(loops_) > 0 /\ DOMAIN loops_ = 1 .. Len(loops_)
  BY <1>1
<1> QED
  BY <1>1, <1>2 DEF AfterNext

\* A functor appended to a queue.
LEMMA QueueType ==
    ASSUME TypeOK, NEW l \in Loops, NEW op \in Ops, NEW c \in Conns \cup {0},
           queueInLoop(l, Functor(op, c))
    PROVE  pending' \in [Loops -> Seq(Functors)]
<1>1. Functor(op, c) \in Functors
  BY FunctorType
<1> QED
  BY <1>1 DEF TypeOK, queueInLoop

\* A functor taken from a batch.
LEMMA RunShape ==
    ASSUME TypeOK, BatchIsForFunctors, NEW l \in Loops, NEW op, NEW c,
           RunFunctor(l, op, c), UNCHANGED <<batch, pc>>
    PROVE  next' \in [Loops -> Nat] /\ BatchIsForFunctors'
<1>1. next \in [Loops -> Nat] /\ next' = [next EXCEPT ![l] = @ + 1]
      /\ pc[l] = "functors" /\ batch' = batch /\ pc' = pc
  BY DEF TypeOK, RunFunctor
<1> QED
  BY <1>1 DEF BatchIsForFunctors

\* Nothing of a connection's loop or of the pool changes.
LEMMA PlacedStill ==
    ASSUME UNCHANGED <<poolVars, ioLoop, nextConnId_>>, NextInRange, Placed
    PROVE  NextInRange' /\ Placed'
BY DEF poolVars, NextInRange, Placed, Created

LEMMA BatchStill ==
    ASSUME UNCHANGED <<batch, next, pc>>, BatchIsForFunctors
    PROVE  BatchIsForFunctors'
BY DEF BatchIsForFunctors

LEMMA NextShape ==
    ASSUME Shape, [Next]_vars
    PROVE  Shape'
<1> USE DEF Shape, userVars
<1>1. CASE startInLoop
  <2>1. TypeOK'
    BY <1>1, BoundsAssumption
    DEF startInLoop, TypeOK, serverVars, poolVars, connVars, loopVars
  <2> QED
    BY <1>1, <2>1, PlacedStill, BatchStill
    DEF startInLoop, serverVars, poolVars, connVars, loopVars
<1>2. CASE start
  <2>1. pending' \in [Loops -> Seq(Functors)]
    BY <1>2, QueueType, BaseIsLoop DEF start, TypeOK, Ops
  <2>2. TypeOK'
    BY <1>2, <2>1, BoundsAssumption
    DEF start, TypeOK, serverVars, poolVars, connVars, loopVars
  <2> QED
    BY <1>2, <2>2, PlacedStill, BatchStill
    DEF start, serverVars, poolVars, connVars, loopVars
<1>3. CASE Destroyed
  <2>1. TypeOK'
    BY <1>3 DEF Destroyed, TypeOK, serverVars, poolVars, connVars, loopVars
  <2> QED
    BY <1>3, <2>1, PlacedStill, BatchStill
    DEF Destroyed, serverVars, poolVars, connVars, loopVars
<1>4. ASSUME NEW l \in Loops, Poll(l) PROVE Shape'
  <2>1. Ready(l) \subseteq Conns \cup {0}
    BY CreatedInConns DEF Ready
  <2>2. active' \in [Loops -> SUBSET (Conns \cup {0})]
    BY <1>4, <2>1 DEF Poll, TypeOK
  <2>3. TypeOK'
    BY <1>4, <2>2 DEF Poll, TypeOK, serverVars, poolVars, connVars
  <2>4. BatchIsForFunctors'
    BY <1>4 DEF Poll, BatchIsForFunctors, TypeOK
  <2> QED
    BY <1>4, <2>3, <2>4, PlacedStill DEF Poll, serverVars, poolVars, connVars
<1>5. ASSUME NEW l \in Loops, Swap(l) PROVE Shape'
  <2>0. /\ pending' \in [Loops -> Seq(Functors)]
        /\ batch' \in [Loops -> Seq(Functors)]
        /\ pc' \in [Loops -> {"poll", "dispatch", "functors"}]
    BY <1>5 DEF Swap, TypeOK
  <2>1. TypeOK'
    BY <1>5, <2>0 DEF Swap, TypeOK, serverVars, poolVars, connVars
  <2>2. BatchIsForFunctors'
    BY <1>5 DEF Swap, BatchIsForFunctors, TypeOK
  <2> QED
    BY <1>5, <2>1, <2>2, PlacedStill DEF Swap, serverVars, poolVars, connVars
<1>6. ASSUME NEW l \in Loops, FunctorsDone(l) PROVE Shape'
  <2>0. fault' \in {"none", "assert", "handling", "channel", "dangling"}
    BY <1>6 DEF FunctorsDone, ChannelsDestroyed, TypeOK
  <2>1. TypeOK'
    BY <1>6, <2>0 DEF FunctorsDone, TypeOK, serverVars, poolVars, connVars
  <2>2. BatchIsForFunctors'
    BY <1>6 DEF FunctorsDone, BatchIsForFunctors, TypeOK
  <2> QED
    BY <1>6, <2>1, <2>2, PlacedStill
    DEF FunctorsDone, serverVars, poolVars, connVars
<1>7. ASSUME NEW l \in Loops, NEW c \in Conns, NEW keep \in BOOLEAN,
             RunEstablished(l, c, keep)
      PROVE  Shape'
  <2>1. next' \in [Loops -> Nat] /\ BatchIsForFunctors'
    BY <1>7, RunShape DEF RunEstablished
  <2>2. TypeOK'
    BY <1>7, <2>1
    DEF RunEstablished, connectEstablished, TypeOK, serverVars, poolVars
  <2> QED
    BY <1>7, <2>1, <2>2, PlacedStill DEF RunEstablished, serverVars
<1>8. ASSUME NEW l \in Loops, NEW c \in Conns, connectDestroyed(l, c)
      PROVE  Shape'
  <2>1. next' \in [Loops -> Nat] /\ BatchIsForFunctors'
    BY <1>8, RunShape DEF connectDestroyed
  <2>2. TypeOK'
    BY <1>8, <2>1 DEF connectDestroyed, TypeOK, serverVars, poolVars
  <2> QED
    BY <1>8, <2>1, <2>2, PlacedStill DEF connectDestroyed, serverVars
<1>9. CASE listen
  <2>1. next' \in [Loops -> Nat] /\ BatchIsForFunctors'
    BY <1>9, RunShape, BaseIsLoop DEF listen
  <2>2. TypeOK'
    BY <1>9, <2>1 DEF listen, TypeOK, serverVars, poolVars, connVars
  <2> QED
    BY <1>9, <2>1, <2>2, PlacedStill DEF listen, serverVars, connVars
<1>10. ASSUME NEW result \in AcceptResults, HandleReadNothing(result)
       PROVE  Shape'
  <2>1. TypeOK'
    BY <1>10
    DEF HandleReadNothing, HandlesEvent, TypeOK, serverVars, poolVars, connVars
  <2> QED
    BY <1>10, <2>1, PlacedStill, BatchStill
    DEF HandleReadNothing, serverVars, connVars
<1>11. ASSUME NEW result \in AcceptResults, NEW keep \in BOOLEAN,
              newConnection(result, keep)
       PROVE  Shape'
  <2>1. /\ nextConnId_ \in Conns /\ nextConnId_ \in Nat /\ nextConnId_ >= 1
        /\ nextConnId_ <= MaxConns /\ nextConnId_' = nextConnId_ + 1
    BY <1>11, BoundsAssumption DEF newConnection, TypeOK, Conns
  <2>2. NextLoop \in Loops /\ (NextLoop = Base <=> loops_ = <<>>)
    BY NextLoopType
  <2>3. /\ ioLoop \in [Conns -> Loops] /\ loops_' = loops_
        /\ ioLoop' = [ioLoop EXCEPT ![nextConnId_] = NextLoop]
    BY <1>11 DEF newConnection, TypeOK
  <2>4. pending' \in [Loops -> Seq(Functors)]
    BY <1>11, <2>1, <2>2, QueueType DEF newConnection, TypeOK, Ops
  <2>5. next_' \in Nat /\ NextInRange'
    BY <1>11, <2>3, AfterNextInRange DEF newConnection, TypeOK, NextInRange
  <2>6. Placed'
    <3>1. Created' = Created \cup {nextConnId_}
      BY <2>1 DEF Created
    <3>2. Created \subseteq Conns /\ nextConnId_ \notin Created
      BY <2>1, CreatedInConns DEF Created
    <3> QED
      BY <2>1, <2>2, <2>3, <3>1, <3>2 DEF Placed
  <2>7. ioLoop' \in [Conns -> Loops]
    BY <2>1, <2>2, <2>3
  <2>8. /\ state_' \in [Conns -> {"none", "kConnecting", "kConnected",
                                  "kDisconnecting", "kDisconnected"}]
        /\ channel' \in [Conns -> {"new", "added", "disabled", "removed"}]
        /\ held' \subseteq Conns /\ fault' = fault
    BY <1>11, <2>1 DEF newConnection, TypeOK
  <2>9. /\ nextConnId_' \in 1 .. MaxConns + 1 /\ connections_' \subseteq Conns
        /\ active' \in [Loops -> SUBSET (Conns \cup {0})]
    <3>1. nextConnId_' \in 1 .. MaxConns + 1
      BY <2>1, BoundsAssumption
    <3>2. connections_' \subseteq Conns
      BY <1>11, <2>1 DEF newConnection, TypeOK
    <3>3. active' \in [Loops -> SUBSET (Conns \cup {0})]
      BY <1>11 DEF newConnection, HandlesEvent, TypeOK
    <3> QED
      BY <3>1, <3>2, <3>3
  <2>10. TypeOK'
    BY <1>11, <2>4, <2>5, <2>7, <2>8, <2>9 DEF newConnection, TypeOK
  <2> QED
    BY <1>11, <2>5, <2>6, <2>10, BatchStill DEF newConnection
<1>12. ASSUME NEW c \in Conns, NEW event, HandleCloseInBase(c, event) PROVE Shape'
  <2>0. handling' \subseteq Conns
    BY <1>12 DEF HandleCloseInBase, StillHandling, TypeOK
  <2>1. TypeOK'
    BY <1>12, <2>0 DEF HandleCloseInBase, HandlesEvent, TypeOK, poolVars
  <2> QED
    BY <1>12, <2>1, PlacedStill, BatchStill DEF HandleCloseInBase
<1>13. ASSUME NEW c \in Conns, removeConnectionInLoop(c) PROVE Shape'
  <2>1. next' \in [Loops -> Nat] /\ BatchIsForFunctors'
    BY <1>13, RunShape, BaseIsLoop DEF removeConnectionInLoop
  <2>2. pending' \in [Loops -> Seq(Functors)]
    BY <1>13, QueueType DEF removeConnectionInLoop, TypeOK, Ops
  <2>3. TypeOK'
    BY <1>13, <2>1, <2>2
    DEF removeConnectionInLoop, TypeOK, poolVars, connVars
  <2> QED
    BY <1>13, <2>1, <2>3, PlacedStill DEF removeConnectionInLoop, connVars
<1>14. ASSUME NEW c \in Conns, NEW event, HandleClose(c, event) PROVE Shape'
  <2>0. handling' \subseteq Conns
    BY <1>14 DEF HandleClose, StillHandling, TypeOK
  <2>1. pending' \in [Loops -> Seq(Functors)]
    BY <1>14, QueueType, BaseIsLoop DEF HandleClose, Ops
  <2>2. TypeOK'
    BY <1>14, <2>0, <2>1 DEF HandleClose, HandlesEvent, TypeOK, serverVars, poolVars
  <2> QED
    BY <1>14, <2>2, PlacedStill, BatchStill DEF HandleClose, serverVars
<1>15. ASSUME NEW c \in Conns, shutdown(c) PROVE Shape'
  <2>1. TypeOK'
    BY <1>15 DEF shutdown, TypeOK, serverVars, poolVars, connVars, loopVars
  <2> QED
    BY <1>15, <2>1, PlacedStill, BatchStill
    DEF shutdown, serverVars, connVars, loopVars
<1>16. ASSUME NEW c \in Conns, Release(c) PROVE Shape'
  <2>0. fault' \in {"none", "assert", "handling", "channel", "dangling"}
    BY <1>16 DEF Release, ChannelsDestroyed, TypeOK
  <2>1. TypeOK'
    BY <1>16, <2>0 DEF Release, TypeOK, serverVars, poolVars, connVars, loopVars
  <2> QED
    BY <1>16, <2>1, PlacedStill, BatchStill
    DEF Release, serverVars, connVars, loopVars
<1>17. ASSUME NEW c \in Conns, shutdownSetState(c) \/ LoopShutdown(c)
       PROVE  Shape'
  <2>1. TypeOK'
    BY <1>17
    DEF shutdownSetState, LoopShutdown, TypeOK, serverVars, poolVars, loopVars
  <2> QED
    BY <1>17, <2>1, PlacedStill, BatchStill
    DEF shutdownSetState, LoopShutdown, serverVars, loopVars
<1>18. ASSUME NEW c \in Conns, shutdownQueue(c) PROVE Shape'
  <2>1. ioLoop[c] \in Loops /\ pending \in [Loops -> Seq(Functors)]
    BY DEF TypeOK
  <2>2. pending' \in [Loops -> Seq(Functors)]
    BY <1>18, <2>1, ShutdownType DEF shutdownQueue, queueInLoop
  <2>3. late' \in BOOLEAN
    BY <1>18, Zenon DEF shutdownQueue
  <2>4. upc' \in [Conns -> {"idle", "setState", "runInLoop"}]
    BY <1>18 DEF shutdownQueue, TypeOK
  <2>5. /\ UNCHANGED <<serverVars, listening_, poolVars, connVars, held, batch>>
        /\ UNCHANGED <<next, pc, active, starts, fault>>
    BY <1>18 DEF shutdownQueue
  <2>6. TypeOK'
    BY <2>2, <2>3, <2>4, <2>5 DEF TypeOK, serverVars, poolVars, connVars
  <2> QED
    BY <2>5, <2>6, PlacedStill, BatchStill DEF serverVars, connVars
<1>19. ASSUME NEW c \in Conns, NEW keep \in BOOLEAN,
              HandleRead(c, keep) \/ HandleOther(c)
       PROVE  Shape'
  <2>0. handling' \subseteq Conns /\ held' \subseteq Conns
    BY <1>19 DEF HandleRead, HandleOther, StillHandling, TypeOK
  <2>1. TypeOK'
    BY <1>19, <2>0
    DEF HandleRead, HandleOther, HandlesEvent, TypeOK, serverVars, poolVars
  <2> QED
    BY <1>19, <2>1, PlacedStill, BatchStill
    DEF HandleRead, HandleOther, serverVars
<1>20. ASSUME NEW l \in Loops, NEW c \in Conns, RunShutdown(l, c) PROVE Shape'
  <2>1. next' \in [Loops -> Nat] /\ BatchIsForFunctors'
    BY <1>20, RunShape DEF RunShutdown
  <2>2. fault' \in {"none", "assert", "handling", "channel", "dangling"}
    BY <1>20 DEF RunShutdown, TypeOK
  <2>3. TypeOK'
    BY <1>20, <2>1, <2>2 DEF RunShutdown, TypeOK, serverVars, poolVars, connVars
  <2> QED
    BY <1>20, <2>1, <2>3, PlacedStill DEF RunShutdown, serverVars, connVars
<1>21. CASE UNCHANGED vars
  <2>1. TypeOK'
    BY <1>21 DEF vars, TypeOK, serverVars, poolVars, connVars, loopVars
  <2> QED
    BY <1>21, <2>1, PlacedStill, BatchStill
    DEF vars, serverVars, poolVars, connVars, loopVars
<1> QED
  BY <1>1, <1>2, <1>3, <1>4, <1>5, <1>6, <1>7, <1>8, <1>9, <1>10, <1>11,
     <1>12, <1>13, <1>14, <1>15, <1>16, <1>17, <1>18, <1>19, <1>20, <1>21
  DEF Next, LoopStep, BaseStep, EventStep, UserStep, Owner

----------------------------------------------------------------------------
(* The lives of the connections while the server exists, action by action. *)

\* Every loop and connection stays as it is but for the queues of a loop.
LEMMA QuietLives ==
    ASSUME TypeOK, Lives, UNCHANGED <<serverVars, state_, channel, ioLoop>>,
           \A d \in Conns : QueueSame(d), ActiveIsOpen'
    PROVE  Lives'
<1>1. \A d \in Conns : Same(d)
  BY DEF Same, serverVars
<1>2. Created' = Created
  BY DEF Created, serverVars
<1>3. ASSUME NEW d \in Conns PROVE (Phase(d) => Phase(d)') /\ (Unborn(d) => Unborn(d)')
  BY <1>1, SamePhase
<1> QED
  BY <1>2, <1>3, CreatedInConns DEF Lives

LEMMA ActiveStill ==
    ASSUME UNCHANGED <<serverVars, channel, ioLoop, active>>, ActiveIsOpen
    PROVE  ActiveIsOpen'
BY DEF ActiveIsOpen, Created, serverVars

\* An event that was handled is not looked at again.
LEMMA ActiveHandled ==
    ASSUME TypeOK, NEW l \in Loops, NEW e, HandlesEvent(l, e)
    PROVE  /\ \A m \in Loops : active'[m] \subseteq active[m]
           /\ e \notin active'[l] /\ e \in active[l]
BY DEF TypeOK, HandlesEvent

LEMMA OwnerLives ==
    ASSUME Shape, Lives, startInLoop \/ start
    PROVE  Lives'
<1> USE DEF Shape, connVars
<1>1. ActiveIsOpen'
  BY ActiveStill DEF Lives, startInLoop, start, loopVars
<1>2. \A d \in Conns : QueueSame(d)
  <2>1. CASE UNCHANGED <<pending, batch, next>>
    BY <2>1, StillFrame
  <2>2. CASE queueInLoop(Base, Functor("listen", 0)) /\ UNCHANGED <<batch, next>>
    BY <2>2, QueueFrame, BaseIsLoop, ConnsType DEF Ops
  <2> QED
    BY <2>1, <2>2 DEF startInLoop, start, loopVars
<1> QED
  BY <1>1, <1>2, QuietLives DEF startInLoop, start

LEMMA PollLives ==
    ASSUME Shape, Lives, NEW l \in Loops, Poll(l)
    PROVE  Lives'
<1> USE DEF Shape, connVars
<1>1. PICK found \in SUBSET Ready(l) : active' = [active EXCEPT ![l] = found]
  BY DEF Poll
<1>2. \A m \in Loops : active'[m] = IF m = l THEN found ELSE active[m]
  BY <1>1 DEF TypeOK
<1>3. \A c \in found : c /= 0 => c \in Created /\ ioLoop[c] = l /\ channel[c] = "added"
  BY DEF Ready
<1>4. ActiveIsOpen'
  BY <1>2, <1>3 DEF Poll, Lives, ActiveIsOpen, Created, serverVars
<1> QED
  BY <1>4, QuietLives, StillFrame DEF Poll

LEMMA SwapLives ==
    ASSUME Shape, Lives, NEW l \in Loops, Swap(l) \/ FunctorsDone(l)
    PROVE  Lives'
<1> USE DEF Shape, connVars
<1>1. ActiveIsOpen'
  BY ActiveStill DEF Lives, Swap, FunctorsDone
<1> QED
  BY <1>1, SwapFrame, QuietLives DEF Swap, FunctorsDone

LEMMA ListenLives ==
    ASSUME Shape, Lives, listen
    PROVE  Lives'
<1> USE DEF Shape, connVars
<1>1. ActiveIsOpen'
  BY ActiveStill DEF Lives, listen
<1>2. \A d \in Conns : QueueSame(d)
  BY RunFrame, BaseIsLoop, ConnsType DEF listen, Ops
<1> QED
  BY <1>1, <1>2, QuietLives DEF listen

LEMMA HandleReadLives ==
    ASSUME Shape, Lives, NEW result, HandleReadNothing(result)
    PROVE  Lives'
<1> USE DEF Shape, connVars
<1>1. \A m \in Loops : active'[m] \subseteq active[m]
  BY ActiveHandled, BaseIsLoop DEF HandleReadNothing
<1>2. ActiveIsOpen'
  BY <1>1
  DEF HandleReadNothing, Lives, ActiveIsOpen, Created, serverVars
<1> QED
  BY <1>2, QuietLives, StillFrame DEF HandleReadNothing

LEMMA EventLives ==
    ASSUME Shape, Lives, NEW c \in Conns, NEW keep,
           HandleRead(c, keep) \/ HandleOther(c)
    PROVE  Lives'
<1> USE DEF Shape
<1>1. /\ HandlesEvent(ioLoop[c], c) /\ ioLoop[c] \in Loops
      /\ UNCHANGED <<serverVars, state_, channel, ioLoop, pending, batch, next>>
  BY DEF HandleRead, HandleOther, TypeOK
<1>2. \A m \in Loops : active'[m] \subseteq active[m]
  BY <1>1, ActiveHandled
<1>3. ActiveIsOpen'
  BY <1>1, <1>2 DEF Lives, ActiveIsOpen, Created, serverVars
<1> QED
  BY <1>1, <1>3, QuietLives, StillFrame

LEMMA RunShutdownLives ==
    ASSUME Shape, Lives, NEW l \in Loops, NEW c \in Conns, RunShutdown(l, c)
    PROVE  Lives'
<1> USE DEF Shape, connVars
<1>1. ActiveIsOpen'
  BY ActiveStill DEF Lives, RunShutdown
<1>2. \A d \in Conns : QueueSame(d)
  BY ShutdownFrame DEF RunShutdown
<1> QED
  BY <1>1, <1>2, QuietLives DEF RunShutdown

LEMMA UserLives ==
    ASSUME Shape, Lives, NEW c \in Conns,
           shutdown(c) \/ shutdownQueue(c) \/ Release(c)
    PROVE  Lives'
<1> USE DEF Shape, connVars
<1>1. UNCHANGED <<serverVars, state_, channel, ioLoop, active>>
  BY DEF shutdown, shutdownQueue, Release, loopVars
<1>2. ActiveIsOpen'
  BY <1>1, ActiveStill DEF Lives
<1>3. \A d \in Conns : QueueSame(d)
  <2>1. CASE shutdownQueue(c)
    BY <2>1, ShutdownFrame DEF shutdownQueue, TypeOK
  <2>2. CASE shutdown(c) \/ Release(c)
    BY <2>2, StillFrame DEF shutdown, Release, loopVars
  <2> QED
    BY <2>1, <2>2
<1> QED
  BY <1>1, <1>2, <1>3, QuietLives

\* The connection's own functor says in which phase it is.
LEMMA RunsItsPhase ==
    ASSUME Shape, Lives, NEW l \in Loops, NEW op \in Ops, NEW c \in Conns,
           RunFunctor(l, op, c)
    PROVE  /\ c \in Created
           /\ NoFunctor(pending, batch, next', c)
           /\ op = "connectEstablished" => Fresh(c) /\ l = ioLoop[c]
           /\ op = "removeConnectionInLoop" => Closing(c)
           /\ op = "connectDestroyed" => Leaving(c) /\ l = ioLoop[c]
<1>1. /\ ~Idle(c)
      /\ \A o \in Ops, m \in Loops : Due(o, c, m) =>
             o = op /\ m = l /\ NoFunctor(pending, batch, next', c)
  BY TakeFrame DEF Shape
<1>2. c \in Created /\ (Fresh(c) \/ Closing(c) \/ Leaving(c))
  BY <1>1 DEF Lives, Unborn, Phase, Open, Gone
<1>3. ioLoop[c] \in Loops /\ Base \in Loops
  BY BaseIsLoop DEF Shape, TypeOK
<1>4. Fresh(c) => /\ op = "connectEstablished" /\ l = ioLoop[c]
                  /\ NoFunctor(pending, batch, next', c)
  BY <1>1, <1>3 DEF Fresh, Ops
<1>5. Closing(c) => op = "removeConnectionInLoop" /\ NoFunctor(pending, batch, next', c)
  BY <1>1, <1>3 DEF Closing, Ops
<1>6. Leaving(c) => /\ op = "connectDestroyed" /\ l = ioLoop[c]
                    /\ NoFunctor(pending, batch, next', c)
  BY <1>1, <1>3 DEF Leaving, Ops
<1> QED
  BY <1>2, <1>4, <1>5, <1>6

LEMMA EstablishedLives ==
    ASSUME Shape, Lives, NEW l \in Loops, NEW c \in Conns, NEW keep \in BOOLEAN,
           RunEstablished(l, c, keep)
    PROVE  Lives' /\ fault' = fault
<1> USE DEF Shape
<1>1. RunFunctor(l, "connectEstablished", c) /\ connectEstablished(c, keep)
      /\ UNCHANGED <<serverVars, ioLoop, pending, batch, active>>
  BY DEF RunEstablished
<1>2. c \in Created /\ NoFunctor(pending, batch, next', c) /\ Fresh(c)
  BY <1>1, RunsItsPhase DEF Ops
<1>3. /\ state_' = [state_ EXCEPT ![c] = "kConnected"]
      /\ channel' = [channel EXCEPT ![c] = "added"] /\ fault' = fault
  BY <1>1, <1>2 DEF connectEstablished, Fresh
<1>4. state_'[c] = "kConnected" /\ channel'[c] = "added"
  BY <1>3 DEF TypeOK
<1>5. Open(c)'
  BY <1>1, <1>2, <1>4 DEF Open, Established, Fresh, Idle, serverVars
<1>6. \A d \in Conns : d /= c => Same(d)
  BY <1>1, <1>3, RunFrame DEF Same, serverVars, TypeOK, Ops
<1>7. Created' = Created
  BY <1>1 DEF Created, serverVars
<1>8. ActiveIsOpen'
  <2>1. \A d \in Conns : channel[d] = "added" => channel'[d] = "added"
    BY <1>3 DEF TypeOK
  <2> QED
    BY <1>1, <1>7, <2>1, CreatedInConns DEF Lives, ActiveIsOpen
<1>9. Phase(c)'
  BY <1>5 DEF Phase
<1>10. Created' = Created \cup {c}
  BY <1>2, <1>7
<1> QED
  BY <1>3, <1>6, <1>8, <1>9, <1>10, LivesStep

LEMMA RemoveLives ==
    ASSUME Shape, Lives, server, NEW c \in Conns, removeConnectionInLoop(c)
    PROVE  Lives' /\ fault' = fault
<1> USE DEF Shape
<1> DEFINE f == Functor("connectDestroyed", c)
<1>1. /\ RunFunctor(Base, "removeConnectionInLoop", c)
      /\ queueInLoop(ioLoop[c], f)
      /\ UNCHANGED <<nextConnId_, connVars, batch, active>>
      /\ connections_' = connections_ \ {c}
      /\ fault' = IF ~server THEN "dangling"
                  ELSE IF c \notin connections_ THEN "assert" ELSE fault
  BY DEF removeConnectionInLoop
<1>2. c \in Created /\ NoFunctor(pending, batch, next', c) /\ Closing(c)
  BY <1>1, RunsItsPhase, BaseIsLoop DEF Ops
<1>3. /\ f \in Functors /\ Subject(f) = c
      /\ ioLoop[c] \in Loops /\ pending \in [Loops -> Seq(Functors)]
      /\ pending' = [pending EXCEPT ![ioLoop[c]] = Append(@, f)]
  BY <1>1, FunctorType DEF TypeOK, queueInLoop, Ops
<1>4. Leaving(c)'
  <2> HIDE DEF f
  <2>1. OnlyFunctor(pending', batch, next', f, ioLoop[c])
    BY <1>2, <1>3, PushMakesOnly
  <2>2. Due("connectDestroyed", c, ioLoop[c])'
    BY <1>1, <2>1 DEF Due, connVars, f
  <2> QED
    BY <1>1, <1>2, <2>2 DEF Closing, Leaving, Established, connVars
<1>5. ASSUME NEW d \in Conns, d /= c PROVE Same(d)
  <2>1. /\ Idle(d) => NoFunctor(pending, batch, next', d)
        /\ \A o \in Ops, m \in Loops : Due(o, d, m) =>
               OnlyFunctor(pending, batch, next', Functor(o, d), m)
    BY <1>1, <1>5, TakeFrame, BaseIsLoop DEF Ops
  <2> HIDE DEF f
  <2>2. Idle(d) => Idle(d)'
    <3>1. NoFunctor(pending, batch, next', d) => NoFunctor(pending', batch, next', d)
      BY <1>3, <1>5, PushKeepsNo
    <3> QED
      BY <1>1, <2>1, <3>1 DEF Idle
  <2>3. ASSUME NEW o \in Ops, NEW m \in Loops, Due(o, d, m)
        PROVE  Due(o, d, m)'
    <3>1. Functor(o, d) \in Functors /\ Subject(Functor(o, d)) = d
      BY FunctorType
    <3>2. OnlyFunctor(pending, batch, next', Functor(o, d), m)
      BY <2>1, <2>3
    <3>3. OnlyFunctor(pending', batch, next', Functor(o, d), m)
      BY <1>3, <1>5, <3>1, <3>2, PushKeepsOnly
    <3> QED
      BY <1>1, <3>3 DEF Due
  <2> QED
    BY <1>1, <1>5, <2>2, <2>3 DEF Same, QueueSame, connVars
<1>6. Created' = Created
  BY <1>1 DEF Created
<1>7. ActiveIsOpen'
  BY <1>1, <1>6 DEF Lives, ActiveIsOpen, connVars
<1>8. fault' = fault
  BY <1>1, <1>2 DEF Closing
<1>9. Phase(c)'
  BY <1>4 DEF Phase
<1>10. Created' = Created \cup {c}
  BY <1>2, <1>6
<1> QED
  BY <1>5, <1>7, <1>8, <1>9, <1>10, LivesStep

LEMMA DestroyedLives ==
    ASSUME Shape, Lives, NEW l \in Loops, NEW c \in Conns, connectDestroyed(l, c)
    PROVE  Lives' /\ fault' = fault
<1> USE DEF Shape
<1>1. /\ RunFunctor(l, "connectDestroyed", c)
      /\ UNCHANGED <<serverVars, ioLoop, pending, batch, active>>
      /\ fault' = IF Established(c) THEN fault ELSE "assert"
      /\ state_' = [state_ EXCEPT ![c] = "kDisconnected"]
      /\ channel' = [channel EXCEPT ![c] = "removed"]
  BY DEF connectDestroyed
<1>2. c \in Created /\ NoFunctor(pending, batch, next', c) /\ Leaving(c)
  BY <1>1, RunsItsPhase DEF Ops
<1>3. channel'[c] = "removed" /\ fault' = fault
  BY <1>1, <1>2 DEF TypeOK, Leaving
<1>4. Gone(c)'
  BY <1>1, <1>2, <1>3 DEF Gone, Leaving, Idle, serverVars
<1>5. \A d \in Conns : d /= c => Same(d)
  BY <1>1, RunFrame DEF Same, serverVars, TypeOK, Ops
<1>6. Created' = Created
  BY <1>1 DEF Created, serverVars
<1>7. ActiveIsOpen'
  <2>1. \A d \in Conns : channel[d] = "added" => channel'[d] = "added"
    BY <1>1, <1>2 DEF TypeOK, Leaving
  <2> QED
    BY <1>1, <1>6, <2>1, CreatedInConns DEF Lives, ActiveIsOpen
<1>8. Phase(c)'
  BY <1>4 DEF Phase
<1>9. Created' = Created \cup {c}
  BY <1>2, <1>6
<1> QED
  BY <1>3, <1>5, <1>7, <1>8, <1>9, LivesStep

\* A connection in state kConnected has been established.
LEMMA ConnectedIsOld ==
    ASSUME Lives, NEW c \in Conns, state_[c] = "kConnected"
    PROVE  channel[c] /= "new"
BY DEF Lives, Unborn, Phase, Fresh, Open, Closing, Leaving, Gone

LEMMA DisconnectingLives ==
    ASSUME Shape, Lives, NEW c \in Conns, channel[c] /= "new",
           shutdownSetState(c) \/ LoopShutdown(c)
    PROVE  Lives'
<1> USE DEF Shape
<1>1. /\ channel[c] /= "new" /\ state_' = [state_ EXCEPT ![c] = "kDisconnecting"]
      /\ UNCHANGED <<serverVars, channel, ioLoop, pending, batch, next, active>>
  BY DEF shutdownSetState, LoopShutdown, loopVars
<1>2. \A d \in Conns : QueueSame(d)
  BY <1>1, StillFrame
<1>3. \A d \in Conns : d /= c => Same(d)
  BY <1>1, <1>2 DEF Same, serverVars, TypeOK
<1>4. Created' = Created
  BY <1>1 DEF Created, serverVars
<1>5. c \in Created
  BY <1>1 DEF Lives, Unborn
<1>6. state_'[c] = "kDisconnecting"
  BY <1>1 DEF TypeOK
<1>7. Phase(c)'
  <2>1. Open(c) \/ Closing(c) \/ Leaving(c) \/ Gone(c)
    BY <1>1, <1>5 DEF Lives, Phase, Fresh
  <2>2. Idle(c) => Idle(c)'
    BY <1>2 DEF QueueSame
  <2>3. \A op, m : Due(op, c, m) => Due(op, c, m)'
    BY <1>1 DEF Due
  <2>4. Open(c) => Open(c)'
    BY <1>1, <1>6, <2>2 DEF Open, Established, serverVars
  <2>5. Closing(c) => Closing(c)'
    BY <1>1, <1>6, <2>3 DEF Closing, Established, serverVars
  <2>6. Leaving(c) => Leaving(c)'
    BY <1>1, <1>6 DEF Leaving, Established, serverVars, Due
  <2>7. Gone(c) => Gone(c)'
    BY <1>1, <2>2 DEF Gone, serverVars
  <2> QED
    BY <2>1, <2>4, <2>5, <2>6, <2>7 DEF Phase
<1>8. ActiveIsOpen'
  BY <1>1, <1>4 DEF Lives, ActiveIsOpen
<1>9. Created' = Created \cup {c}
  BY <1>5, <1>4
<1> QED
  BY <1>3, <1>8, <1>7, <1>9, LivesStep

LEMMA HandleCloseLives ==
    ASSUME Shape, Lives, server, NEW c \in Conns, NEW event,
           HandleClose(c, event)
    PROVE  Lives' /\ fault' = fault
<1> USE DEF Shape
<1>1. /\ ioLoop[c] /= Base /\ HandlesEvent(ioLoop[c], c)
      /\ fault' = IF ~Established(c) THEN "assert"
                  ELSE IF ~server THEN "dangling" ELSE fault
      /\ channel' = [channel EXCEPT ![c] = "disabled"]
      /\ queueInLoop(Base, Functor("removeConnectionInLoop", c))
      /\ UNCHANGED <<serverVars, state_, ioLoop, batch, next>>
  BY DEF HandleClose
<1>2. ioLoop[c] \in Loops /\ c /= 0
  BY ConnsType DEF TypeOK
<1>3. /\ \A m \in Loops : active'[m] \subseteq active[m]
      /\ c \notin active'[ioLoop[c]] /\ c \in active[ioLoop[c]]
  BY <1>1, <1>2, ActiveHandled
<1>4. c \in Created /\ channel[c] = "added"
  BY <1>2, <1>3 DEF Lives, ActiveIsOpen
<1>5. Open(c)
  BY <1>4 DEF Lives, Phase, Fresh, Closing, Leaving, Gone
<1>6. fault' = fault
  BY <1>1, <1>5 DEF Open
<1>7. /\ \A d \in Conns : d /= c => QueueSame(d)
      /\ Idle(c) => Due("removeConnectionInLoop", c, Base)'
  BY <1>1, QueueFrame, BaseIsLoop DEF Ops
<1>8. channel'[c] = "disabled"
  BY <1>1 DEF TypeOK
<1>9. Closing(c)'
  BY <1>1, <1>5, <1>7, <1>8 DEF Open, Closing, Established, serverVars
<1>10. \A d \in Conns : d /= c => Same(d)
  BY <1>1, <1>7 DEF Same, serverVars, TypeOK
<1>11. Created' = Created
  BY <1>1 DEF Created, serverVars
<1>12. ActiveIsOpen'
  <2>1. \A d \in Conns : d /= c => channel'[d] = channel[d]
    BY <1>1 DEF TypeOK
  <2>2. \A m \in Loops : c \notin active'[m]
    BY <1>2, <1>3 DEF Lives, ActiveIsOpen
  <2> QED
    BY <1>1, <1>3, <1>11, <2>1, <2>2, CreatedInConns DEF Lives, ActiveIsOpen
<1>13. Phase(c)'
  BY <1>9 DEF Phase
<1>14. Created' = Created \cup {c}
  BY <1>4, <1>11
<1> QED
  BY <1>6, <1>10, <1>12, <1>13, <1>14, LivesStep

\* Without a pool the Channel is destroyed in its own handleEvent, unless
\* somebody holds the connection.
LEMMA HandleCloseInBaseLives ==
    ASSUME Shape, Lives, NEW c \in Conns, NEW event, HandleCloseInBase(c, event)
    PROVE  /\ Lives'
           /\ fault' = fault \/ (fault' = "handling" /\ loops_ = <<>>)
<1> USE DEF Shape
<1>1. /\ ioLoop[c] = Base /\ HandlesEvent(Base, c)
      /\ fault' = IF ~Established(c) \/ c \notin connections_ THEN "assert"
                  ELSE IF c \notin held THEN "handling" ELSE fault
      /\ connections_' = connections_ \ {c}
      /\ state_' = [state_ EXCEPT ![c] = "kDisconnected"]
      /\ channel' = [channel EXCEPT ![c] = "removed"]
      /\ UNCHANGED <<nextConnId_, ioLoop, pending, batch, next>>
  BY DEF HandleCloseInBase
<1>2. c /= 0
  BY ConnsType
<1>3. /\ \A m \in Loops : active'[m] \subseteq active[m]
      /\ c \notin active'[Base] /\ c \in active[Base]
  BY <1>1, BaseIsLoop, ActiveHandled
<1>4. c \in Created /\ channel[c] = "added"
  BY <1>2, <1>3, BaseIsLoop DEF Lives, ActiveIsOpen
<1>5. Open(c)
  BY <1>4 DEF Lives, Phase, Fresh, Closing, Leaving, Gone
<1>6. fault' = fault \/ (fault' = "handling" /\ loops_ = <<>>)
  BY <1>1, <1>4, <1>5 DEF Open, Placed
<1>7. \A d \in Conns : QueueSame(d)
  BY <1>1, StillFrame
<1>8. Gone(c)'
  BY <1>1, <1>5, <1>7 DEF Open, Gone, QueueSame, TypeOK
<1>9. \A d \in Conns : d /= c => Same(d)
  BY <1>1, <1>7 DEF Same, TypeOK
<1>10. Created' = Created
  BY <1>1 DEF Created
<1>11. ActiveIsOpen'
  <2>1. \A d \in Conns : d /= c => channel'[d] = channel[d]
    BY <1>1 DEF TypeOK
  <2>2. \A m \in Loops : c \notin active'[m]
    BY <1>1, <1>2, <1>3 DEF Lives, ActiveIsOpen
  <2> QED
    BY <1>1, <1>3, <1>10, <2>1, <2>2, CreatedInConns DEF Lives, ActiveIsOpen
<1>12. Phase(c)'
  BY <1>8 DEF Phase
<1>13. Created' = Created \cup {c}
  BY <1>4, <1>10
<1> QED
  BY <1>6, <1>9, <1>11, <1>12, <1>13, LivesStep

LEMMA NewConnectionLives ==
    ASSUME Shape, Shape', Lives, NEW result, NEW keep \in BOOLEAN,
           newConnection(result, keep)
    PROVE  Lives' /\ fault' = fault
<1> USE DEF Shape
<1>1. /\ nextConnId_ \in Nat /\ nextConnId_ >= 1 /\ nextConnId_ \in Conns
      /\ nextConnId_' = nextConnId_ + 1
  BY BoundsAssumption DEF newConnection, TypeOK, Conns
<1>2. PICK c \in Conns : c = nextConnId_
  BY <1>1
<1>3. Created' = Created \cup {c} /\ c \notin Created
  BY <1>1, <1>2 DEF Created
<1>4. Unborn(c)
  BY <1>3 DEF Lives
<1>5. /\ HandlesEvent(Base, 0) /\ connections_' = connections_ \cup {c}
      /\ ioLoop' = [ioLoop EXCEPT ![c] = NextLoop]
      /\ UNCHANGED <<batch, next>> /\ fault' = fault
  BY <1>2 DEF newConnection
<1>6. NextLoop \in Loops
  BY NextLoopType
<1>7. CASE NextLoop = Base
  <2>1. /\ state_' = [state_ EXCEPT ![c] = "kConnected"]
        /\ channel' = [channel EXCEPT ![c] = "added"]
        /\ UNCHANGED pending
    BY <1>2, <1>7 DEF newConnection
  <2>2. \A d \in Conns : QueueSame(d)
    BY <1>5, <2>1, StillFrame
  <2>3. Open(c)'
    BY <1>4, <1>5, <2>1, <2>2 DEF Open, Unborn, QueueSame, Established, TypeOK
  <2>4. \A d \in Conns : d /= c => Same(d)
    BY <1>5, <2>1, <2>2 DEF Same, TypeOK
  <2>5. ActiveIsOpen'
    <3>1. \A d \in Conns : d /= c => channel'[d] = channel[d] /\ ioLoop'[d] = ioLoop[d]
      BY <1>5, <2>1 DEF TypeOK
    <3>2. \A m \in Loops : active'[m] \subseteq active[m]
      BY <1>5, BaseIsLoop, ActiveHandled
    <3> QED
      BY <1>3, <3>1, <3>2, CreatedInConns DEF Lives, ActiveIsOpen
  <2>6. Phase(c)'
    BY <2>3 DEF Phase
  <2>7. Lives'
    BY <1>3, <2>4, <2>5, <2>6, LivesStep
  <2> QED
    BY <1>5, <2>7
<1>8. CASE NextLoop /= Base
  <2>1. /\ state_' = [state_ EXCEPT ![c] = "kConnecting"]
        /\ queueInLoop(NextLoop, Functor("connectEstablished", c))
        /\ UNCHANGED channel
    BY <1>2, <1>8 DEF newConnection
  <2>2. PICK l \in Loops : l = NextLoop
    BY <1>6
  <2>3. /\ \A d \in Conns : d /= c => QueueSame(d)
        /\ Idle(c) => Due("connectEstablished", c, l)'
    BY <1>5, <2>1, <2>2, QueueFrame DEF Ops
  <2>4. ioLoop'[c] = l
    BY <1>5, <2>2 DEF TypeOK
  <2>5. Fresh(c)'
    <3>1. Due("connectEstablished", c, ioLoop[c])'
      BY <1>4, <2>3, <2>4 DEF Unborn, Due
    <3> QED
      BY <1>4, <1>5, <1>8, <2>1, <2>2, <2>4, <3>1 DEF Fresh, Unborn, TypeOK
  <2>6. \A d \in Conns : d /= c => Same(d)
    BY <1>5, <2>1, <2>3 DEF Same, TypeOK
  <2>7. ActiveIsOpen'
    <3>1. \A d \in Conns : d /= c => ioLoop'[d] = ioLoop[d]
      BY <1>5 DEF TypeOK
    <3>2. \A m \in Loops : active'[m] \subseteq active[m]
      BY <1>5, BaseIsLoop, ActiveHandled
    <3> QED
      BY <1>3, <2>1, <3>1, <3>2, CreatedInConns DEF Lives, ActiveIsOpen
  <2>8. Phase(c)'
    BY <2>5 DEF Phase
  <2>9. Lives'
    BY <1>3, <2>6, <2>7, <2>8, LivesStep
  <2> QED
    BY <1>5, <2>9
<1> QED
  BY <1>7, <1>8

----------------------------------------------------------------------------
(* Connections are used after they were established.                       *)

\* An event is of an open connection.
LEMMA EventIsOpen ==
    ASSUME TypeOK, Lives, NEW c \in Conns, NEW l \in Loops, HandlesEvent(l, c)
    PROVE  c \in Created /\ channel[c] = "added"
BY ConnsType, ActiveHandled DEF Lives, ActiveIsOpen

LEMMA UsedStep ==
    ASSUME Used, Created \subseteq Created', handling' \subseteq Created',
           \A c \in Conns : channel[c] /= "new" => channel'[c] /= "new",
           \A c \in Conns : upc'[c] /= "idle" =>
                                upc[c] /= "idle" \/ channel[c] /= "new"
    PROVE  Used'
BY DEF Used

LEMMA UsedStill ==
    ASSUME Used, UNCHANGED <<nextConnId_, channel, handling, upc>>
    PROVE  Used'
BY DEF Used, Created

LEMMA LoopUsed ==
    ASSUME Shape, Lives, Used, NEW l \in Loops, LoopStep(l)
    PROVE  Used'
<1> USE DEF serverVars, connVars, userVars
<1>1. CASE Poll(l) \/ Swap(l) \/ FunctorsDone(l)
  BY <1>1, UsedStill DEF Poll, Swap, FunctorsDone
<1>2. ASSUME NEW c \in Conns, RunShutdown(l, c) PROVE Used'
  BY <1>2, UsedStill DEF RunShutdown
<1>3. ASSUME NEW c \in Conns, NEW keep \in BOOLEAN, RunEstablished(l, c, keep)
      PROVE  Used'
  <2>1. /\ UNCHANGED <<nextConnId_, handling, upc>>
        /\ channel' = [channel EXCEPT ![c] = "added"]
    BY <1>3 DEF RunEstablished, connectEstablished
  <2> QED
    BY <2>1, UsedStep DEF Used, Created, Shape, TypeOK
<1>4. ASSUME NEW c \in Conns, connectDestroyed(l, c) PROVE Used'
  <2>1. /\ UNCHANGED <<nextConnId_, handling, upc>>
        /\ channel' = [channel EXCEPT ![c] = "removed"]
    BY <1>4 DEF connectDestroyed
  <2> QED
    BY <2>1, UsedStep DEF Used, Created, Shape, TypeOK
<1> QED
  BY <1>1, <1>2, <1>3, <1>4 DEF LoopStep

LEMMA BaseUsed ==
    ASSUME Shape, Used, BaseStep
    PROVE  Used'
<1> USE DEF serverVars, connVars, userVars
<1>1. CASE listen
  BY <1>1, UsedStill DEF listen
<1>2. ASSUME NEW result, HandleReadNothing(result) PROVE Used'
  BY <1>2, UsedStill DEF HandleReadNothing
<1>3. ASSUME NEW c, removeConnectionInLoop(c) PROVE Used'
  BY <1>3, UsedStill DEF removeConnectionInLoop
<1>4. ASSUME NEW result, NEW keep, newConnection(result, keep) PROVE Used'
  <2>1. /\ nextConnId_ \in Nat /\ nextConnId_' = nextConnId_ + 1
        /\ UNCHANGED <<handling, upc>>
    BY <1>4 DEF newConnection, Shape, TypeOK
  <2>2. Created \subseteq Created'
    BY <2>1 DEF Created
  <2>3. \A c \in Conns : channel[c] /= "new" => channel'[c] /= "new"
    BY <1>4 DEF newConnection, Shape, TypeOK
  <2> QED
    BY <2>1, <2>2, <2>3, UsedStep DEF Used
<1> QED
  BY <1>1, <1>2, <1>3, <1>4 DEF BaseStep

LEMMA EventUsed ==
    ASSUME Shape, Lives, Used, NEW c \in Conns, EventStep(c)
    PROVE  Used'
<1> USE DEF serverVars, userVars
<1>1. PICK event : handling' = StillHandling(c, event)
  BY DEF EventStep, HandleClose, HandleCloseInBase, HandleRead, HandleOther
<1>2. HandlesEvent(ioLoop[c], c) /\ ioLoop[c] \in Loops
  BY DEF EventStep, HandleClose, HandleCloseInBase, HandleRead, HandleOther,
         Shape, TypeOK
<1>3. c \in Created
  BY <1>2, EventIsOpen DEF Shape
<1>4. nextConnId_' = nextConnId_ /\ upc' = upc
  BY DEF EventStep, HandleClose, HandleCloseInBase, HandleRead, HandleOther
<1>5. \A d \in Conns : channel[d] /= "new" => channel'[d] /= "new"
  BY DEF EventStep, HandleClose, HandleCloseInBase, HandleRead, HandleOther,
         Shape, TypeOK
<1> QED
  BY <1>1, <1>3, <1>4, <1>5, UsedStep DEF Used, Created, StillHandling

LEMMA UserUsed ==
    ASSUME Shape, Lives, Used, NEW c \in Conns, UserStep(c)
    PROVE  Used'
<1> USE DEF serverVars, connVars, userVars
<1>1. CASE LoopShutdown(c) \/ Release(c)
  BY <1>1, UsedStill DEF LoopShutdown, Release
<1>2. CASE shutdown(c)
  <2>1. /\ UNCHANGED <<nextConnId_, handling, channel>>
        /\ upc' = [upc EXCEPT ![c] = "setState"]
    BY <1>2 DEF shutdown
  <2>2. channel[c] /= "new"
    BY <1>2, ConnectedIsOld DEF shutdown
  <2> QED
    BY <2>1, <2>2, UsedStep DEF Used, Created, Shape, TypeOK
<1>3. CASE shutdownSetState(c) \/ shutdownQueue(c)
  <2>1. /\ UNCHANGED <<nextConnId_, handling, channel>>
        /\ upc[c] /= "idle" /\ \A d \in Conns : d /= c => upc'[d] = upc[d]
    BY <1>3 DEF shutdownSetState, shutdownQueue, Shape, TypeOK
  <2> QED
    BY <2>1, UsedStep DEF Used, Created
<1> QED
  BY <1>1, <1>2, <1>3 DEF UserStep

----------------------------------------------------------------------------
(* A shutdownInLoop that the peer's close did not overtake is run before   *)
(* connectDestroyed.                                                       *)

LEMMA PushAwaits ==
    ASSUME NEW q \in Seq(Functors), NEW f \in Functors, NEW c,
           f /= Functor("shutdownInLoop", c)
    PROVE  /\ Awaits(Append(q, f), 1, c) => Awaits(q, 1, c)
           /\ Ordered(q, c) => Ordered(Append(q, f), c)
<1> DEFINE g == Functor("shutdownInLoop", c)
           h == Functor("connectDestroyed", c)
<1>1. /\ Len(Append(q, f)) = Len(q) + 1 /\ Append(q, f)[Len(q) + 1] = f
      /\ \A i \in 1 .. Len(q) : Append(q, f)[i] = q[i]
  OBVIOUS
<1> HIDE DEF g, h
<1>2. Awaits(Append(q, f), 1, c) => Awaits(q, 1, c)
  BY <1>1 DEF Awaits, g
<1>3. Ordered(q, c) => Ordered(Append(q, f), c)
  <2> SUFFICES ASSUME Ordered(q, c),
                      NEW i \in 1 .. Len(q) + 1, NEW j \in 1 .. Len(q) + 1,
                      Append(q, f)[i] = h, i < j
               PROVE  Append(q, f)[j] /= g
    BY <1>1 DEF Ordered, g, h
  <2>1. i \in 1 .. Len(q)
    OBVIOUS
  <2>2. CASE j = Len(q) + 1
    BY <1>1, <2>2 DEF g
  <2>3. CASE j \in 1 .. Len(q)
    BY <1>1, <2>1, <2>3 DEF Ordered, g, h
  <2> QED
    BY <2>2, <2>3
<1> QED
  BY <1>2, <1>3

LEMMA PushShutdown ==
    ASSUME NEW q \in Seq(Functors), NEW c \in Conns, NoneOf(q, 1, c)
    PROVE  Ordered(Append(q, Functor("shutdownInLoop", c)), c)
<1> DEFINE g == Functor("shutdownInLoop", c)
           h == Functor("connectDestroyed", c)
<1>1. g \in Functors /\ Subject(h) = c
  BY ShutdownType, FunctorType DEF Ops
<1> HIDE DEF g, h
<1>2. /\ Len(Append(q, g)) = Len(q) + 1
      /\ \A i \in 1 .. Len(q) : Append(q, g)[i] = q[i]
  BY <1>1
<1>3. \A i \in 1 .. Len(q) : q[i] /= h
  BY <1>1 DEF NoneOf
<1>4. ASSUME NEW i \in 1 .. Len(q) + 1, NEW j \in 1 .. Len(q) + 1,
             Append(q, g)[i] = h, i < j
      PROVE  FALSE
  BY <1>2, <1>3, <1>4
<1> QED
  BY <1>2, <1>4 DEF Ordered, g, h

LEMMA InTimeRule ==
    ASSUME NEW c,
           \A l \in Loops :
               /\ Awaits(pending'[l], 1, c) \/ Awaits(batch'[l], next'[l], c) =>
                     l = ioLoop'[c] /\ c \in Created' /\ channel'[c] /= "removed"
               /\ Awaits(pending'[l], 1, c) /\ channel'[c] = "disabled"
                     => pc'[l] = "dispatch"
               /\ Ordered(pending'[l], c) /\ Ordered(batch'[l], c)
    PROVE  InTime(c)'
BY DEF InTime, Awaits, Ordered

\* The channel of c stays as it is, and no shutdownInLoop of c is queued.
LEMMA InTimeKept ==
    ASSUME NEW c \in Conns, InTime(c), Created \subseteq Created',
           c \in Created => ioLoop'[c] = ioLoop[c], channel'[c] = channel[c],
           \A l \in Loops :
               /\ Awaits(pending'[l], 1, c) =>
                     /\ Awaits(pending[l], 1, c)
                     /\ pc[l] = "dispatch" => pc'[l] = "dispatch"
               /\ Awaits(batch'[l], next'[l], c) =>
                     Awaits(pending[l], 1, c) \/ Awaits(batch[l], next[l], c)
               /\ Ordered(pending'[l], c) /\ Ordered(batch'[l], c)
    PROVE  InTime(c)'
<1> SUFFICES ASSUME NEW l \in Loops
             PROVE  /\ Awaits(pending'[l], 1, c) \/ Awaits(batch'[l], next'[l], c) =>
                          l = ioLoop'[c] /\ c \in Created' /\ channel'[c] /= "removed"
                    /\ Awaits(pending'[l], 1, c) /\ channel'[c] = "disabled"
                          => pc'[l] = "dispatch"
                    /\ Ordered(pending'[l], c) /\ Ordered(batch'[l], c)
  BY InTimeRule
<1>1. /\ Awaits(pending[l], 1, c) \/ Awaits(batch[l], next[l], c) =>
            l = ioLoop[c] /\ c \in Created /\ channel[c] /= "removed"
      /\ Awaits(pending[l], 1, c) /\ channel[c] = "disabled" => pc[l] = "dispatch"
  BY DEF InTime
<1> QED
  BY <1>1

\* The queues stay as they are.
LEMMA InTimeStill ==
    ASSUME NEW c \in Conns, InTime(c), channel'[c] = channel[c],
           UNCHANGED <<nextConnId_, ioLoop, pending, batch, next>>,
           \A l \in Loops : pc[l] = "dispatch" => pc'[l] = "dispatch"
    PROVE  InTime(c)'
<1>1. \A l \in Loops : Ordered(pending[l], c) /\ Ordered(batch[l], c)
  BY DEF InTime
<1>2. Created' = Created
  BY DEF Created
<1> QED
  BY <1>1, <1>2, InTimeKept

\* A functor other than shutdownInLoop of c is queued.
LEMMA QueueAwaits ==
    ASSUME TypeOK, NEW c \in Conns, InTime(c), NEW l \in Loops,
           NEW f \in Functors, queueInLoop(l, f),
           f /= Functor("shutdownInLoop", c)
    PROVE  \A m \in Loops : /\ Awaits(pending'[m], 1, c) => Awaits(pending[m], 1, c)
                            /\ Ordered(pending'[m], c) /\ Ordered(batch[m], c)
<1>1. /\ pending \in [Loops -> Seq(Functors)]
      /\ pending' = [pending EXCEPT ![l] = Append(@, f)]
  BY DEF TypeOK, queueInLoop
<1>2. \A m \in Loops : pending'[m] = IF m = l THEN Append(pending[m], f) ELSE pending[m]
  BY <1>1
<1>3. \A m \in Loops : Ordered(pending[m], c) /\ Ordered(batch[m], c)
  BY DEF InTime
<1> QED
  BY <1>1, <1>2, <1>3, PushAwaits

\* A functor is taken from a batch.
LEMMA TakeAwaits ==
    ASSUME TypeOK, NEW c, NEW l \in Loops, NEW op, NEW d, RunFunctor(l, op, d)
    PROVE  \A m \in Loops :
               /\ next'[m] = IF m = l THEN next[m] + 1 ELSE next[m]
               /\ Awaits(batch[m], next'[m], c) => Awaits(batch[m], next[m], c)
<1>1. \A m \in Loops : /\ next'[m] = IF m = l THEN next[m] + 1 ELSE next[m]
                       /\ next[m] \in Nat /\ batch[m] \in Seq(Functors)
  BY DEF TypeOK, RunFunctor
<1>2. ASSUME NEW m \in Loops, Awaits(batch[m], next'[m], c)
      PROVE  Awaits(batch[m], next[m], c)
  <2>1. PICK i \in 1 .. Len(batch[m]) :
            i >= next'[m] /\ batch[m][i] = Functor("shutdownInLoop", c)
    BY <1>2 DEF Awaits
  <2>2. i \in Nat /\ i >= next[m]
    BY <1>1, <2>1
  <2> QED
    BY <2>1, <2>2 DEF Awaits
<1> QED
  BY <1>1, <1>2

LEMMA InTimeTake ==
    ASSUME TypeOK, NEW c \in Conns, InTime(c),
           NEW l \in Loops, NEW op, NEW d, RunFunctor(l, op, d),
           UNCHANGED <<nextConnId_, ioLoop, pending, batch, pc>>,
           channel'[c] = channel[c]
    PROVE  InTime(c)'
<1>1. \A m \in Loops : Ordered(pending[m], c) /\ Ordered(batch[m], c)
  BY DEF InTime
<1>2. \A m \in Loops : Awaits(batch[m], next'[m], c) => Awaits(batch[m], next[m], c)
  BY TakeAwaits
<1>3. Created' = Created
  BY DEF Created
<1> QED
  BY <1>1, <1>2, <1>3, InTimeKept

LEMMA InTimeQueue ==
    ASSUME TypeOK, NEW c \in Conns, InTime(c), NEW l \in Loops,
           NEW f \in Functors, queueInLoop(l, f),
           f /= Functor("shutdownInLoop", c),
           Created \subseteq Created', c \in Created => ioLoop'[c] = ioLoop[c],
           channel'[c] = channel[c], UNCHANGED <<batch, next, pc>>
    PROVE  InTime(c)'
BY QueueAwaits, InTimeKept

\* The three things a loop does by itself.
LEMMA SwapInTime ==
    ASSUME Shape, NEW c \in Conns, InTime(c), NEW l \in Loops, Swap(l)
    PROVE  InTime(c)'
<1> USE DEF Shape
<1>1. /\ UNCHANGED <<nextConnId_, ioLoop, channel, next>>
      /\ pending' = [pending EXCEPT ![l] = <<>>]
      /\ batch' = [batch EXCEPT ![l] = pending[l]]
      /\ pc' = [pc EXCEPT ![l] = "functors"] /\ next[l] = 1
  BY DEF Swap, serverVars, connVars, BatchIsForFunctors
<1>2. \A m \in Loops : /\ pending'[m] = IF m = l THEN <<>> ELSE pending[m]
                       /\ batch'[m] = IF m = l THEN pending[m] ELSE batch[m]
                       /\ m /= l => pc'[m] = pc[m]
  BY <1>1 DEF TypeOK
<1>3. ~Awaits(<<>>, 1, c) /\ Ordered(<<>>, c)
  BY DEF Awaits, Ordered
<1>4. \A m \in Loops : Ordered(pending[m], c) /\ Ordered(batch[m], c)
  BY DEF InTime
<1>5. Created' = Created
  BY <1>1 DEF Created
<1> QED
  BY <1>1, <1>2, <1>3, <1>4, <1>5, InTimeKept

LEMMA DoneInTime ==
    ASSUME Shape, NEW c \in Conns, InTime(c), NEW l \in Loops, FunctorsDone(l)
    PROVE  InTime(c)'
<1> USE DEF Shape
<1>1. /\ UNCHANGED <<nextConnId_, ioLoop, channel, pending>>
      /\ batch' = [batch EXCEPT ![l] = <<>>] /\ next' = [next EXCEPT ![l] = 1]
      /\ pc' = [pc EXCEPT ![l] = "poll"] /\ pc[l] = "functors"
  BY DEF FunctorsDone, serverVars, connVars
<1>2. \A m \in Loops : /\ batch'[m] = IF m = l THEN <<>> ELSE batch[m]
                       /\ next'[m] = IF m = l THEN 1 ELSE next[m]
                       /\ pc[m] = "dispatch" => pc'[m] = "dispatch"
  BY <1>1 DEF TypeOK
<1>3. ~Awaits(<<>>, 1, c) /\ Ordered(<<>>, c)
  BY DEF Awaits, Ordered
<1>4. \A m \in Loops : Ordered(pending[m], c) /\ Ordered(batch[m], c)
  BY DEF InTime
<1>5. Created' = Created
  BY <1>1 DEF Created
<1> QED
  BY <1>1, <1>2, <1>3, <1>4, <1>5, InTimeKept

LEMMA PollInTime ==
    ASSUME Shape, NEW c \in Conns, InTime(c), NEW l \in Loops, Poll(l)
    PROVE  InTime(c)'
<1>1. UNCHANGED <<nextConnId_, ioLoop, channel, pending, batch, next>>
  BY DEF Poll, serverVars, connVars
<1>2. \A m \in Loops : pc[m] = "dispatch" => pc'[m] = "dispatch"
  BY DEF Poll, Shape, TypeOK
<1> QED
  BY <1>1, <1>2, InTimeStill

\* Once established, the connection may be shut down.
LEMMA EstablishedInTime ==
    ASSUME Shape, Lives, NEW c \in Conns, InTime(c), NEW l \in Loops,
           NEW d \in Conns, NEW keep \in BOOLEAN, RunEstablished(l, d, keep)
    PROVE  InTime(c)'
<1> USE DEF Shape
<1>1. /\ RunFunctor(l, "connectEstablished", d)
      /\ UNCHANGED <<nextConnId_, ioLoop, pending, batch, pc>>
      /\ channel' = [channel EXCEPT ![d] = "added"]
  BY DEF RunEstablished, connectEstablished, serverVars
<1>2. CASE d /= c
  <2>1. channel'[c] = channel[c]
    BY <1>1, <1>2 DEF TypeOK
  <2> QED
    BY <1>1, <2>1, InTimeTake
<1>3. CASE d = c
  <2>1. channel'[c] = "added" /\ Created' = Created
    BY <1>1, <1>3 DEF TypeOK, Created
  <2>2. \A m \in Loops : Awaits(batch[m], next'[m], c) => Awaits(batch[m], next[m], c)
    BY <1>1, TakeAwaits
  <2> QED
    BY <1>1, <2>1, <2>2, InTimeRule DEF InTime
<1> QED
  BY <1>2, <1>3

\* When connectDestroyed is called, no shutdownInLoop is left: none stands
\* behind it, and none can be pending, since the loop that handled the close
\* has taken its pending functors since.
LEMMA DestroyedInTime ==
    ASSUME Shape, Lives, NEW c \in Conns, InTime(c), NEW l \in Loops,
           NEW d \in Conns, connectDestroyed(l, d)
    PROVE  InTime(c)'
<1> USE DEF Shape
<1>1. /\ RunFunctor(l, "connectDestroyed", d)
      /\ UNCHANGED <<nextConnId_, ioLoop, pending, batch, pc>>
      /\ channel' = [channel EXCEPT ![d] = "removed"]
  BY DEF connectDestroyed, serverVars
<1>2. CASE d /= c
  <2>1. channel'[c] = channel[c]
    BY <1>1, <1>2 DEF TypeOK
  <2> QED
    BY <1>1, <2>1, InTimeTake
<1>3. CASE d = c
  <2>1. /\ channel[c] = "disabled" /\ l = ioLoop[c]
        /\ batch[l][next[l]] = Functor("connectDestroyed", c)
        /\ pc[l] = "functors" /\ next[l] <= Len(batch[l])
    BY <1>1, <1>3, RunsItsPhase DEF Ops, Leaving, RunFunctor
  <2>2. next[l] \in Nat /\ next[l] >= 1 /\ batch[l] \in Seq(Functors)
    BY DEF TypeOK, BatchIsForFunctors
  <2>3. /\ next'[l] = next[l] + 1
        /\ \A m \in Loops : Awaits(batch[m], next'[m], c)
                                => Awaits(batch[m], next[m], c)
    BY <1>1, TakeAwaits
  <2>4. \A m \in Loops : ~Awaits(pending[m], 1, c)
    BY <2>1 DEF InTime
  <2>5. ~Awaits(batch[l], next[l] + 1, c)
    <3>1. Ordered(batch[l], c)
      BY DEF InTime
    <3>2. ASSUME NEW i \in 1 .. Len(batch[l]), i >= next[l] + 1
          PROVE  batch[l][i] /= Functor("shutdownInLoop", c)
      <4>1. next[l] \in 1 .. Len(batch[l]) /\ next[l] < i
        BY <2>1, <2>2, <3>2
      <4> QED
        BY <2>1, <3>1, <4>1 DEF Ordered
    <3> QED
      BY <3>2 DEF Awaits
  <2>6. \A m \in Loops : ~Awaits(batch[m], next'[m], c)
    BY <2>1, <2>3, <2>5 DEF InTime
  <2>7. \A m \in Loops : Ordered(pending[m], c) /\ Ordered(batch[m], c)
    BY DEF InTime
  <2> QED
    BY <1>1, <2>4, <2>6, <2>7, InTimeRule
<1> QED
  BY <1>2, <1>3

\* The iteration that handles the close takes what is pending afterwards.
LEMMA CloseInTime ==
    ASSUME Shape, NEW c \in Conns, InTime(c), NEW d \in Conns, NEW event,
           HandleClose(d, event)
    PROVE  InTime(c)'
<1> USE DEF Shape
<1> DEFINE f == Functor("removeConnectionInLoop", d)
<1>1. /\ HandlesEvent(ioLoop[d], d) /\ queueInLoop(Base, f)
      /\ UNCHANGED <<nextConnId_, ioLoop, batch, next, pc>>
      /\ channel' = [channel EXCEPT ![d] = "disabled"]
  BY DEF HandleClose, serverVars
<1>2. f \in Functors /\ f /= Functor("shutdownInLoop", c)
  BY FunctorType DEF Ops, Functor
<1>3. Created' = Created
  BY <1>1 DEF Created
<1> HIDE DEF f
<1>4. CASE d /= c
  <2>1. channel'[c] = channel[c]
    BY <1>1, <1>4 DEF TypeOK
  <2> QED
    BY <1>1, <1>2, <1>3, <2>1, InTimeQueue, BaseIsLoop
<1>5. CASE d = c
  <2>1. channel'[c] = "disabled" /\ pc[ioLoop[c]] = "dispatch"
    BY <1>1, <1>5 DEF TypeOK, HandlesEvent
  <2>2. \A m \in Loops : /\ Awaits(pending'[m], 1, c) => Awaits(pending[m], 1, c)
                         /\ Ordered(pending'[m], c) /\ Ordered(batch[m], c)
    BY <1>1, <1>2, QueueAwaits, BaseIsLoop
  <2>3. \A m \in Loops : Awaits(pending[m], 1, c) \/ Awaits(batch[m], next[m], c)
                             => m = ioLoop[c] /\ c \in Created
    BY DEF InTime
  <2> QED
    BY <1>1, <1>3, <2>1, <2>2, <2>3, InTimeRule
<1> QED
  BY <1>4, <1>5

LEMMA RemoveInTime ==
    ASSUME Shape, NEW c \in Conns, InTime(c), NEW d \in Conns,
           removeConnectionInLoop(d)
    PROVE  InTime(c)'
<1> USE DEF Shape
<1> DEFINE f == Functor("connectDestroyed", d)
<1>1. /\ RunFunctor(Base, "removeConnectionInLoop", d)
      /\ queueInLoop(ioLoop[d], f)
      /\ UNCHANGED <<nextConnId_, ioLoop, channel, batch, pc>>
  BY DEF removeConnectionInLoop, connVars
<1>2. f \in Functors /\ f /= Functor("shutdownInLoop", c) /\ ioLoop[d] \in Loops
  BY FunctorType DEF Ops, Functor, TypeOK
<1> HIDE DEF f
<1>3. \A m \in Loops : /\ Awaits(pending'[m], 1, c) => Awaits(pending[m], 1, c)
                       /\ Ordered(pending'[m], c) /\ Ordered(batch[m], c)
  BY <1>1, <1>2, QueueAwaits
<1>4. \A m \in Loops : Awaits(batch[m], next'[m], c) => Awaits(batch[m], next[m], c)
  BY <1>1, TakeAwaits, BaseIsLoop
<1>5. Created' = Created
  BY <1>1 DEF Created
<1> QED
  BY <1>1, <1>3, <1>4, <1>5, InTimeKept

LEMMA NewConnectionInTime ==
    ASSUME Shape, NEW c \in Conns, InTime(c), loops_ /= <<>>,
           NEW result, NEW keep, newConnection(result, keep)
    PROVE  InTime(c)'
<1> USE DEF Shape
<1> DEFINE f == Functor("connectEstablished", nextConnId_)
<1>1. /\ nextConnId_ \in Conns /\ nextConnId_ \in Nat /\ nextConnId_' = nextConnId_ + 1
  BY BoundsAssumption DEF newConnection, TypeOK, Conns
<1>2. /\ queueInLoop(NextLoop, f) /\ NextLoop \in Loops
      /\ ioLoop' = [ioLoop EXCEPT ![nextConnId_] = NextLoop]
      /\ UNCHANGED <<channel, batch, next, pc>>
  BY NextLoopType DEF newConnection
<1>3. f \in Functors /\ f /= Functor("shutdownInLoop", c)
  BY <1>1, FunctorType DEF Ops, Functor
<1>4. Created \subseteq Created' /\ nextConnId_ \notin Created
  BY <1>1 DEF Created
<1>5. c \in Created => ioLoop'[c] = ioLoop[c]
  BY <1>1, <1>2, <1>4 DEF TypeOK
<1> HIDE DEF f
<1> QED
  BY <1>2, <1>3, <1>4, <1>5, InTimeQueue

\* shutdown() queues shutdownInLoop while the connection is open.
LEMMA ShutdownInTime ==
    ASSUME Shape, Lives, NEW c \in Conns, InTime(c), NEW d \in Conns,
           shutdownQueue(d), ~late'
    PROVE  InTime(c)'
<1> USE DEF Shape
<1> DEFINE f == Functor("shutdownInLoop", d)
<1>1. /\ queueInLoop(ioLoop[d], f) /\ ioLoop[d] \in Loops
      /\ UNCHANGED <<nextConnId_, ioLoop, channel, batch, next, pc>>
  BY DEF shutdownQueue, serverVars, connVars, TypeOK
<1>2. f \in Functors /\ channel[d] = "added"
  BY ShutdownType DEF shutdownQueue
<1>3. Created' = Created
  BY <1>1 DEF Created
<1>4. CASE d /= c
  <2>1. f /= Functor("shutdownInLoop", c)
    BY <1>4 DEF Functor
  <2> HIDE DEF f
  <2> QED
    BY <1>1, <1>2, <1>3, <2>1, InTimeQueue
<1>5. CASE d = c
  <2>1. c \in Created /\ Open(c)
    BY <1>2, <1>5 DEF Lives, Unborn, Phase, Fresh, Closing, Leaving, Gone
  <2>2. NoneOf(pending[ioLoop[c]], 1, c)
    BY <1>1, <1>5, <2>1 DEF Open, Idle, NoFunctor
  <2>3. /\ pending \in [Loops -> Seq(Functors)]
        /\ pending' = [pending EXCEPT ![ioLoop[c]] = Append(@, f)]
    BY <1>1, <1>5 DEF queueInLoop, TypeOK
  <2>4. Ordered(Append(pending[ioLoop[c]], f), c)
    BY <1>1, <1>5, <2>2, <2>3, PushShutdown
  <2> HIDE DEF f
  <2>5. \A m \in Loops : pending'[m] = IF m = ioLoop[c] THEN Append(pending[m], f)
                                                         ELSE pending[m]
    BY <1>1, <1>5, <2>3
  <2>6. \A m \in Loops : /\ Ordered(pending[m], c) /\ Ordered(batch[m], c)
                         /\ Awaits(pending[m], 1, c) \/ Awaits(batch[m], next[m], c)
                               => m = ioLoop[c]
    BY DEF InTime
  <2>7. \A m \in Loops : Ordered(pending'[m], c)
                         /\ (Awaits(pending'[m], 1, c) => m = ioLoop[c])
    BY <2>4, <2>5, <2>6
  <2> QED
    BY <1>1, <1>2, <1>3, <1>5, <2>1, <2>6, <2>7, InTimeRule
<1> QED
  BY <1>4, <1>5

LEMMA NextShutdowns ==
    ASSUME Shape, Lives, Shutdowns, Next, server'
    PROVE  Shutdowns'
<1> USE DEF serverVars, connVars, loopVars, userVars
<1>1. loops_' = loops_ /\ (~late' => ~late)
  <2>1. ASSUME NEW c \in Conns, shutdownQueue(c)
        PROVE  loops_' = loops_ /\ (~late' => ~late)
    <3>1. late' = (late \/ channel[c] /= "added")
      BY <2>1 DEF shutdownQueue
    <3>2. ~late' => ~late
      BY <3>1, Zenon
    <3> QED
      BY <2>1, <3>2 DEF shutdownQueue, poolVars
  <2>2. ASSUME NEW c \in Conns, UserStep(c), ~shutdownQueue(c)
        PROVE  loops_' = loops_ /\ late' = late
    BY <2>2 DEF UserStep, shutdown, shutdownSetState, LoopShutdown, Release,
                poolVars
  <2>3. ASSUME NEW c \in Conns, EventStep(c) PROVE loops_' = loops_ /\ late' = late
    BY <2>3 DEF EventStep, HandleClose, HandleCloseInBase, HandleRead,
                HandleOther, poolVars
  <2>4. ASSUME NEW l \in Loops, LoopStep(l) PROVE loops_' = loops_ /\ late' = late
    BY <2>4 DEF LoopStep, Poll, Swap, FunctorsDone, RunEstablished,
                connectDestroyed, RunShutdown, poolVars
  <2>5. ASSUME BaseStep \/ Owner PROVE loops_' = loops_ /\ late' = late
    BY <2>5 DEF BaseStep, Owner, listen, HandleReadNothing, newConnection,
                removeConnectionInLoop, startInLoop, start, Destroyed, poolVars
  <2>6. ASSUME NEW c \in Conns, UserStep(c)
        PROVE  loops_' = loops_ /\ (~late' => ~late)
    BY <2>1, <2>2, <2>6, Zenon
  <2> QED
    BY <2>3, <2>4, <2>5, <2>6 DEF Next
<1> SUFFICES ASSUME ~late', loops_ /= <<>>, NEW c \in Conns PROVE InTime(c)'
  BY <1>1 DEF Shutdowns
<1>2. InTime(c)
  BY <1>1 DEF Shutdowns
<1>3. ASSUME NEW l \in Loops, LoopStep(l) PROVE InTime(c)'
  <2>1. CASE Poll(l)
    BY <1>2, <2>1, PollInTime
  <2>2. CASE Swap(l)
    BY <1>2, <2>2, SwapInTime
  <2>3. CASE FunctorsDone(l)
    BY <1>2, <2>3, DoneInTime
  <2>4. ASSUME NEW d \in Conns, NEW keep \in BOOLEAN, RunEstablished(l, d, keep)
        PROVE  InTime(c)'
    BY <1>2, <2>4, EstablishedInTime
  <2>5. ASSUME NEW d \in Conns, connectDestroyed(l, d) PROVE InTime(c)'
    BY <1>2, <2>5, DestroyedInTime
  <2>6. ASSUME NEW d \in Conns, RunShutdown(l, d) PROVE InTime(c)'
    BY <1>2, <2>6, InTimeTake DEF RunShutdown, Shape
  <2> QED
    BY <1>3, <2>1, <2>2, <2>3, <2>4, <2>5, <2>6 DEF LoopStep
<1>4. CASE listen
  BY <1>2, <1>4, InTimeTake, BaseIsLoop DEF listen, Shape
<1>5. ASSUME NEW result, HandleReadNothing(result) PROVE InTime(c)'
  BY <1>2, <1>5, InTimeStill DEF HandleReadNothing
<1>6. ASSUME NEW result, NEW keep, newConnection(result, keep) PROVE InTime(c)'
  BY <1>2, <1>6, NewConnectionInTime
<1>7. ASSUME NEW d \in Conns, removeConnectionInLoop(d) PROVE InTime(c)'
  BY <1>2, <1>7, RemoveInTime
<1>8. ASSUME NEW d \in Conns, EventStep(d) PROVE InTime(c)'
  <2>1. ASSUME NEW event, HandleClose(d, event) PROVE InTime(c)'
    BY <1>2, <2>1, CloseInTime
  <2>2. ASSUME NEW event, HandleCloseInBase(d, event) PROVE FALSE
    <3>1. ioLoop[d] = Base /\ d \in Created
      BY <2>2, EventIsOpen, BaseIsLoop DEF HandleCloseInBase, Shape
    <3> QED
      BY <3>1 DEF Shape, Placed
  <2>3. ASSUME NEW keep, HandleRead(d, keep) \/ HandleOther(d) PROVE InTime(c)'
    BY <1>2, <2>3, InTimeStill DEF HandleRead, HandleOther
  <2> QED
    BY <1>8, <2>1, <2>2, <2>3 DEF EventStep
<1>9. ASSUME NEW d \in Conns, UserStep(d) PROVE InTime(c)'
  <2>1. CASE shutdownQueue(d)
    BY <1>2, <2>1, ShutdownInTime
  <2>2. CASE shutdown(d) \/ shutdownSetState(d) \/ LoopShutdown(d) \/ Release(d)
    BY <1>2, <2>2, InTimeStill
    DEF shutdown, shutdownSetState, LoopShutdown, Release
  <2> QED
    BY <1>9, <2>1, <2>2 DEF UserStep
<1>10. CASE startInLoop
  BY <1>2, <1>10, InTimeStill DEF startInLoop
<1>11. CASE start
  <2>1. UNCHANGED <<nextConnId_, ioLoop, channel, batch, next, pc>>
    BY <1>11 DEF start
  <2>2. CASE UNCHANGED pending
    BY <1>2, <2>1, <2>2, InTimeStill
  <2>3. CASE queueInLoop(Base, Functor("listen", 0))
    <3>1. /\ Functor("listen", 0) \in Functors
          /\ Functor("listen", 0) /= Functor("shutdownInLoop", c)
      BY FunctorType DEF Ops, Functor
    <3>2. Created' = Created
      BY <2>1 DEF Created
    <3> QED
      BY <1>2, <2>1, <2>3, <3>1, <3>2, InTimeQueue, BaseIsLoop DEF Shape
  <2> QED
    BY <1>11, <2>2, <2>3 DEF start
<1>12. ~Destroyed
  BY DEF Destroyed
<1> QED
  BY <1>3, <1>4, <1>5, <1>6, <1>7, <1>8, <1>9, <1>10, <1>11, <1>12
  DEF Next, BaseStep, Owner

----------------------------------------------------------------------------
(* The steps that may drop the last pointer, and the one through a raw     *)
(* this.                                                                   *)

LEMMA DueIsHeld ==
    ASSUME TypeOK, NEW op \in Ops, NEW c \in Conns, NEW l \in Loops,
           Due(op, c, l)
    PROVE  HoldsReference(pending[l], c) \/ HoldsReference(batch[l], c)
<1>1. Functor(op, c).conn = c /\ Functor(op, c).op /= "shutdownInLoop"
  BY FunctorType DEF Ops
<1>2. /\ DOMAIN pending[l] = 1 .. Len(pending[l])
      /\ DOMAIN batch[l] = 1 .. Len(batch[l])
  BY DEF TypeOK
<1> QED
  BY <1>1, <1>2 DEF Due, OnlyFunctor, OneOf, HoldsReference

\* Until its channel is removed, the server's map or the functor of the next
\* step holds the connection.
LEMMA DeadIsRemoved ==
    TypeOK /\ Lives => \A c \in Created : ~Alive(c) => channel[c] = "removed"
<1> SUFFICES ASSUME TypeOK, Lives, NEW c \in Created, ~Alive(c)
             PROVE  channel[c] = "removed"
  OBVIOUS
<1>1. Phase(c) /\ c \in Conns
  BY CreatedInConns DEF Lives
<1>2. ioLoop[c] \in Loops
  BY <1>1 DEF TypeOK
<1>3. ~Fresh(c) /\ ~Open(c) /\ ~Closing(c)
  BY DEF Alive, Fresh, Open, Closing
<1>4. ~Leaving(c)
  BY <1>1, <1>2, DueIsHeld DEF Alive, Leaving, Ops
<1> QED
  BY <1>1, <1>3, <1>4 DEF Phase, Gone

LEMMA DropIsSafe ==
    ASSUME TypeOK', Lives', Used, fault = "none", ChannelsDestroyed,
           UNCHANGED <<handling, nextConnId_>>
    PROVE  ServerIsSafe'
<1>1. (\A c \in Created : ~Alive(c) => channel[c] = "removed")'
  <2>1. (TypeOK /\ Lives => \A c \in Created : ~Alive(c) => channel[c] = "removed")'
    BY DeadIsRemoved, PTL
  <2> QED
    BY <2>1
<1>2. CASE fault' = fault
  BY <1>2 DEF ServerIsSafe
<1>3. CASE fault' /= fault
  <2>1. fault' = "handling" /\ \E c \in handling : ~Alive(c)'
    BY <1>3 DEF ChannelsDestroyed
  <2>2. PICK c \in handling : ~Alive(c)'
    BY <2>1
  <2>3. c \in handling' /\ c \in Created'
    BY DEF Used, Created
  <2>4. channel'[c] = "removed"
    BY <1>1, <2>2, <2>3
  <2>5. (\E d \in handling : channel[d] = "removed" /\ ~Alive(d))'
    BY <2>2, <2>3, <2>4
  <2> QED
    BY <2>1, <2>5 DEF ServerIsSafe
<1> QED
  BY <1>2, <1>3

LEMMA RunShutdownIsSafe ==
    ASSUME Shape, Lives, Shutdowns, fault = "none",
           NEW l \in Loops, NEW c \in Conns, RunShutdown(l, c)
    PROVE  ServerIsSafe'
<1>1. UNCHANGED <<late, loops_>>
  BY DEF RunShutdown, userVars, poolVars
<1>2. ASSUME ~late, loops_ /= <<>> PROVE Alive(c)
  <2>1. Awaits(batch[l], next[l], c)
    <3>1. next[l] \in Nat /\ next[l] >= 1 /\ next[l] <= Len(batch[l])
          /\ batch[l][next[l]] = Functor("shutdownInLoop", c)
          /\ batch[l] \in Seq(Functors)
      BY DEF RunShutdown, RunFunctor, Shape, TypeOK, BatchIsForFunctors
    <3> QED
      BY <3>1 DEF Awaits
  <2>2. c \in Created /\ channel[c] /= "removed"
    BY <1>2, <2>1 DEF Shutdowns, InTime
  <2> QED
    BY <2>2, DeadIsRemoved DEF Shape
<1>3. fault' = "none" \/ (fault' = "dangling" /\ (late' \/ loops_' = <<>>))
  BY <1>1, <1>2 DEF RunShutdown
<1> QED
  BY <1>3 DEF ServerIsSafe

----------------------------------------------------------------------------
(* The invariant is inductive.                                             *)

LEMMA InitIInv == Init => IInv
<1> SUFFICES ASSUME Init PROVE IInv
  OBVIOUS
<1>1. TypeOK
  <2>1. server \in BOOLEAN /\ listening_ \in BOOLEAN /\ late \in BOOLEAN
    BY Zenon DEF Init, AcceptorCreated
  <2>2. /\ connections_ \subseteq Conns /\ nextConnId_ \in 1 .. MaxConns + 1
        /\ newConnectionCallback_ \in {"empty", "newConnection"}
        /\ loops_ \in Pools /\ next_ \in Nat /\ held \subseteq Conns
        /\ handling \subseteq Conns
        /\ starts \in 0 .. MaxStarts
        /\ fault \in {"none", "assert", "handling", "channel", "dangling"}
    BY BoundsAssumption DEF Init, AcceptorCreated, PoolStarted
  <2>3. /\ state_ \in [Conns -> {"none", "kConnecting", "kConnected",
                                 "kDisconnecting", "kDisconnected"}]
        /\ channel \in [Conns -> {"new", "added", "disabled", "removed"}]
        /\ ioLoop \in [Conns -> Loops]
    BY BaseIsLoop DEF Init
  <2>4. /\ pending \in [Loops -> Seq(Functors)]
        /\ batch \in [Loops -> Seq(Functors)] /\ next \in [Loops -> Nat]
        /\ upc \in [Conns -> {"idle", "setState", "runInLoop"}]
        /\ pc \in [Loops -> {"poll", "dispatch", "functors"}]
        /\ active \in [Loops -> SUBSET (Conns \cup {0})]
    BY DEF Init
  <2> QED
    BY <2>1, <2>2, <2>3, <2>4 DEF TypeOK
<1>2. BatchIsForFunctors
  BY DEF Init, BatchIsForFunctors
<1>3. NextInRange
  <2>1. loops_ \in Seq(PoolLoops) /\ next_ = 0
    BY PoolsAssumption DEF Init, PoolStarted
  <2>2. loops_ /= <<>> => 1 \in DOMAIN loops_
    BY <2>1
  <2> QED
    BY <2>1, <2>2 DEF NextInRange
<1>4. Created = {}
  BY DEF Init, Created
<1>5. \A c \in Conns : Idle(c)
  BY DEF Init, Idle, NoFunctor, NoneOf
<1>6. Lives
  BY <1>4, <1>5 DEF Init, Lives, Unborn, ActiveIsOpen
<1>7. Placed
  BY <1>4 DEF Placed
<1>8. ServerIsSafe
  BY DEF Init, ServerIsSafe
<1>9. Used
  BY <1>4 DEF Init, Used
<1>10. Shutdowns
  BY DEF Init, Shutdowns, InTime, Awaits, Ordered
<1> QED
  BY <1>1, <1>2, <1>3, <1>6, <1>7, <1>8, <1>9, <1>10 DEF IInv

\* A step that is no close in the base loop, drops no pointer and uses no raw
\* this finds nothing wrong.
LEMMA NextLives ==
    ASSUME Shape, Shape', Lives, Used, Shutdowns, server, server',
           fault = "none", Next
    PROVE  Lives' /\ ServerIsSafe'
<1>1. loops_' = loops_
  <2>1. ASSUME NEW c \in Conns, EventStep(c) \/ UserStep(c) PROVE loops_' = loops_
    BY <2>1
    DEF EventStep, HandleClose, HandleCloseInBase, HandleRead, HandleOther,
        UserStep, shutdown, shutdownSetState, shutdownQueue, LoopShutdown,
        Release, poolVars
  <2>2. ASSUME NEW l \in Loops, LoopStep(l) PROVE loops_' = loops_
    BY <2>2 DEF LoopStep, Poll, Swap, FunctorsDone, RunEstablished,
                connectDestroyed, RunShutdown, poolVars
  <2>3. CASE BaseStep \/ Owner
    BY <2>3 DEF BaseStep, Owner, listen, HandleReadNothing, newConnection,
                removeConnectionInLoop, startInLoop, start, Destroyed, poolVars
  <2> QED
    BY <2>1, <2>2, <2>3 DEF Next
<1>2. fault' = fault \/ (fault' = "handling" /\ loops_ = <<>>) => ServerIsSafe'
  BY <1>1 DEF ServerIsSafe
<1>3. CASE startInLoop \/ start
  <2>1. Lives' /\ fault' = fault
    BY <1>3, OwnerLives DEF startInLoop, start
  <2> QED
    BY <1>2, <2>1
<1>4. ASSUME NEW l \in Loops, LoopStep(l) PROVE Lives' /\ ServerIsSafe'
  <2>1. CASE Poll(l)
    BY <1>2, <2>1, PollLives DEF Poll
  <2>2. CASE Swap(l)
    BY <1>2, <2>2, SwapLives DEF Swap
  <2>3. CASE FunctorsDone(l)
    <3>1. Lives'
      BY <2>3, SwapLives
    <3>2. ChannelsDestroyed /\ UNCHANGED <<handling, nextConnId_>>
      BY <2>3 DEF FunctorsDone, connVars, serverVars
    <3> QED
      BY <3>1, <3>2, DropIsSafe DEF Shape
  <2>4. ASSUME NEW c \in Conns, NEW keep \in BOOLEAN, RunEstablished(l, c, keep)
        PROVE  Lives' /\ ServerIsSafe'
    BY <1>2, <2>4, EstablishedLives
  <2>5. ASSUME NEW c \in Conns, connectDestroyed(l, c)
        PROVE  Lives' /\ ServerIsSafe'
    BY <1>2, <2>5, DestroyedLives
  <2>6. ASSUME NEW c \in Conns, RunShutdown(l, c) PROVE Lives' /\ ServerIsSafe'
    BY <2>6, RunShutdownLives, RunShutdownIsSafe
  <2> QED
    BY <1>4, <2>1, <2>2, <2>3, <2>4, <2>5, <2>6 DEF LoopStep
<1>5. CASE listen
  <2>1. Lives' /\ fault' = fault
    BY <1>5, ListenLives DEF listen
  <2> QED
    BY <1>2, <2>1
<1>6. ASSUME NEW result, HandleReadNothing(result) PROVE Lives' /\ ServerIsSafe'
  BY <1>2, <1>6, HandleReadLives DEF HandleReadNothing
<1>7. ASSUME NEW result, NEW keep \in BOOLEAN, newConnection(result, keep)
      PROVE  Lives' /\ ServerIsSafe'
  BY <1>2, <1>7, NewConnectionLives
<1>8. ASSUME NEW c \in Conns, removeConnectionInLoop(c) PROVE Lives' /\ ServerIsSafe'
  BY <1>2, <1>8, RemoveLives
<1>9. ASSUME NEW c \in Conns, EventStep(c) PROVE Lives' /\ ServerIsSafe'
  <2>1. ASSUME NEW event, HandleCloseInBase(c, event) PROVE Lives' /\ ServerIsSafe'
    BY <1>2, <2>1, HandleCloseInBaseLives
  <2>2. ASSUME NEW event, HandleClose(c, event) PROVE Lives' /\ ServerIsSafe'
    BY <1>2, <2>2, HandleCloseLives
  <2>3. ASSUME NEW keep, HandleRead(c, keep) \/ HandleOther(c)
        PROVE  Lives' /\ ServerIsSafe'
    BY <1>2, <2>3, EventLives DEF HandleRead, HandleOther
  <2> QED
    BY <1>9, <2>1, <2>2, <2>3 DEF EventStep
<1>10. ASSUME NEW c \in Conns, UserStep(c) PROVE Lives' /\ ServerIsSafe'
  <2>1. CASE shutdown(c) \/ shutdownQueue(c)
    BY <1>2, <2>1, UserLives DEF shutdown, shutdownQueue
  <2>2. CASE shutdownSetState(c) \/ LoopShutdown(c)
    <3>1. channel[c] /= "new"
      BY <2>2, ConnectedIsOld DEF shutdownSetState, LoopShutdown, Used
    <3> QED
      BY <1>2, <2>2, <3>1, DisconnectingLives DEF shutdownSetState, LoopShutdown
  <2>3. CASE Release(c)
    <3>1. Lives'
      BY <2>3, UserLives
    <3>2. ChannelsDestroyed /\ UNCHANGED <<handling, nextConnId_>>
      BY <2>3 DEF Release, connVars, serverVars
    <3> QED
      BY <3>1, <3>2, DropIsSafe DEF Shape
  <2> QED
    BY <1>10, <2>1, <2>2, <2>3 DEF UserStep
<1>11. ~Destroyed
  BY DEF Destroyed
<1> QED
  BY <1>3, <1>4, <1>5, <1>6, <1>7, <1>8, <1>9, <1>10, <1>11
  DEF Next, BaseStep, Owner

LEMMA NextUsed ==
    ASSUME Shape, Lives, Used, server', Next
    PROVE  Used'
<1>1. CASE startInLoop \/ start
  BY <1>1, UsedStill DEF startInLoop, start, serverVars, connVars, userVars
<1>2. ~Destroyed
  BY DEF Destroyed
<1> QED
  BY <1>1, <1>2, LoopUsed, BaseUsed, EventUsed, UserUsed DEF Next, Owner

LEMMA NextIInv == IInv /\ [Next]_vars => IInv'
<1> SUFFICES ASSUME IInv, [Next]_vars PROVE IInv'
  OBVIOUS
<1>1. Shape /\ Shape'
  BY NextShape DEF IInv, Shape
<1>2. ASSUME server' PROVE Lives' /\ Used' /\ Shutdowns' /\ ServerIsSafe'
  <2>1. CASE UNCHANGED vars
    <3>1. /\ server' = server /\ loops_' = loops_ /\ fault' = fault /\ late' = late
          /\ UNCHANGED <<serverVars, state_, channel, ioLoop, handling, upc, held>>
          /\ UNCHANGED <<active, pending, batch, next, pc>>
      BY <2>1 DEF vars, serverVars, poolVars, connVars, userVars, loopVars
    <3>2. server /\ Lives /\ Used /\ Shutdowns
      BY <1>2, <3>1 DEF IInv
    <3>3. Lives'
      BY <1>1, <3>1, <3>2, ActiveStill, StillFrame, QuietLives DEF Shape, Lives
    <3>4. Used'
      BY <3>1, <3>2, UsedStill DEF serverVars
    <3>5. Shutdowns'
      <4> SUFFICES ASSUME ~late', loops_' /= <<>>, NEW c \in Conns PROVE InTime(c)'
        BY DEF Shutdowns
      <4>1. InTime(c)
        BY <3>1, <3>2 DEF Shutdowns
      <4> QED
        BY <3>1, <4>1, InTimeStill DEF serverVars
    <3>6. ServerIsSafe'
      BY <3>1 DEF IInv, ServerIsSafe, Alive, HoldsReference, serverVars
    <3> QED
      BY <3>3, <3>4, <3>5, <3>6
  <2>2. CASE Next
    <3>1. fault = "none"
      BY <2>2 DEF Next
    <3>2. server
      <4>1. ASSUME NEW c \in Conns, EventStep(c) \/ UserStep(c)
            PROVE  server' = server
        BY <4>1
        DEF EventStep, HandleClose, HandleCloseInBase, HandleRead, HandleOther,
            UserStep, shutdown, shutdownSetState, shutdownQueue, LoopShutdown,
            Release, serverVars
      <4>2. ASSUME NEW l \in Loops, LoopStep(l) PROVE server' = server
        BY <4>2 DEF LoopStep, Poll, Swap, FunctorsDone, RunEstablished,
                    connectDestroyed, RunShutdown, serverVars
      <4>3. CASE BaseStep \/ Owner
        BY <1>2, <4>3
        DEF BaseStep, Owner, listen, HandleReadNothing, newConnection,
            removeConnectionInLoop, startInLoop, start, Destroyed, serverVars
      <4> QED
        BY <1>2, <2>2, <4>1, <4>2, <4>3 DEF Next
    <3>3. Lives /\ Used /\ Shutdowns
      BY <3>2 DEF IInv
    <3> QED
      BY <1>1, <1>2, <2>2, <3>1, <3>2, <3>3, NextLives, NextUsed, NextShutdowns
  <2> QED
    BY <2>1, <2>2
<1>3. ServerIsSafe'
  BY <1>2 DEF ServerIsSafe
<1> QED
  BY <1>1, <1>2, <1>3 DEF IInv, Shape

LEMMA Invariance == Spec => []IInv
BY InitIInv, NextIInv, PTL DEF Spec

----------------------------------------------------------------------------
(* The theorems.                                                           *)

\* Every variable keeps its type: in particular getNextLoop only ever returns
\* a loop, so that no connection is given to a loop that does not exist.
THEOREM TypeCorrect == Spec => []TypeOK
<1>1. IInv => TypeOK
  BY DEF IInv
<1> QED
  BY <1>1, Invariance, PTL

\* For every pool, every number of connections and every interleaving of the
\* loops' threads and of the users: while the server lives, no assertion of
\* newConnection, connectEstablished, handleClose, removeConnectionInLoop or
\* connectDestroyed fails; with a pool, a shutdownInLoop queued before the
\* loop handled the peer's close finds its connection alive, and ~Channel
\* fails its assertion only for a channel its loop has removed.
THEOREM ServerNeverFails == Spec => []ServerIsSafe
<1>1. IInv => ServerIsSafe
  BY DEF IInv
<1> QED
  BY <1>1, Invariance, PTL

\* Whichever thread drops the last pointer to a connection, the connection's
\* loop has removed the channel before: until then the server's map or the
\* queued functor of the next step holds the connection.
THEOREM ChannelRemovedFirst == Spec => []RemovedBeforeDestroyed
<1>1. IInv => RemovedBeforeDestroyed
  BY DeadIsRemoved DEF IInv, RemovedBeforeDestroyed
<1> QED
  BY <1>1, Invariance, PTL

----------------------------------------------------------------------------
(* The connections are dealt out evenly.                                   *)

LEMMA GivenType ==
    ASSUME TypeOK, NEW l
    PROVE  Given(l) \in Nat /\ IsFiniteSet({c \in Created : ioLoop[c] = l})
<1> DEFINE S == {c \in Created : ioLoop[c] = l}
<1>1. nextConnId_ - 1 \in Int
  BY BoundsAssumption DEF TypeOK
<1>2. IsFiniteSet(Created)
  BY <1>1, FS_Interval DEF Created
<1>3. S \in SUBSET Created
  OBVIOUS
<1>4. IsFiniteSet(S)
  BY <1>2, <1>3, FS_Subset
<1> HIDE DEF S
<1>5. Cardinality(S) \in Nat
  BY <1>4, FS_CardinalityType
<1> QED
  BY <1>4, <1>5 DEF S, Given

\* The new connection counts for the loop that getNextLoop chose.
LEMMA GivenStep ==
    ASSUME TypeOK, NextInRange, NEW result, NEW keep,
           newConnection(result, keep), NEW l \in Loops
    PROVE  Given(l)' = IF l = NextLoop THEN Given(l) + 1 ELSE Given(l)
<1> DEFINE S == {c \in Created : ioLoop[c] = l}
<1>1. /\ nextConnId_ \in Nat /\ nextConnId_ >= 1 /\ nextConnId_ \in Conns
      /\ nextConnId_' = nextConnId_ + 1
  BY BoundsAssumption DEF newConnection, TypeOK, Conns
<1>2. Created' = Created \cup {nextConnId_} /\ nextConnId_ \notin Created
  BY <1>1 DEF Created
<1>3. /\ ioLoop'[nextConnId_] = NextLoop
      /\ \A c \in Created : ioLoop'[c] = ioLoop[c]
  BY <1>1, <1>2, CreatedInConns DEF newConnection, TypeOK
<1>4. {c \in Created' : ioLoop'[c] = l}
        = IF l = NextLoop THEN S \cup {nextConnId_} ELSE S
  BY <1>2, <1>3
<1>5. IsFiniteSet(S) /\ nextConnId_ \notin S
  BY <1>2, GivenType
<1> HIDE DEF S
<1>6. Cardinality(S \cup {nextConnId_}) = Cardinality(S) + 1
  BY <1>5, FS_AddElement
<1>7. Given(l)' = Cardinality({c \in Created' : ioLoop'[c] = l})
  BY DEF Given
<1>8. Given(l) = Cardinality(S)
  BY DEF Given, S
<1> QED
  BY <1>4, <1>6, <1>7, <1>8

LEMMA DealtStill ==
    ASSUME Dealt, UNCHANGED <<poolVars, ioLoop, nextConnId_>>
    PROVE  Dealt'
BY DEF Dealt, Given, Created, poolVars

LEMMA NewConnectionDealt ==
    ASSUME Shape, Dealt, NEW result, NEW keep, newConnection(result, keep)
    PROVE  Dealt'
<1> USE DEF Shape
<1>1. loops_ \in Seq(PoolLoops) /\ loops_ \in Pools /\ loops_' = loops_
      /\ next_ \in Nat
  BY PoolsAssumption DEF TypeOK, newConnection
<1>2. CASE loops_ = <<>>
  BY <1>1, <1>2 DEF Dealt
<1>3. CASE loops_ /= <<>>
  <2>1. next_ + 1 \in 1 .. Len(loops_) /\ NextLoop = loops_[next_ + 1]
        /\ next_' = AfterNext(next_, Len(loops_))
    BY <1>1, <1>3 DEF NextInRange, NextLoop, newConnection
  <2>2. PICK q \in Nat : \A i \in 1 .. Len(loops_) :
            Given(loops_[i]) = IF i <= next_ THEN q + 1 ELSE q
    BY DEF Dealt
  <2>3. \A i \in 1 .. Len(loops_) : loops_[i] \in Loops
    BY <1>1 DEF Loops
  <2>4. \A i \in 1 .. Len(loops_) : loops_[i] = NextLoop => i = next_ + 1
    BY <1>1, <2>1, PoolsAssumption
  <2>5. ASSUME NEW i \in 1 .. Len(loops_)
        PROVE  Given(loops_[i])' = IF i <= next_ + 1 THEN q + 1 ELSE q
    <3>1. PICK l \in Loops : l = loops_[i]
      BY <2>3
    <3>2. Given(l)' = IF l = NextLoop THEN Given(l) + 1 ELSE Given(l)
      BY GivenStep
    <3>3. Given(loops_[i])' = Given(l)'
      BY <1>1, <3>1 DEF Given
    <3> QED
      BY <1>1, <2>1, <2>2, <2>4, <3>1, <3>2, <3>3
  <2>6. CASE next_ + 1 >= Len(loops_)
    <3>1. next_' = 0 /\ \A i \in 1 .. Len(loops_) : i <= next_ + 1
      BY <1>1, <2>1, <2>6 DEF AfterNext
    <3>2. \A i \in 1 .. Len(loops_) :
              Given(loops_[i])' = IF i <= next_' THEN (q + 1) + 1 ELSE q + 1
      BY <2>5, <3>1
    <3> QED
      BY <1>1, <3>2 DEF Dealt
  <2>7. CASE ~(next_ + 1 >= Len(loops_))
    <3>1. next_' = next_ + 1
      BY <2>1, <2>7 DEF AfterNext
    <3>2. \A i \in 1 .. Len(loops_) :
              Given(loops_[i])' = IF i <= next_' THEN q + 1 ELSE q
      BY <2>5, <3>1
    <3> QED
      BY <1>1, <3>2 DEF Dealt
  <2> QED
    BY <2>6, <2>7
<1> QED
  BY <1>2, <1>3

LEMMA InitDealt == Init => Dealt
<1> SUFFICES ASSUME Init PROVE Dealt
  OBVIOUS
<1>1. Created = {} /\ next_ = 0
  BY DEF Init, Created, PoolStarted
<1>2. ASSUME NEW l PROVE Given(l) = 0
  <2>1. {c \in Created : ioLoop[c] = l} = {}
    BY <1>1
  <2> QED
    BY <2>1, FS_EmptySet DEF Given
<1> QED
  BY <1>1, <1>2 DEF Dealt

LEMMA NextDealt == Shape /\ Dealt /\ [Next]_vars => Dealt'
<1> SUFFICES ASSUME Shape, Dealt, [Next]_vars PROVE Dealt'
  OBVIOUS
<1>1. ASSUME NEW result \in AcceptResults, NEW keep \in BOOLEAN,
             newConnection(result, keep)
      PROVE  Dealt'
  BY <1>1, NewConnectionDealt
<1>2. CASE UNCHANGED <<poolVars, ioLoop, nextConnId_>>
  BY <1>2, DealtStill
<1>3. \/ UNCHANGED <<poolVars, ioLoop, nextConnId_>>
      \/ \E result \in AcceptResults, keep \in BOOLEAN : newConnection(result, keep)
  <2> USE DEF serverVars, connVars
  <2>1. ASSUME NEW c \in Conns, EventStep(c) \/ UserStep(c)
        PROVE  UNCHANGED <<poolVars, ioLoop, nextConnId_>>
    BY <2>1
    DEF EventStep, HandleClose, HandleCloseInBase, HandleRead, HandleOther,
        UserStep, shutdown, shutdownSetState, shutdownQueue, LoopShutdown, Release
  <2>2. ASSUME NEW l \in Loops, LoopStep(l)
        PROVE  UNCHANGED <<poolVars, ioLoop, nextConnId_>>
    BY <2>2 DEF LoopStep, Poll, Swap, FunctorsDone, RunEstablished,
                connectDestroyed, RunShutdown
  <2>3. CASE BaseStep \/ Owner
    BY <2>3 DEF BaseStep, Owner, listen, HandleReadNothing,
                removeConnectionInLoop, startInLoop, start, Destroyed
  <2>4. CASE UNCHANGED vars
    BY <2>4 DEF vars
  <2> QED
    BY <2>1, <2>2, <2>3, <2>4 DEF Next
<1> QED
  BY <1>1, <1>2, <1>3

\* getNextLoop stays inside loops_, and at any time no loop of the pool has
\* been given more than one connection more than another, for every size of
\* the pool.
THEOREM DealtEvenly == Spec => []RoundRobin
<1>1. Shape /\ Dealt => RoundRobin
  <2> SUFFICES ASSUME Shape, Dealt PROVE RoundRobin
    OBVIOUS
  <2>1. loops_ \in Seq(PoolLoops)
    BY PoolsAssumption DEF Shape, TypeOK
  <2>2. PICK q \in Nat : \A i \in 1 .. Len(loops_) :
            Given(loops_[i]) = IF i <= next_ THEN q + 1 ELSE q
    BY DEF Dealt
  <2>3. \A l \in Elements(loops_) : Given(l) \in {q, q + 1}
    BY <2>1, <2>2 DEF Elements
  <2>4. \A l, m \in Elements(loops_) : Given(l) <= Given(m) + 1
    BY <2>3
  <2> QED
    BY <2>4 DEF RoundRobin, Shape, NextInRange
<1>2. IInv => Shape
  BY DEF IInv, Shape
<1> QED
  BY <1>1, <1>2, InitDealt, NextDealt, Invariance, PTL DEF Spec
=============================================================================
