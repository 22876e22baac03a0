---------------------------- MODULE PollerProofs ----------------------------
(***************************************************************************)
(* Proofs about Poller, for any number of channels and file descriptors:   *)
(* the tables stay consistent, every assert() holds whenever a client may  *)
(* reach it, and no destroyed Channel is ever referenced.                  *)
(***************************************************************************)
EXTENDS Poller, SequenceTheorems, TLAPS

----------------------------------------------------------------------------
(* The inductive invariant.                                                *)

\* Two channels that are not removed never share an fd.
DistinctFds == \A c, d \in Owned : fd_[c] = fd_[d] => c = d

\* Where the loop is: callbacks run only while the list is dispatched, and
\* the list is empty when functors run.
LoopShape ==
    /\ pc = "scan" => scan >= 1
    /\ todo /= <<>> => pc = "dispatch" /\ activeChannels_ /= <<>>
    /\ pc = "functors" => activeChannels_ = <<>>

\* kReadEvent is empty, so readability is never requested, never reported,
\* and no read callback ever runs.
NeverReads ==
    /\ \A c \in Channels : POLLIN \notin events_[c]
    /\ \A i \in 1 .. Len(activeChannels_) :
          POLLIN \notin activeChannels_[i].revents
    /\ \A i \in 1 .. Len(todo) : todo[i] /= "read"

\* eventHandling_ is set on the channel being handled and on no other.
HandlingIsCurrent ==
    \A c \in Channels : eventHandling_[c] => todo /= <<>> /\ c = Current

\* Only registered channels are disabled.
DisabledIsRegistered ==
    \A c \in Channels : life[c] = "disabled" => index_[c] >= 0

ActiveAlive ==
    \A i \in 1 .. Len(activeChannels_) : life[activeChannels_[i].ch] /= "none"

IInv ==
    /\ TypeOK
    /\ DistinctFds
    /\ TableConsistent
    /\ LoopShape
    /\ NeverReads
    /\ HandlingIsCurrent
    /\ ActiveAlive
    /\ DisabledIsRegistered

----------------------------------------------------------------------------
(* Lemmas about the masks.                                                 *)

\* Channel.cpp's division yields the empty mask.
LEMMA ReadEventIsEmpty == kReadEvent = {}
  BY DEF kReadEvent, FlagsOf, Flags, POLLIN, POLLPRI, POLLOUT, POLLERR, POLLHUP

LEMMA MasksAreFlags ==
    /\ kNoneEvent \in SUBSET Flags
    /\ kWriteEvent \in SUBSET Flags
    /\ AlwaysReported \in SUBSET Flags
    /\ POLLIN \notin kWriteEvent
    /\ POLLIN \notin AlwaysReported
    /\ POLLIN \notin kNoneEvent
  BY DEF kNoneEvent, kWriteEvent, AlwaysReported, FlagsOf, Flags, POLLIN,
         POLLPRI, POLLOUT, POLLERR, POLLHUP

\* A function on 1 .. m is a sequence of length m.
LEMMA FunctionIsSeq ==
    ASSUME NEW S, NEW m \in Nat, NEW g \in [1 .. m -> S]
    PROVE  g \in Seq(S) /\ Len(g) = m
  OBVIOUS

----------------------------------------------------------------------------
(* Initial states.                                                         *)

LEMMA InitIInv == Init => IInv
<1> SUFFICES ASSUME Init PROVE IInv
  OBVIOUS
<1> USE FdsAssumption DEF Init
<1>1. TypeOK
  <2>1. fd_ \in [Channels -> Fds]
    OBVIOUS
  <2>2. DOMAIN channels_ \subseteq Fds /\ channels_ \in [DOMAIN channels_ -> Channels]
    OBVIOUS
  <2>3. events_ \in [Channels -> SUBSET Flags]
    BY MasksAreFlags
  <2> QED
    BY <2>1, <2>2, <2>3 DEF TypeOK, Lives, Callbacks
<1>2. Owned = {} /\ Registered = {}
  BY DEF Owned, Registered
<1>3. TableConsistent
  BY <1>2 DEF TableConsistent, MapMatches, SlotsMatch, NoOrphanSlot
<1>4. NeverReads
  BY MasksAreFlags DEF NeverReads
<1> QED
  BY <1>1, <1>2, <1>3, <1>4 DEF IInv, DistinctFds, LoopShape,
     HandlingIsCurrent, ActiveAlive, DisabledIsRegistered

----------------------------------------------------------------------------
(* Steps of the clients.                                                   *)

LEMMA NewChannelIInv ==
    ASSUME IInv, NEW c \in Channels, NEW f \in Fds, NewChannel(c, f)
    PROVE  IInv'
<1> USE DEF IInv
<1>1. /\ life' = [life EXCEPT ![c] = "inUse"] /\ life[c] = "none"
      /\ fd_' = [fd_ EXCEPT ![c] = f]
      /\ index_' = [index_ EXCEPT ![c] = -1]
      /\ events_' = [events_ EXCEPT ![c] = kNoneEvent]
      /\ eventHandling_' = [eventHandling_ EXCEPT ![c] = FALSE]
      /\ \A d \in Owned : fd_[d] /= f
      /\ UNCHANGED <<channels_, pollfds_, activeChannels_, pc, scan, todo>>
  BY DEF NewChannel, pollVars, loopVars
<1>2. TypeOK'
  <2>1. callbacks' \in [Channels -> SUBSET Callbacks]
    BY DEF NewChannel, CallbackSets, TypeOK, Callbacks
  <2>2. events_' \in [Channels -> SUBSET Flags]
    BY <1>1, MasksAreFlags DEF TypeOK
  <2> QED
    BY <1>1, <2>1, <2>2 DEF TypeOK, Lives
<1>3. Owned' = Owned \cup {c} /\ Registered' = Registered /\ c \notin Owned
  BY <1>1 DEF Owned, Registered, TypeOK
<1>4. \A d \in Channels \ {c} : /\ fd_'[d] = fd_[d] /\ index_'[d] = index_[d]
                                /\ events_'[d] = events_[d] /\ life'[d] = life[d]
  BY <1>1 DEF TypeOK
<1>5. DistinctFds'
  BY <1>1, <1>3, <1>4 DEF DistinctFds, TypeOK, Owned
<1>6. \A d \in Registered : d \in Channels \ {c}
  BY <1>3 DEF Registered, Owned
<1>7. TableConsistent'
  BY <1>1, <1>3, <1>4, <1>6 DEF TableConsistent, MapMatches, SlotsMatch,
     NoOrphanSlot, Entry
<1>8. NeverReads'
  BY <1>1, MasksAreFlags DEF NeverReads, TypeOK
<1>9. HandlingIsCurrent' /\ LoopShape'
  BY <1>1 DEF HandlingIsCurrent, LoopShape, Current, TypeOK
<1>10. ActiveAlive' /\ DisabledIsRegistered'
  BY <1>1 DEF ActiveAlive, DisabledIsRegistered, TypeOK
<1> QED
  BY <1>2, <1>5, <1>7, <1>8, <1>9, <1>10

\* index_ is injective on the registered channels.
LEMMA IndexInjective ==
    ASSUME TypeOK, DistinctFds, TableConsistent,
           NEW c \in Registered, NEW d \in Registered, index_[c] = index_[d]
    PROVE  c = d
<1>1. /\ fd_[c] \in Nat /\ fd_[d] \in Nat
      /\ Entry(c).fd \in {fd_[c], Ignored(fd_[c])}
      /\ Entry(d).fd \in {fd_[d], Ignored(fd_[d])}
  BY FdsAssumption DEF TypeOK, TableConsistent, SlotsMatch, Registered, Owned
<1>2. Entry(c) = Entry(d)
  BY DEF Entry
<1>3. fd_[c] = fd_[d]
  BY <1>1, <1>2 DEF Ignored
<1> QED
  BY <1>3 DEF DistinctFds, Registered

\* Channel::update with any new event mask that does not ask for reads.
LEMMA UpdateIInv ==
    ASSUME IInv, NEW c \in Channels, NEW ev \in SUBSET Flags, POLLIN \notin ev,
           NEW nl \in {"inUse", "disabled"},
           nl = "disabled" => c \in Registered /\ ev = kNoneEvent,
           Update(c, ev, nl)
    PROVE  IInv'
<1> USE DEF IInv
<1>1. /\ c \in Owned
      /\ events_' = [events_ EXCEPT ![c] = ev]
      /\ life' = [life EXCEPT ![c] = nl]
      /\ updateChannel(c, ev)
      /\ UNCHANGED <<callbacks, fd_, eventHandling_, activeChannels_, pc, scan, todo>>
  BY DEF Update, updateChannel, loopVars
<1>2. fd_[c] \in Fds /\ fd_[c] \in Nat /\ index_[c] \in Nat \cup {-1}
  BY FdsAssumption DEF TypeOK
<1>3. Owned' = Owned
  BY <1>1 DEF Owned, TypeOK
<1>4. DistinctFds'
  BY <1>1, <1>3 DEF DistinctFds
<1>5. LoopShape' /\ NeverReads' /\ HandlingIsCurrent' /\ ActiveAlive'
  <2>1. LoopShape' /\ HandlingIsCurrent'
    BY <1>1 DEF LoopShape, HandlingIsCurrent, Current
  <2>2. NeverReads'
    BY <1>1 DEF NeverReads, TypeOK
  <2>3. ActiveAlive'
    BY <1>1 DEF ActiveAlive, TypeOK, Owned
  <2> QED
    BY <2>1, <2>2, <2>3
<1>6. \A d \in Owned \ {c} : life'[d] = life[d] /\ events_'[d] = events_[d]
                             /\ fd_[d] /= fd_[c]
  BY <1>1 DEF Owned, TypeOK, DistinctFds
<1>7. life'[c] = nl /\ events_'[c] = ev
  BY <1>1 DEF TypeOK
<1>8. CASE index_[c] < 0
  <2>1. /\ pollfds_' = Append(pollfds_, PollFd(fd_[c], ev))
        /\ index_' = [index_ EXCEPT ![c] = Len(pollfds_)]
        /\ channels_' = [f \in DOMAIN channels_ \cup {fd_[c]} |->
                            IF f = fd_[c] THEN c ELSE channels_[f]]
    BY <1>1, <1>8 DEF updateChannel
  <2>2. c \notin Registered /\ Registered' = Registered \cup {c}
    BY <1>1, <1>3, <1>8, <2>1 DEF Registered, TypeOK, Owned
  <2>3. PollFd(fd_[c], ev) \in [fd : Int, events : SUBSET Flags]
    BY <1>2 DEF PollFd
  <2>4. TypeOK'
    BY <1>1, <1>2, <2>1, <2>3 DEF TypeOK, Lives
  <2>5. /\ Len(pollfds_') = Len(pollfds_) + 1
        /\ \A i \in 1 .. Len(pollfds_) : pollfds_'[i] = pollfds_[i]
        /\ pollfds_'[Len(pollfds_) + 1] = PollFd(fd_[c], ev)
    BY <2>1, <2>3 DEF TypeOK
  <2>6. nl = "inUse"
    BY <2>2
  <2>7. \A d \in Registered : d \in Owned \ {c} /\ index_'[d] = index_[d]
                              /\ index_[d] \in Nat
    BY <2>1, <2>2 DEF TypeOK, Registered, Owned
  <2>8. index_'[c] = Len(pollfds_) /\ Len(pollfds_) \in Nat
    BY <2>1 DEF TypeOK
  <2>9. MapMatches'
    <3>1. fd_[c] \notin DOMAIN channels_
      BY <1>1, <2>2 DEF MapMatches, TableConsistent, DistinctFds, Registered
    <3>2. \A d \in Registered : fd_[d] \in DOMAIN channels_ /\ channels_'[fd_[d]] = d
      BY <1>6, <2>1, <2>7 DEF MapMatches, TableConsistent
    <3>3. channels_'[fd_[c]] = c
      BY <2>1
    <3>4. \A f \in DOMAIN channels_ : channels_'[f] = channels_[f]
      BY <2>1, <3>1
    <3> QED
      BY <1>1, <2>1, <2>2, <3>1, <3>2, <3>3, <3>4 DEF MapMatches, TableConsistent
  <2>10. SlotsMatch'
    <3>1. ASSUME NEW d \in Registered
          PROVE  /\ index_'[d] + 1 \in 1 .. Len(pollfds_')
                 /\ pollfds_'[index_'[d] + 1] = Entry(d)
      BY <2>5, <2>7, <3>1 DEF SlotsMatch, TableConsistent, Entry
    <3>2. /\ index_'[c] + 1 \in 1 .. Len(pollfds_')
          /\ pollfds_'[index_'[c] + 1] = PollFd(fd_[c], ev)
      BY <2>5, <2>8
    <3> QED
      BY <1>1, <1>6, <1>7, <2>2, <2>6, <2>7, <3>1, <3>2
         DEF SlotsMatch, TableConsistent, Entry, PollFd
  <2>11. NoOrphanSlot'
    BY <2>2, <2>5, <2>7, <2>8 DEF NoOrphanSlot, TableConsistent
  <2>12. DisabledIsRegistered'
    BY <1>1, <2>1, <2>8 DEF DisabledIsRegistered, TypeOK
  <2> QED
    BY <1>4, <1>5, <2>4, <2>9, <2>10, <2>11, <2>12 DEF TableConsistent
<1>9. CASE ~(index_[c] < 0)
  <2> DEFINE e == PollFd(IF ev = kNoneEvent THEN Ignored(fd_[c])
                                            ELSE Entry(c).fd, ev)
  <2>1. /\ pollfds_' = [pollfds_ EXCEPT ![index_[c] + 1] = e]
        /\ UNCHANGED <<index_, channels_>>
    BY <1>1, <1>9 DEF updateChannel, Entry
  <2>2. c \in Registered /\ Registered' = Registered
    BY <1>1, <1>2, <1>3, <1>9, <2>1 DEF Registered
  <2>3. index_[c] + 1 \in 1 .. Len(pollfds_) /\ Entry(c).fd \in {fd_[c], Ignored(fd_[c])}
    BY <2>2 DEF TableConsistent, SlotsMatch
  <2>4. e \in [fd : Int, events : SUBSET Flags] /\ e.events = ev
        /\ e.fd \in {fd_[c], Ignored(fd_[c])}
    BY <1>2, <2>3 DEF PollFd, Ignored
  <2>5. TypeOK'
    BY <1>1, <2>1, <2>3, <2>4 DEF TypeOK, Lives
  <2>6. /\ Len(pollfds_') = Len(pollfds_)
        /\ pollfds_'[index_[c] + 1] = e
        /\ \A i \in 1 .. Len(pollfds_) :
              i /= index_[c] + 1 => pollfds_'[i] = pollfds_[i]
    BY <2>1, <2>3, <2>4 DEF TypeOK
  <2>7. MapMatches' /\ NoOrphanSlot'
    BY <1>1, <2>1, <2>2, <2>6 DEF MapMatches, NoOrphanSlot, TableConsistent
  <2>8. ASSUME NEW d \in Registered, d /= c
        PROVE  index_[d] /= index_[c]
    BY <2>2, <2>8, IndexInjective
  <2>9. SlotsMatch'
    <3>1. ASSUME NEW d \in Registered, d /= c
          PROVE  /\ index_[d] + 1 \in 1 .. Len(pollfds_')
                 /\ pollfds_'[index_[d] + 1] = Entry(d)
                 /\ d \in Owned \ {c}
      <4>1. index_[d] \in Nat /\ index_[c] \in Nat /\ d \in Owned \ {c}
        BY <2>2, <3>1 DEF Registered, TypeOK, Owned
      <4> QED
        BY <2>6, <2>8, <3>1, <4>1 DEF SlotsMatch, TableConsistent, Entry
    <3>2. nl = "disabled" => e = PollFd(Ignored(fd_[c]), kNoneEvent)
      OBVIOUS
    <3> QED
      BY <1>1, <1>6, <1>7, <2>1, <2>2, <2>3, <2>4, <2>6, <3>1, <3>2
         DEF SlotsMatch, TableConsistent, Entry
  <2>10. DisabledIsRegistered'
    BY <1>1, <1>2, <1>9, <2>1 DEF DisabledIsRegistered, TypeOK
  <2> QED
    BY <1>4, <1>5, <2>5, <2>7, <2>9, <2>10 DEF TableConsistent
<1> QED
  BY <1>2, <1>8, <1>9

\* Poller::removeChannel: the last entry moves into the hole and its channel
\* is told so.
LEMMA RemoveIInv ==
    ASSUME IInv, NEW c \in Channels, Remove(c)
    PROVE  IInv'
<1> USE DEF IInv
<1> DEFINE n == Len(pollfds_)
           L == ChannelAtEnd
<1>1. /\ life[c] = "disabled" /\ life' = [life EXCEPT ![c] = "removed"]
      /\ pollfds_' = SwapWithLastAndPop(pollfds_, index_[c] + 1)
      /\ channels_' = [f \in DOMAIN channels_ \ {fd_[c]} |-> channels_[f]]
      /\ index_' = IF index_[c] = n - 1 THEN index_
                   ELSE [index_ EXCEPT ![L] = index_[c]]
      /\ UNCHANGED <<callbacks, fd_, events_, eventHandling_,
                     activeChannels_, pc, scan, todo>>
  BY DEF Remove, removeChannel, loopVars
<1>2. c \in Registered
  BY <1>1 DEF DisabledIsRegistered, Registered, Owned
<1>3. n \in Nat /\ index_[c] \in Nat /\ index_[c] + 1 \in 1 .. n
  BY <1>2 DEF TableConsistent, SlotsMatch, Registered, TypeOK
<1>4. PICK last \in Registered : index_[last] = n - 1
  BY <1>3 DEF TableConsistent, NoOrphanSlot
<1>5. L = last
  <2>1. /\ fd_[last] \in Nat /\ Entry(last) = pollfds_[n]
        /\ Entry(last).fd \in {fd_[last], Ignored(fd_[last])}
        /\ channels_[fd_[last]] = last
    BY <1>3, <1>4, FdsAssumption DEF TypeOK, TableConsistent, SlotsMatch,
       MapMatches, Registered, Owned, Entry
  <2> QED
    BY <2>1 DEF ChannelAtEnd, Ignored
<1>6. L \in Channels /\ (L = c <=> index_[c] = n - 1)
  BY <1>2, <1>4, <1>5, IndexInjective DEF Registered, Owned
<1>7. \A d \in Registered : d \in Channels /\ index_[d] \in 0 .. n - 1
  BY <1>3 DEF TableConsistent, SlotsMatch, Registered, Owned, TypeOK
<1>8. /\ Len(pollfds_') = n - 1
      /\ \A k \in 1 .. n - 1 :
            pollfds_'[k] = IF k = index_[c] + 1 THEN pollfds_[n] ELSE pollfds_[k]
      /\ pollfds_' \in Seq([fd : Int, events : SUBSET Flags])
  <2> DEFINE m == n - 1
             g == [k \in 1 .. m |-> IF k = index_[c] + 1 THEN pollfds_[n] ELSE pollfds_[k]]
  <2>1. pollfds_' = g
    BY <1>1 DEF SwapWithLastAndPop
  <2>2. m \in Nat
    BY <1>3
  <2>3. \A k \in 1 .. n : pollfds_[k] \in [fd : Int, events : SUBSET Flags]
    BY ElementOfSeq DEF TypeOK
  <2>4. g \in [1 .. m -> [fd : Int, events : SUBSET Flags]]
    BY <1>3, <2>3
  <2>5. g \in Seq([fd : Int, events : SUBSET Flags]) /\ Len(g) = m
    BY <2>2, <2>4, FunctionIsSeq
  <2> QED
    BY <2>1, <2>5
<1>9. \A d \in Channels : index_'[d] = IF index_[c] /= n - 1 /\ d = L
                                       THEN index_[c] ELSE index_[d]
  BY <1>1, <1>6 DEF TypeOK
<1>10. TypeOK'
  <2>1. index_' \in [Channels -> Nat \cup {-1}]
    BY <1>1, <1>3, <1>6 DEF TypeOK
  <2>2. life' \in [Channels -> Lives]
    BY <1>1 DEF TypeOK, Lives
  <2>3. DOMAIN channels_' \subseteq Fds /\ channels_' \in [DOMAIN channels_' -> Channels]
    BY <1>1 DEF TypeOK
  <2> QED
    BY <1>1, <1>8, <2>1, <2>2, <2>3 DEF TypeOK
<1>11. /\ Owned' = Owned \ {c}
       /\ \A d \in Channels \ {c} : life'[d] = life[d]
  BY <1>1 DEF Owned, TypeOK
<1>12. Registered' = Registered \ {c}
  BY <1>3, <1>4, <1>5, <1>9, <1>11 DEF Registered, Owned
<1>13. ASSUME NEW d \in Registered, d /= c
       PROVE  /\ index_'[d] + 1 \in 1 .. n - 1
              /\ pollfds_'[index_'[d] + 1] = Entry(d)
  <2>1. CASE d = L
    BY <1>3, <1>4, <1>5, <1>6, <1>7, <1>8, <1>9, <1>13, <2>1 DEF Entry
  <2>2. CASE d /= L
    <3>1. index_[d] /= n - 1 /\ index_[d] /= index_[c]
      BY <1>2, <1>4, <1>5, <1>13, <2>2, IndexInjective
    <3>2. index_'[d] = index_[d] /\ index_[d] + 1 \in 1 .. n - 1
      BY <1>3, <1>7, <1>9, <2>2, <3>1
    <3>3. index_[d] + 1 /= index_[c] + 1
      BY <1>3, <1>7, <3>1
    <3>4. pollfds_'[index_[d] + 1] = pollfds_[index_[d] + 1]
      BY <1>8, <3>2, <3>3
    <3> QED
      BY <3>2, <3>4 DEF Entry
  <2> QED
    BY <2>1, <2>2
<1>14. SlotsMatch'
  BY <1>1, <1>8, <1>11, <1>12, <1>13, <1>7 DEF SlotsMatch, TableConsistent, Entry
<1>15. MapMatches'
  <2>1. \A d \in Registered \ {c} : fd_[d] /= fd_[c]
    BY <1>2 DEF DistinctFds, Registered
  <2> QED
    BY <1>1, <1>2, <1>12, <2>1 DEF MapMatches, TableConsistent
<1>16. NoOrphanSlot'
  <2> SUFFICES ASSUME NEW i \in 1 .. n - 1
               PROVE  \E d \in Registered \ {c} : index_'[d] = i - 1
    BY <1>8, <1>12 DEF NoOrphanSlot
  <2>1. CASE i = index_[c] + 1
    BY <1>3, <1>4, <1>5, <1>6, <1>9, <2>1 DEF Registered, Owned
  <2>2. CASE i /= index_[c] + 1
    <3>1. PICK d \in Registered : index_[d] = i - 1
      BY <1>3 DEF NoOrphanSlot, TableConsistent
    <3>2. d /= c /\ d /= L /\ d \in Channels
      BY <1>3, <1>4, <1>5, <1>7, <2>2, <3>1
    <3> QED
      BY <1>9, <3>1, <3>2
  <2> QED
    BY <2>1, <2>2
<1>17. DistinctFds' /\ LoopShape' /\ NeverReads' /\ HandlingIsCurrent'
  BY <1>1, <1>11 DEF DistinctFds, LoopShape, NeverReads, HandlingIsCurrent, Current
<1>18. ActiveAlive'
  BY <1>1 DEF ActiveAlive, TypeOK
<1>19. DisabledIsRegistered'
  BY <1>1, <1>3, <1>9 DEF DisabledIsRegistered, TypeOK
<1> QED
  BY <1>10, <1>14, <1>15, <1>16, <1>17, <1>18, <1>19 DEF TableConsistent

LEMMA DestroyIInv ==
    ASSUME IInv, NEW c \in Channels, Destroy(c)
    PROVE  IInv'
<1> USE DEF IInv
<1>1. /\ pc = "functors" /\ life[c] = "removed"
      /\ life' = [life EXCEPT ![c] = "none"]
      /\ callbacks' = [callbacks EXCEPT ![c] = {}]
      /\ events_' = [events_ EXCEPT ![c] = kNoneEvent]
      /\ index_' = [index_ EXCEPT ![c] = -1]
      /\ UNCHANGED <<fd_, eventHandling_, channels_, pollfds_,
                     activeChannels_, pc, scan, todo>>
  BY DEF Destroy, MayDestroy, pollVars, loopVars
<1>2. TypeOK'
  BY <1>1, MasksAreFlags DEF TypeOK, Lives
<1>3. Owned' = Owned /\ Registered' = Registered /\ c \notin Owned
  BY <1>1 DEF Owned, Registered, TypeOK
<1>4. \A d \in Owned : /\ index_'[d] = index_[d] /\ events_'[d] = events_[d]
                       /\ life'[d] = life[d]
  BY <1>1, <1>3 DEF TypeOK, Owned
<1>5. DistinctFds'
  BY <1>1, <1>3 DEF DistinctFds
<1>6. TableConsistent'
  BY <1>1, <1>3, <1>4 DEF TableConsistent, MapMatches, SlotsMatch,
     NoOrphanSlot, Entry, Registered
<1>7. NeverReads' /\ LoopShape' /\ HandlingIsCurrent' /\ DisabledIsRegistered'
  BY <1>1, MasksAreFlags DEF NeverReads, LoopShape, HandlingIsCurrent, Current,
     DisabledIsRegistered, TypeOK
<1>8. ActiveAlive'
  BY <1>1 DEF ActiveAlive, LoopShape
<1> QED
  BY <1>2, <1>5, <1>6, <1>7, <1>8

----------------------------------------------------------------------------
(* Steps of the loop.                                                      *)

\* What a step leaves alone when it touches only the loop's own variables.
LEMMA TablesUntouched ==
    ASSUME DistinctFds, TableConsistent, DisabledIsRegistered,
           UNCHANGED <<life, fd_, events_, index_, channels_, pollfds_>>
    PROVE  DistinctFds' /\ TableConsistent' /\ DisabledIsRegistered'
<1>1. Owned' = Owned /\ Registered' = Registered
  BY DEF Owned, Registered
<1>2. DistinctFds' /\ DisabledIsRegistered'
  BY <1>1 DEF DistinctFds, DisabledIsRegistered
<1>3. MapMatches' /\ NoOrphanSlot'
  BY <1>1 DEF TableConsistent, MapMatches, NoOrphanSlot
<1>4. SlotsMatch'
  BY <1>1 DEF TableConsistent, SlotsMatch, Entry
<1> QED
  BY <1>2, <1>3, <1>4 DEF TableConsistent

LEMMA PollIInv == ASSUME IInv, Poll \/ PollReturn \/ DispatchDone PROVE IInv'
<1> USE DEF IInv
<1>1. /\ UNCHANGED <<life, callbacks, fd_, events_, index_, eventHandling_,
                     channels_, pollfds_, activeChannels_, todo>>
      /\ scan' \in Nat
      /\ pc' \in {"functors", "scan", "dispatch"}
      /\ pc' = "scan" => scan' >= 1
      /\ todo /= <<>> => pc' = "dispatch"
      /\ pc' = "functors" => activeChannels_ = <<>>
  BY DEF Poll, PollReturn, DispatchDone, chanVars, pollVars, TypeOK, LoopShape
<1>2. TypeOK' /\ LoopShape'
  BY <1>1 DEF TypeOK, LoopShape
<1>3. NeverReads' /\ HandlingIsCurrent' /\ ActiveAlive'
  BY <1>1 DEF NeverReads, HandlingIsCurrent, Current, ActiveAlive
<1> QED
  BY <1>1, <1>2, <1>3, TablesUntouched

\* In a consistent table an entry that is not ignored leads to its channel.
LEMMA EntryChannel ==
    ASSUME TypeOK, TableConsistent, NEW i \in 1 .. Len(pollfds_),
           ~(pollfds_[i].fd < 0)
    PROVE  /\ pollfds_[i].fd \in DOMAIN channels_
           /\ channels_[pollfds_[i].fd] \in Registered
           /\ fd_[channels_[pollfds_[i].fd]] = pollfds_[i].fd
           /\ pollfds_[i].events = events_[channels_[pollfds_[i].fd]]
<1>1. PICK c \in Registered : index_[c] = i - 1
  BY DEF TableConsistent, NoOrphanSlot
<1>2. Entry(c) = pollfds_[i] /\ fd_[c] \in Nat
  BY <1>1, FdsAssumption DEF Entry, TypeOK, Registered, Owned
<1>3. pollfds_[i].fd = fd_[c] /\ pollfds_[i].events = events_[c]
  BY <1>2 DEF TableConsistent, SlotsMatch, Ignored
<1> QED
  BY <1>3 DEF TableConsistent, MapMatches

LEMMA FillIInv == ASSUME IInv, fillActiveChannels PROVE IInv'
<1> USE DEF IInv
<1> DEFINE Rec == [ch : Channels, revents : SUBSET Flags]
<1>1. /\ UNCHANGED <<life, callbacks, fd_, events_, index_, eventHandling_,
                     channels_, pollfds_, pc, todo>>
      /\ pc = "scan" /\ scan' = scan + 1
      /\ scan \in 1 .. Len(pollfds_)
  BY DEF fillActiveChannels, pollVars, LoopShape, TypeOK
<1>2. /\ activeChannels_' \in Seq(Rec)
      /\ \A i \in 1 .. Len(activeChannels_') :
            /\ POLLIN \notin activeChannels_'[i].revents
            /\ life[activeChannels_'[i].ch] /= "none"
  <2>1. PICK r \in MayReport(pollfds_[scan]) :
            IF r = {} THEN UNCHANGED activeChannels_
            ELSE activeChannels_' = Append(activeChannels_,
                     [ch |-> channels_[pollfds_[scan].fd], revents |-> r])
    BY DEF fillActiveChannels
  <2>2. CASE r = {}
    BY <2>1, <2>2 DEF TypeOK, NeverReads, ActiveAlive
  <2>3. CASE r /= {}
    <3> DEFINE c == channels_[pollfds_[scan].fd]
               e == [ch |-> c, revents |-> r]
    <3>1. ~(pollfds_[scan].fd < 0) /\ r \in SUBSET (pollfds_[scan].events \cup AlwaysReported)
      BY <2>3 DEF MayReport
    <3>2. c \in Registered /\ pollfds_[scan].events = events_[c]
      BY <1>1, <3>1, EntryChannel
    <3>3. c \in Channels /\ life[c] /= "none" /\ events_[c] \in SUBSET Flags
      BY <3>2 DEF Registered, Owned, TypeOK
    <3>4. POLLIN \notin r /\ r \in SUBSET Flags
      BY <3>1, <3>2, <3>3, MasksAreFlags DEF NeverReads
    <3>5. e \in Rec
      BY <3>3, <3>4
    <3>6. activeChannels_' = Append(activeChannels_, e)
      BY <2>1, <2>3
    <3>7. /\ activeChannels_' \in Seq(Rec)
          /\ Len(activeChannels_') = Len(activeChannels_) + 1
          /\ \A i \in 1 .. Len(activeChannels_) : activeChannels_'[i] = activeChannels_[i]
          /\ activeChannels_'[Len(activeChannels_) + 1] = e
      BY <3>5, <3>6, AppendProperties DEF TypeOK
    <3>8. Len(activeChannels_) \in Nat
      BY LenProperties DEF TypeOK
    <3> HIDE DEF Rec
    <3> QED
      BY <3>3, <3>4, <3>7, <3>8 DEF NeverReads, ActiveAlive
  <2> QED
    BY <2>2, <2>3
<1>3. TypeOK'
  BY <1>1, <1>2 DEF TypeOK
<1>4. todo = <<>>
  BY <1>1 DEF LoopShape
<1>5. LoopShape' /\ NeverReads' /\ ActiveAlive' /\ HandlingIsCurrent'
  BY <1>1, <1>2, <1>4 DEF LoopShape, NeverReads, ActiveAlive,
     HandlingIsCurrent, TypeOK
<1> QED
  BY <1>1, <1>3, <1>5, TablesUntouched

\* Without POLLIN no read callback is selected.
LEMMA CallbacksForType ==
    ASSUME NEW cbs, NEW r, POLLIN \notin r
    PROVE  /\ CallbacksFor(cbs, r) \in Seq(Callbacks)
           /\ \A i \in 1 .. Len(CallbacksFor(cbs, r)) :
                 CallbacksFor(cbs, r)[i] /= "read"
<1> DEFINE NR == {"write", "close", "error"}
<1>1. ASSUME NEW b \in BOOLEAN, NEW cb \in NR PROVE When(b, cb) \in Seq(NR)
  <2>1. <<cb>> \in Seq(NR) /\ <<>> \in Seq(NR)
    OBVIOUS
  <2> QED
    BY <2>1 DEF When
<1>2. CallbacksFor(cbs, r) \in Seq(NR)
  BY <1>1, ConcatProperties DEF CallbacksFor
<1>3. CallbacksFor(cbs, r) \in Seq(Callbacks)
  BY <1>2, SeqMonotonic DEF Callbacks
<1>4. \A i \in 1 .. Len(CallbacksFor(cbs, r)) : CallbacksFor(cbs, r)[i] \in NR
  BY <1>2, ElementOfSeq
<1> QED
  BY <1>3, <1>4

\* Working off the head of a sequence.
LEMMA TailFacts ==
    ASSUME NEW S, NEW s \in Seq(S), s /= <<>>
    PROVE  /\ Tail(s) \in Seq(S)
           /\ Len(s) \in Nat /\ Len(s) >= 1
           /\ Len(Tail(s)) = Len(s) - 1
           /\ \A i \in 1 .. Len(Tail(s)) : i + 1 \in 1 .. Len(s) /\ Tail(s)[i] = s[i + 1]
           /\ Head(s) = s[1] /\ Head(s) \in S
<1>1. Len(s) \in Nat /\ Len(s) >= 1
  BY EmptySeq
<1>2. /\ Head(s) \in S /\ Tail(s) \in Seq(S) /\ Len(Tail(s)) = Len(s) - 1
      /\ \A i \in 1 .. Len(Tail(s)) : Tail(s)[i] = s[i + 1]
  BY HeadTailProperties
<1>3. \A i \in 1 .. Len(Tail(s)) : i + 1 \in 1 .. Len(s)
  BY <1>1, <1>2
<1>4. Head(s) = s[1]
  OBVIOUS
<1> QED
  BY <1>1, <1>2, <1>3, <1>4

LEMMA HandleEventIInv == ASSUME IInv, HandleEvent PROVE IInv'
<1> USE DEF IInv
<1> DEFINE Rec == [ch : Channels, revents : SUBSET Flags]
<1>1. /\ UNCHANGED <<life, callbacks, fd_, events_, index_, channels_,
                     pollfds_, pc, scan>>
      /\ pc = "dispatch" /\ todo = <<>> /\ activeChannels_ /= <<>>
      /\ todo' = CallbacksFor(callbacks[Current], Head(activeChannels_).revents)
  BY DEF HandleEvent, pollVars
<1>2. activeChannels_ \in Seq(Rec)
  BY DEF TypeOK
<1>3. Head(activeChannels_) = activeChannels_[1] /\ Len(activeChannels_) >= 1
      /\ Head(activeChannels_) \in Rec /\ Len(activeChannels_) \in Nat
  BY <1>1, <1>2, TailFacts
<1>4. POLLIN \notin Head(activeChannels_).revents
  BY <1>3 DEF NeverReads
<1>5. todo' \in Seq(Callbacks) /\ \A i \in 1 .. Len(todo') : todo'[i] /= "read"
  BY <1>1, <1>4, CallbacksForType
<1>6. Current \in Channels
  BY <1>3 DEF Current
<1>7. CASE todo' = <<>>
  <2>1. activeChannels_' = Tail(activeChannels_) /\ UNCHANGED eventHandling_
    BY <1>7 DEF HandleEvent
  <2>2. /\ activeChannels_' \in Seq(Rec)
        /\ \A i \in 1 .. Len(activeChannels_') :
              \E j \in 1 .. Len(activeChannels_) : activeChannels_'[i] = activeChannels_[j]
    <3> HIDE DEF Rec
    <3> QED
      BY <1>1, <1>2, <2>1, TailFacts
  <2>3. TypeOK' /\ LoopShape'
    BY <1>1, <1>5, <1>7, <2>1, <2>2 DEF TypeOK, LoopShape
  <2>4. NeverReads' /\ ActiveAlive'
    BY <1>1, <1>5, <2>2 DEF NeverReads, ActiveAlive
  <2>5. HandlingIsCurrent'
    BY <1>1, <2>1 DEF HandlingIsCurrent
  <2> QED
    BY <1>1, <2>3, <2>4, <2>5, TablesUntouched
<1>8. CASE todo' /= <<>>
  <2>1. UNCHANGED activeChannels_
        /\ eventHandling_' = [eventHandling_ EXCEPT ![Current] = TRUE]
    BY <1>8 DEF HandleEvent
  <2>2. TypeOK' /\ LoopShape'
    BY <1>1, <1>5, <1>6, <2>1 DEF TypeOK, LoopShape
  <2>3. NeverReads' /\ ActiveAlive'
    BY <1>1, <1>5, <2>1 DEF NeverReads, ActiveAlive
  <2>4. HandlingIsCurrent'
    BY <1>1, <1>8, <2>1 DEF HandlingIsCurrent, Current, TypeOK
  <2> QED
    BY <1>1, <2>2, <2>3, <2>4, TablesUntouched
<1> QED
  BY <1>7, <1>8

LEMMA CallbackReturnIInv == ASSUME IInv, CallbackReturn PROVE IInv'
<1> USE DEF IInv
<1> DEFINE Rec == [ch : Channels, revents : SUBSET Flags]
<1>1. /\ UNCHANGED <<life, callbacks, fd_, events_, index_, channels_,
                     pollfds_, pc, scan>>
      /\ todo /= <<>> /\ todo' = Tail(todo)
      /\ pc = "dispatch" /\ activeChannels_ /= <<>>
  BY DEF CallbackReturn, pollVars, LoopShape
<1>2. activeChannels_ \in Seq(Rec) /\ todo \in Seq(Callbacks)
  BY DEF TypeOK
<1>3. /\ todo' \in Seq(Callbacks) /\ Len(todo') = Len(todo) - 1
      /\ Len(todo) \in Nat /\ Len(todo) >= 1 /\ Head(todo) /= "read"
      /\ \A i \in 1 .. Len(todo') : todo'[i] /= "read"
  <2>1. /\ Tail(todo) \in Seq(Callbacks)
        /\ Len(todo) \in Nat /\ Len(todo) >= 1
        /\ Len(Tail(todo)) = Len(todo) - 1
        /\ \A i \in 1 .. Len(Tail(todo)) : i + 1 \in 1 .. Len(todo) /\ Tail(todo)[i] = todo[i + 1]
        /\ Head(todo) = todo[1]
    BY <1>1, <1>2, TailFacts
  <2> QED
    BY <1>1, <2>1 DEF NeverReads
<1>4. Head(activeChannels_) \in Rec
  BY <1>1, <1>2, TailFacts
<1>5. Current \in Channels
  BY <1>4 DEF Current
<1>6. CASE Len(todo) > 1
  <2>1. UNCHANGED <<eventHandling_, activeChannels_>>
    BY <1>6 DEF CallbackReturn
  <2>2. TypeOK' /\ LoopShape'
    BY <1>1, <1>3, <2>1 DEF TypeOK, LoopShape
  <2>3. NeverReads' /\ ActiveAlive'
    BY <1>1, <1>3, <2>1 DEF NeverReads, ActiveAlive
  <2>4. todo' /= <<>>
    BY <1>3, <1>6
  <2>5. HandlingIsCurrent'
    BY <1>1, <2>1, <2>4 DEF HandlingIsCurrent, Current
  <2> QED
    BY <1>1, <2>2, <2>3, <2>5, TablesUntouched
<1>7. CASE ~(Len(todo) > 1)
  <2>1. activeChannels_' = Tail(activeChannels_)
        /\ eventHandling_' = [eventHandling_ EXCEPT ![Current] = (Head(todo) = "read")]
    BY <1>7 DEF CallbackReturn
  <2>2. /\ activeChannels_' \in Seq(Rec)
        /\ \A i \in 1 .. Len(activeChannels_') :
              \E j \in 1 .. Len(activeChannels_) : activeChannels_'[i] = activeChannels_[j]
    <3> HIDE DEF Rec
    <3> QED
      BY <1>1, <1>2, <2>1, TailFacts
  <2>3. todo' = <<>>
    BY <1>3, <1>7, EmptySeq
  <2>4. eventHandling_' = [eventHandling_ EXCEPT ![Current] = FALSE]
    BY <1>3, <2>1
  <2>5. TypeOK' /\ LoopShape'
    BY <1>1, <1>3, <1>5, <2>2, <2>3, <2>4 DEF TypeOK, LoopShape
  <2>6. NeverReads' /\ ActiveAlive'
    BY <1>1, <1>3, <2>2 DEF NeverReads, ActiveAlive
  <2>7. HandlingIsCurrent'
    BY <1>1, <1>5, <2>4 DEF HandlingIsCurrent, TypeOK
  <2> QED
    BY <1>1, <2>5, <2>6, <2>7, TablesUntouched
<1> QED
  BY <1>6, <1>7

----------------------------------------------------------------------------
(* The inductive invariant holds.                                          *)

LEMMA NextIInv == IInv /\ [Next]_vars => IInv'
<1> SUFFICES ASSUME IInv, [Next]_vars PROVE IInv'
  OBVIOUS
<1>1. CASE Loop
  BY <1>1, PollIInv, FillIInv, HandleEventIInv, CallbackReturnIInv DEF Loop
<1>2. CASE \E c \in Channels : Client(c)
  <2>1. PICK c \in Channels : Client(c)
    BY <1>2
  <2>2. events_[c] \in SUBSET Flags /\ POLLIN \notin events_[c]
    BY DEF IInv, TypeOK, NeverReads
  <2>3. CASE \E f \in Fds : NewChannel(c, f)
    BY <2>3, NewChannelIInv
  <2>4. CASE enableReading(c)
    BY <2>2, <2>4, UpdateIInv, ReadEventIsEmpty DEF enableReading
  <2>5. CASE enableWriting(c)
    BY <2>2, <2>5, UpdateIInv, MasksAreFlags DEF enableWriting
  <2>6. CASE disableWriting(c)
    BY <2>2, <2>6, UpdateIInv DEF disableWriting
  <2>7. CASE disableAll(c)
    BY <2>7, UpdateIInv, MasksAreFlags DEF disableAll
  <2>8. CASE Remove(c)
    BY <2>8, RemoveIInv
  <2>9. CASE Destroy(c)
    BY <2>9, DestroyIInv
  <2> QED
    BY <2>1, <2>3, <2>4, <2>5, <2>6, <2>7, <2>8, <2>9 DEF Client
<1>3. CASE UNCHANGED vars
  BY <1>3, TablesUntouched DEF IInv, vars, TypeOK, LoopShape, NeverReads,
     HandlingIsCurrent, Current, ActiveAlive
<1> QED
  BY <1>1, <1>2, <1>3 DEF Next

LEMMA Invariance == Spec => []IInv
  BY InitIInv, NextIInv, PTL DEF Spec

----------------------------------------------------------------------------
(* The theorems.                                                           *)

\* Poller's map, its pollfd array and the channels' index_ always agree.
THEOREM TablesConsistent == Spec => []TableConsistent
<1>1. IInv => TableConsistent
  BY DEF IInv
<1> QED
  BY <1>1, Invariance, PTL

\* Every state is well typed: in particular no index_ is ever out of type.
THEOREM TypeCorrect == Spec => []TypeOK
<1>1. IInv => TypeOK
  BY DEF IInv
<1> QED
  BY <1>1, Invariance, PTL

\* No assert() of Poller::updateChannel, removeChannel, fillActiveChannels or
\* ~Channel can fail for clients that keep the owners' protocol.
THEOREM AssertsNeverFail == Spec => []AssertionsHold
<1>1. ASSUME IInv PROVE AssertionsHold
  <2> USE <1>1 DEF IInv
  <2>1. ASSUME NEW c \in Owned PROVE UpdateAsserts(c)
    <3>1. CASE index_[c] < 0
      <4>0. index_[c] \in Int
        BY DEF Owned, TypeOK
      <4>1. c \notin Registered
        BY <3>1, <4>0 DEF Registered
      <4>2. fd_[c] \notin DOMAIN channels_
        BY <4>1 DEF TableConsistent, MapMatches, DistinctFds, Registered
      <4> QED
        BY <3>1, <4>2 DEF UpdateAsserts
    <3>2. CASE ~(index_[c] < 0)
      <4>1. c \in Registered /\ index_[c] \in Nat
        BY <3>2 DEF Registered, Owned, TypeOK
      <4>2. index_[c] + 1 \in 1 .. Len(pollfds_) /\ Len(pollfds_) \in Nat
        BY <4>1, LenProperties DEF TableConsistent, SlotsMatch, TypeOK
      <4>3. index_[c] < Len(pollfds_)
        BY <4>1, <4>2
      <4> QED
        BY <3>2, <4>1, <4>2, <4>3 DEF UpdateAsserts, TableConsistent, SlotsMatch, MapMatches
    <3> QED
      BY <3>1, <3>2
  <2>2. ASSUME NEW c \in Channels, life[c] = "disabled" PROVE RemoveAsserts(c)
    <3>1. c \in Registered /\ index_[c] \in Nat
      BY <2>2 DEF DisabledIsRegistered, Registered, Owned, TypeOK
    <3>2. index_[c] + 1 \in 1 .. Len(pollfds_) /\ Len(pollfds_) \in Nat
      BY <3>1 DEF TableConsistent, SlotsMatch, TypeOK
    <3>3. index_[c] \in 0 .. Len(pollfds_) - 1
      BY <3>1, <3>2
    <3>4. Entry(c) = PollFd(Ignored(fd_[c]), kNoneEvent) /\ Entry(c).events = events_[c]
      BY <2>2, <3>1 DEF TableConsistent, SlotsMatch
    <3>5. events_[c] = kNoneEvent
      BY <3>4 DEF PollFd
    <3> QED
      BY <3>1, <3>3, <3>4, <3>5 DEF RemoveAsserts, TableConsistent, MapMatches
  <2>3. pc = "scan" /\ scan <= Len(pollfds_) /\ pollfds_[scan].fd >= 0 =>
          /\ pollfds_[scan].fd \in DOMAIN channels_
          /\ fd_[channels_[pollfds_[scan].fd]] = pollfds_[scan].fd
    <3> SUFFICES ASSUME pc = "scan", scan <= Len(pollfds_), pollfds_[scan].fd >= 0
                 PROVE  /\ pollfds_[scan].fd \in DOMAIN channels_
                        /\ fd_[channels_[pollfds_[scan].fd]] = pollfds_[scan].fd
      OBVIOUS
    <3>1. scan \in 1 .. Len(pollfds_)
      BY DEF LoopShape, TypeOK
    <3>2. pollfds_[scan] \in [fd : Int, events : SUBSET Flags]
      BY <3>1, ElementOfSeq DEF TypeOK
    <3>3. ~(pollfds_[scan].fd < 0)
      BY <3>2
    <3> QED
      BY <3>1, <3>3, EntryChannel
  <2>4. ASSUME NEW c \in Channels, MayDestroy(c) PROVE ~eventHandling_[c]
    BY <2>4 DEF MayDestroy, HandlingIsCurrent, LoopShape
  <2> QED
    BY <2>1, <2>2, <2>3, <2>4 DEF AssertionsHold
<1> QED
  BY <1>1, Invariance, PTL

\* Neither channels_ nor activeChannels_ refers to a destroyed Channel.
THEOREM NoDangling == Spec => []NoDanglingChannel
<1>1. ASSUME IInv PROVE NoDanglingChannel
  BY <1>1 DEF IInv, NoDanglingChannel, ActiveAlive, TableConsistent,
     MapMatches, Registered, Owned
<1> QED
  BY <1>1, Invariance, PTL

----------------------------------------------------------------------------
(* What poll(2) watches for a channel.                                     *)

\* An entry that was in the array before the step is the one of the channel
\* that finds it afterwards: its fd, plain or ignored, names the channel.
LEMMA EntryFollows ==
    ASSUME IInv, IInv', NEW c \in Registered, c \in Registered', fd_'[c] = fd_[c],
           NEW j \in 1 .. Len(pollfds_), pollfds_'[index_'[c] + 1] = pollfds_[j]
    PROVE  pollfds_[j] = Entry(c)
<1>1. PICK d \in Registered : index_[d] = j - 1
  BY DEF IInv, TableConsistent, NoOrphanSlot
<1>2. pollfds_[j] = Entry(d)
  BY <1>1 DEF Entry
<1>3. /\ fd_[c] \in Nat /\ fd_[d] \in Nat
      /\ Entry(d).fd \in {fd_[d], Ignored(fd_[d])}
  BY FdsAssumption DEF IInv, TypeOK, TableConsistent, SlotsMatch, Registered, Owned
<1>4. pollfds_'[index_'[c] + 1].fd \in {fd_[c], Ignored(fd_[c])}
  BY DEF IInv, TableConsistent, SlotsMatch, Entry, Ignored
<1>5. fd_[c] = fd_[d]
  BY <1>2, <1>3, <1>4 DEF Ignored
<1> QED
  BY <1>2, <1>5 DEF IInv, DistinctFds, Registered

\* Channel::update changes one slot, the updated channel's own, and there it
\* replaces the fd only to have it ignored.
LEMMA UpdateKeepsEntry ==
    ASSUME IInv, NEW d \in Channels, NEW ev, NEW nl, Update(d, ev, nl),
           NEW c \in Registered, events_'[c] = events_[c]
    PROVE  \/ pollfds_'[index_'[c] + 1].fd = Entry(c).fd
           \/ events_[c] = kNoneEvent
<1> USE DEF IInv
<1>1. /\ c \in Channels /\ c \in Owned /\ index_[c] \in Nat
      /\ index_[c] + 1 \in 1 .. Len(pollfds_)
  BY DEF TableConsistent, SlotsMatch, Registered, Owned, TypeOK
<1>2. d \in Owned /\ updateChannel(d, ev) /\ index_[d] \in Nat \cup {-1}
      /\ pollfds_ \in Seq([fd : Int, events : SUBSET Flags])
  BY DEF Update, TypeOK
<1>3. CASE index_[d] < 0
  <2>1. c /= d
    BY <1>1, <1>3
  <2>2. index_'[c] = index_[c]
    BY <1>1, <1>2, <1>3, <2>1 DEF updateChannel, TypeOK
  <2>3. pollfds_' = Append(pollfds_, PollFd(fd_[d], ev))
    BY <1>2, <1>3 DEF updateChannel
  <2>4. pollfds_'[index_[c] + 1] = pollfds_[index_[c] + 1]
    BY <1>1, <1>2, <2>3
  <2> QED
    BY <2>2, <2>4 DEF Entry
<1>4. CASE ~(index_[d] < 0)
  <2> DEFINE e == PollFd(IF ev = kNoneEvent THEN Ignored(fd_[d])
                                            ELSE Entry(d).fd, ev)
  <2>1. /\ pollfds_' = [pollfds_ EXCEPT ![index_[d] + 1] = e]
        /\ index_' = index_ /\ events_' = [events_ EXCEPT ![d] = ev]
    BY <1>2, <1>4 DEF updateChannel, Entry
  <2>2. d \in Registered /\ index_[d] \in Nat
    BY <1>2, <1>4 DEF Registered
  <2>3. CASE c = d
    <3>1. pollfds_'[index_'[c] + 1] = e
      BY <1>1, <1>2, <2>1, <2>3
    <3>2. ev = events_[c]
      BY <1>1, <2>1, <2>3 DEF TypeOK
    <3> QED
      BY <2>3, <3>1, <3>2 DEF PollFd
  <2>4. CASE c /= d
    <3>1. index_[c] /= index_[d]
      BY <2>2, <2>4, IndexInjective
    <3>2. pollfds_'[index_[c] + 1] = pollfds_[index_[c] + 1]
      BY <1>1, <1>2, <2>1, <2>2, <3>1
    <3> QED
      BY <2>1, <3>2 DEF Entry
  <2> QED
    BY <2>3, <2>4
<1> QED
  BY <1>2, <1>3, <1>4

\* removeChannel moves the last entry, but every entry that stays is one that
\* was there.
LEMMA RemoveKeepsEntry ==
    ASSUME IInv, IInv', NEW d \in Channels, Remove(d),
           NEW c \in Registered, c \in Registered'
    PROVE  pollfds_'[index_'[c] + 1] = Entry(c)
<1>1. life[d] = "disabled" /\ pollfds_' = SwapWithLastAndPop(pollfds_, index_[d] + 1)
      /\ fd_' = fd_
  BY DEF Remove, removeChannel
<1>2. d \in Registered
  BY <1>1 DEF IInv, DisabledIsRegistered, Registered, Owned
<1>3. Len(pollfds_) \in Nat /\ Len(pollfds_) - 1 \in Nat
  BY <1>2 DEF IInv, TypeOK, TableConsistent, SlotsMatch, Registered, Owned
<1> DEFINE n == Len(pollfds_)
           g == [k \in 1 .. n - 1 |-> IF k = index_[d] + 1 THEN pollfds_[n] ELSE pollfds_[k]]
           i == index_'[c] + 1
<1>4. pollfds_' = g
  BY <1>1 DEF SwapWithLastAndPop
<1>5. pollfds_' \in Seq([fd : Int, events : SUBSET Flags])
      /\ i \in 1 .. Len(pollfds_')
  BY DEF IInv, TypeOK, TableConsistent, SlotsMatch
<1>6. i \in DOMAIN pollfds_'
  BY <1>5
<1>7. i \in 1 .. n - 1
  BY <1>4, <1>6
<1>8. \E j \in 1 .. n : pollfds_'[i] = pollfds_[j]
  BY <1>3, <1>4, <1>7
<1> QED
  BY <1>1, <1>8, EntryFollows

\* An operation on one channel leaves what poll(2) watches for another as it
\* was, wherever the entries and the index_ of the others are moved.
THEOREM OthersAreUndisturbed == Spec => OthersUndisturbed
<1> DEFINE A == \A c \in Registered :
                  c \in Registered' /\ UNCHANGED <<events_[c], life[c]>>
                     => /\ index_'[c] + 1 \in 1 .. Len(pollfds_')
                        /\ pollfds_'[index_'[c] + 1].events = Entry(c).events
                        /\ \/ pollfds_'[index_'[c] + 1].fd = Entry(c).fd
                           \/ Entry(c).events = kNoneEvent
<1>1. IInv /\ IInv' /\ [Next]_vars => [A]_vars
  <2> SUFFICES ASSUME IInv, IInv', Next,
                      NEW c \in Registered, c \in Registered',
                      events_'[c] = events_[c], life'[c] = life[c]
               PROVE  /\ index_'[c] + 1 \in 1 .. Len(pollfds_')
                      /\ pollfds_'[index_'[c] + 1].events = Entry(c).events
                      /\ \/ pollfds_'[index_'[c] + 1].fd = Entry(c).fd
                         \/ Entry(c).events = kNoneEvent
    BY DEF A
  <2>1. /\ index_'[c] + 1 \in 1 .. Len(pollfds_')
        /\ pollfds_'[index_'[c] + 1].events = events_[c]
        /\ Entry(c).events = events_[c]
    BY DEF IInv, TableConsistent, SlotsMatch, Entry
  <2>2. \/ pollfds_'[index_'[c] + 1].fd = Entry(c).fd
        \/ events_[c] = kNoneEvent
    <3>0. c \in Channels /\ life[c] \notin {"none", "removed"}
      BY DEF Registered, Owned
    <3>1. ASSUME pollfds_' = pollfds_, index_'[c] = index_[c]
          PROVE  pollfds_'[index_'[c] + 1].fd = Entry(c).fd
      BY <3>1 DEF Entry
    <3>2. CASE Loop
      <4>1. pollfds_' = pollfds_ /\ index_' = index_
        BY <3>2 DEF Loop, Poll, fillActiveChannels, PollReturn, HandleEvent,
           CallbackReturn, DispatchDone, chanVars, pollVars
      <4> QED
        BY <3>1, <4>1
    <3>3. ASSUME NEW d \in Channels, Client(d)
          PROVE  \/ pollfds_'[index_'[c] + 1].fd = Entry(c).fd
                 \/ events_[c] = kNoneEvent
      <4>1. CASE (\E f \in Fds : NewChannel(d, f)) \/ Destroy(d)
        <5>1. life[d] \in {"none", "removed"} /\ pollfds_' = pollfds_
              /\ index_' = [index_ EXCEPT ![d] = -1]
          BY <4>1 DEF NewChannel, Destroy, MayDestroy, pollVars
        <5>2. index_'[c] = index_[c]
          BY <3>0, <5>1 DEF IInv, TypeOK
        <5> QED
          BY <3>1, <5>1, <5>2
      <4>2. CASE enableReading(d) \/ enableWriting(d) \/ disableWriting(d) \/ disableAll(d)
        <5>1. PICK ev, nl : Update(d, ev, nl)
          BY <4>2 DEF enableReading, enableWriting, disableWriting, disableAll
        <5> QED
          BY <5>1, UpdateKeepsEntry
      <4>3. CASE Remove(d)
        BY <4>3, RemoveKeepsEntry
      <4> QED
        BY <3>3, <4>1, <4>2, <4>3 DEF Client
    <3> QED
      BY <3>2, <3>3 DEF Next
  <2> QED
    BY <2>1, <2>2
<1>2. Spec => [][A]_vars
  BY <1>1, Invariance, PTL DEF Spec
<1> QED
  BY <1>2 DEF OthersUndisturbed

============================================================================
