--------------------------- MODULE EPollerProofs ---------------------------
(* For any set of channels and any set of fds: index_ agrees with the      *)
(* kernel's table, and EPoller implements InterestTable.                   *)
EXTENDS EPoller, TLAPS

\* An fd has at most one channel that is in use.
OneChannelPerFd == \A c, d \in Owned : fd_[c] = fd_[d] => c = d

\* What is not registered asks for nothing, and neither does what its owner
\* has disabled.
SilentUnlessAdded ==
    /\ \A c \in Owned : index_[c] /= kAdded => events_[c] = kNoneEvent
    /\ \A c \in Channels : life[c] = "disabled" => events_[c] = kNoneEvent

\* The channel's own entry: RegistrationAgrees without the quantifier.
EntryIsOwn ==
    \A c \in Owned : index_[c] = kAdded
        => epoll[fd_[c]] = [ptr |-> c, events |-> events_[c]]

IInv ==
    /\ TypeOK
    /\ OneChannelPerFd
    /\ SilentUnlessAdded
    /\ RegistrationAgrees
    /\ EntryIsOwn

----------------------------------------------------------------------------
(* Masks and maps.                                                         *)

\* The masks of Channel.cpp are sets of flags, and FlagsOf gives such sets.
LEMMA Masks == /\ kNoneEvent = {} /\ kReadEvent \subseteq Flags
               /\ kWriteEvent \subseteq Flags
BY DEF kNoneEvent, kReadEvent, kWriteEvent, FlagsOf

\* The three indices are different.
LEMMA Indices == kNew /= kAdded /\ kNew /= kDeleted /\ kAdded /= kDeleted
BY DEF kNew, kAdded, kDeleted

\* Adding an entry keeps the type of a map.
LEMMA WithType ==
    ASSUME NEW map, NEW A, NEW B, DOMAIN map \subseteq A,
           map \in [DOMAIN map -> B], NEW f \in A, NEW v \in B
    PROVE  /\ DOMAIN With(map, f, v) \subseteq A
           /\ With(map, f, v) \in [DOMAIN With(map, f, v) -> B]
BY DEF With

\* Deleting one too.
LEMMA WithoutType ==
    ASSUME NEW map, NEW A, NEW B, DOMAIN map \subseteq A,
           map \in [DOMAIN map -> B], NEW f
    PROVE  /\ DOMAIN Without(map, f) \subseteq A
           /\ Without(map, f) \in [DOMAIN Without(map, f) -> B]
BY DEF Without

----------------------------------------------------------------------------
(* The operations.                                                         *)

\* What updateChannel does to the tables when IInv holds: the entry of c
\* follows its new events, no epoll_ctl is refused.
UpdateEffect(c, ev) ==
    /\ refused' = refused
    /\ events_' = [events_ EXCEPT ![c] = ev]
    /\ channels_' = IF index_[c] = kNew THEN With(channels_, fd_[c], c)
                                        ELSE channels_
    /\ \/ /\ index_[c] = kAdded /\ ev = kNoneEvent
          /\ index_' = [index_ EXCEPT ![c] = kDeleted]
          /\ epoll' = Without(epoll, fd_[c])
       \/ /\ index_[c] /= kAdded \/ ev /= kNoneEvent
          /\ index_' = [index_ EXCEPT ![c] = kAdded]
          /\ epoll' = With(epoll, fd_[c], [ptr |-> c, events |-> ev])

\* updateChannel has that effect.
LEMMA UpdateChannel ==
    ASSUME IInv, NEW c \in Owned, NEW ev \in SUBSET Flags, updateChannel(c, ev)
    PROVE  UpdateEffect(c, ev)
<1>1. c \in Channels /\ index_[c] \in {kNew, kAdded, kDeleted}
      /\ index_ \in [Channels -> {kNew, kAdded, kDeleted}]
  BY DEF IInv, TypeOK, Owned
<1>2. index_[c] = kAdded <=> fd_[c] \in DOMAIN epoll
  BY DEF IInv, RegistrationAgrees
<1>3. refused \in BOOLEAN
  BY DEF IInv, TypeOK
<1>4. CASE index_[c] \in {kNew, kDeleted}
  BY <1>1, <1>2, <1>3, <1>4, Indices DEF updateChannel, update, UpdateEffect
<1>5. CASE index_[c] = kAdded /\ ev = kNoneEvent
  BY <1>1, <1>2, <1>3, <1>5, Indices DEF updateChannel, update, UpdateEffect
<1>6. CASE index_[c] = kAdded /\ ev /= kNoneEvent
  <2>1. [index_ EXCEPT ![c] = kAdded] = index_
    BY <1>1, <1>6
  <2> QED
    BY <1>1, <1>2, <1>3, <1>6, <2>1, Indices
    DEF updateChannel, update, UpdateEffect
<1> QED
  BY <1>1, <1>4, <1>5, <1>6

\* An update preserves the invariant.
LEMMA UpdateInv ==
    ASSUME IInv, NEW c \in Channels, NEW ev \in SUBSET Flags,
           NEW newLife \in {"inUse", "disabled"},
           newLife = "disabled" => ev = kNoneEvent,
           Update(c, ev, newLife)
    PROVE  IInv' /\ UpdateEffect(c, ev) /\ c \in Owned /\ Owned' = Owned
<1> USE DEF Update
<1>1. c \in Owned /\ UpdateEffect(c, ev)
  BY UpdateChannel
<1>2. Owned' = Owned
  BY <1>1 DEF IInv, TypeOK, Owned, Lives
<1>3. TypeOK'
  <2>1. [ptr |-> c, events |-> ev] \in [ptr : Channels, events : SUBSET Flags]
    OBVIOUS
  <2>2. fd_[c] \in Fds
    BY DEF IInv, TypeOK
  <2>3. /\ DOMAIN epoll' \subseteq Fds
        /\ epoll' \in [DOMAIN epoll' -> [ptr : Channels, events : SUBSET Flags]]
    <3>1. CASE epoll' = Without(epoll, fd_[c])
      BY <3>1, WithoutType DEF IInv, TypeOK
    <3>2. CASE epoll' = With(epoll, fd_[c], [ptr |-> c, events |-> ev])
      <4>1. /\ DOMAIN epoll \subseteq Fds
            /\ epoll \in [DOMAIN epoll -> [ptr : Channels, events : SUBSET Flags]]
        BY DEF IInv, TypeOK
      <4> HIDE DEF Update
      <4> QED
        BY <3>2, <4>1, <2>1, <2>2 DEF With
    <3> QED
      BY <1>1, <3>1, <3>2 DEF UpdateEffect
  <2>4. DOMAIN channels_' \subseteq Fds /\ channels_' \in [DOMAIN channels_' -> Channels]
    <3>1. CASE channels_' = channels_
      BY <3>1 DEF IInv, TypeOK
    <3>2. CASE channels_' = With(channels_, fd_[c], c)
      BY <3>2, <2>2, WithType DEF IInv, TypeOK
    <3> QED
      BY <1>1, <3>1, <3>2 DEF UpdateEffect
  <2>5. life' \in [Channels -> Lives] /\ fd_' \in [Channels -> Fds]
        /\ events_' \in [Channels -> SUBSET Flags]
        /\ index_' \in [Channels -> {kNew, kAdded, kDeleted}]
    BY <1>1 DEF IInv, TypeOK, UpdateEffect, Lives
  <2>6. refused' \in BOOLEAN /\ aborted' \in BOOLEAN
    BY <1>1 DEF IInv, TypeOK, UpdateEffect
  <2> QED
    BY <2>3, <2>4, <2>5, <2>6 DEF TypeOK
<1>4. OneChannelPerFd'
  BY <1>2 DEF IInv, OneChannelPerFd
<1>5. /\ index_'[c] = kAdded \/ (index_'[c] = kDeleted /\ ev = kNoneEvent)
      /\ events_'[c] = ev
      /\ \A d \in Channels : d /= c => index_'[d] = index_[d] /\ events_'[d] = events_[d]
  BY <1>1 DEF IInv, TypeOK, UpdateEffect
<1>6. SilentUnlessAdded'
  <2>1. \A d \in Owned' : index_'[d] /= kAdded => events_'[d] = kNoneEvent
    BY <1>2, <1>5, Indices DEF IInv, SilentUnlessAdded, Owned
  <2>2. \A d \in Channels : life'[d] = "disabled" => events_'[d] = kNoneEvent
    BY <1>5 DEF IInv, TypeOK, SilentUnlessAdded
  <2> QED
    BY <2>1, <2>2 DEF SilentUnlessAdded
<1>7. \A d \in Owned : d /= c => fd_[d] /= fd_[c]
  BY <1>1 DEF IInv, OneChannelPerFd
<1>8. /\ index_'[c] = kAdded <=> fd_[c] \in DOMAIN epoll'
      /\ index_'[c] = kAdded => epoll'[fd_[c]] = [ptr |-> c, events |-> ev]
      /\ \A f : f /= fd_[c] => (f \in DOMAIN epoll' <=> f \in DOMAIN epoll)
      /\ \A f \in DOMAIN epoll : f /= fd_[c] => epoll'[f] = epoll[f]
  <2>1. CASE index_[c] = kAdded /\ ev = kNoneEvent
    <3>1. index_'[c] = kDeleted /\ epoll' = Without(epoll, fd_[c])
      BY <1>1, <2>1 DEF UpdateEffect, IInv, TypeOK
    <3> HIDE DEF Update
    <3>2. /\ DOMAIN epoll' = DOMAIN epoll \ {fd_[c]}
          /\ \A f \in DOMAIN epoll : f /= fd_[c] => epoll'[f] = epoll[f]
      BY <3>1 DEF With, Without
    <3> QED
      BY <3>1, <3>2, Indices
  <2>2. CASE ~(index_[c] = kAdded /\ ev = kNoneEvent)
    <3>1. /\ index_'[c] = kAdded
          /\ epoll' = With(epoll, fd_[c], [ptr |-> c, events |-> ev])
      BY <1>1, <2>2 DEF UpdateEffect, IInv, TypeOK
    <3> HIDE DEF Update
    <3> DEFINE v == [ptr |-> c, events |-> ev]
    <3>2. /\ DOMAIN epoll' = DOMAIN epoll \cup {fd_[c]}
          /\ epoll'[fd_[c]] = v
          /\ \A f \in DOMAIN epoll : f /= fd_[c] => epoll'[f] = epoll[f]
      <4> HIDE DEF v
      <4> QED
        BY <3>1 DEF v, With
    <3> QED
      BY <3>1, <3>2
  <2> QED
    BY <2>1, <2>2
<1>9. /\ fd_[c] \in DOMAIN channels_' /\ channels_'[fd_[c]] = c
      /\ \A f : f /= fd_[c] => (f \in DOMAIN channels_' <=> f \in DOMAIN channels_)
      /\ \A f \in DOMAIN channels_ : f /= fd_[c] => channels_'[f] = channels_[f]
  <2>1. CASE index_[c] = kNew
    <3>1. channels_' = With(channels_, fd_[c], c)
      BY <1>1, <2>1 DEF UpdateEffect
    <3> HIDE DEF Update
    <3>2. /\ DOMAIN channels_' = DOMAIN channels_ \cup {fd_[c]}
          /\ channels_'[fd_[c]] = c
          /\ \A f \in DOMAIN channels_ : f /= fd_[c] => channels_'[f] = channels_[f]
      BY <3>1 DEF With, Without
    <3> QED
      BY <3>2
  <2>2. CASE index_[c] /= kNew
    <3>1. channels_' = channels_ /\ fd_[c] \in DOMAIN channels_
      BY <1>1, <2>2 DEF UpdateEffect, IInv, RegistrationAgrees
    <3>2. channels_[fd_[c]] \in Owned /\ fd_[channels_[fd_[c]]] = fd_[c]
      BY <3>1 DEF IInv, RegistrationAgrees
    <3>3. channels_[fd_[c]] = c
      BY <3>2, <1>1 DEF IInv, OneChannelPerFd
    <3> QED
      BY <3>1, <3>3
  <2> QED
    BY <2>1, <2>2
<1>10. RegistrationAgrees'
  <2>1. ~refused'
    BY <1>1 DEF UpdateEffect, IInv, RegistrationAgrees
  <2>2. ASSUME NEW d \in Owned
        PROVE  /\ index_'[d] = kAdded <=> fd_[d] \in DOMAIN epoll'
               /\ index_'[d] /= kNew <=> fd_[d] \in DOMAIN channels_'
    <3>1. CASE d = c
      BY <3>1, <1>5, <1>8, <1>9, Indices
    <3>2. CASE d /= c
      BY <3>2, <1>5, <1>7, <1>8, <1>9 DEF IInv, RegistrationAgrees, Owned
    <3> QED
      BY <3>1, <3>2
  <2>3. ASSUME NEW f \in DOMAIN epoll'
        PROVE  \E d \in Owned :
                  fd_[d] = f /\ epoll'[f] = [ptr |-> d, events |-> events_'[d]]
    <3>1. CASE f = fd_[c]
      BY <3>1, <1>1, <1>5, <1>8
    <3>2. CASE f /= fd_[c]
      <4>1. f \in DOMAIN epoll /\ epoll'[f] = epoll[f]
        BY <3>2, <1>8
      <4>2. PICK d \in Owned : fd_[d] = f /\ epoll[f] = [ptr |-> d, events |-> events_[d]]
        BY <4>1 DEF IInv, RegistrationAgrees
      <4>3. d \in Channels /\ d /= c
        BY <4>2, <3>2 DEF Owned
      <4> QED
        BY <4>1, <4>2, <4>3, <1>5
    <3> QED
      BY <3>1, <3>2
  <2>4. ASSUME NEW f \in DOMAIN channels_'
        PROVE  channels_'[f] \in Owned /\ fd_[channels_'[f]] = f
    <3>1. CASE f = fd_[c]
      BY <3>1, <1>1, <1>9
    <3>2. CASE f /= fd_[c]
      BY <3>2, <1>9 DEF IInv, RegistrationAgrees
    <3> QED
      BY <3>1, <3>2
  <2> QED
    BY <2>1, <2>2, <2>3, <2>4, <1>2 DEF RegistrationAgrees
<1>11. EntryIsOwn'
  <2> SUFFICES ASSUME NEW d \in Owned, index_'[d] = kAdded
               PROVE  epoll'[fd_[d]] = [ptr |-> d, events |-> events_'[d]]
    BY <1>2 DEF EntryIsOwn
  <2>1. CASE d = c
    BY <2>1, <1>5, <1>8
  <2>2. CASE d /= c
    <3>1. d \in Channels /\ index_[d] = kAdded /\ events_'[d] = events_[d]
      BY <2>2, <1>5 DEF Owned
    <3>2. fd_[d] \in DOMAIN epoll /\ fd_[d] /= fd_[c]
      BY <3>1, <2>2, <1>7 DEF IInv, RegistrationAgrees
    <3> QED
      BY <3>1, <3>2, <1>8 DEF IInv, EntryIsOwn
  <2> QED
    BY <2>1, <2>2
<1> QED
  BY <1>1, <1>2, <1>3, <1>4, <1>6, <1>10, <1>11 DEF IInv

\* A new channel for an fd without one preserves it: no table knows the fd.
LEMMA NewChannelInv ==
    ASSUME IInv, NEW c \in Channels, NEW f \in Fds, NewChannel(c, f)
    PROVE  IInv' /\ Owned' = Owned \cup {c} /\ c \notin Owned
<1> USE DEF NewChannel
<1>1. Owned' = Owned \cup {c} /\ c \notin Owned
  BY DEF IInv, TypeOK, Owned, Lives
<1>2. TypeOK'
  BY Masks DEF IInv, TypeOK, Lives
<1>3. /\ fd_'[c] = f /\ events_'[c] = kNoneEvent /\ index_'[c] = kNew
      /\ \A d \in Owned : /\ d \in Channels /\ d /= c
                          /\ fd_'[d] = fd_[d] /\ fd_[d] /= f
                          /\ events_'[d] = events_[d] /\ index_'[d] = index_[d]
  BY <1>1 DEF IInv, TypeOK, Owned
<1>4. OneChannelPerFd'
  BY <1>1, <1>3 DEF IInv, OneChannelPerFd
<1>5. SilentUnlessAdded'
  <2>1. \A d \in Owned' : index_'[d] /= kAdded => events_'[d] = kNoneEvent
    BY <1>1, <1>3 DEF IInv, SilentUnlessAdded
  <2>2. \A d \in Channels : life'[d] = "disabled" => events_'[d] = kNoneEvent
    BY DEF IInv, TypeOK, SilentUnlessAdded
  <2> QED
    BY <2>1, <2>2 DEF SilentUnlessAdded
<1>6. f \notin DOMAIN epoll /\ f \notin DOMAIN channels_
  BY <1>3 DEF IInv, RegistrationAgrees
<1>7. RegistrationAgrees'
  <2>1. \A d \in Owned' :
          /\ index_'[d] = kAdded <=> fd_'[d] \in DOMAIN epoll
          /\ index_'[d] /= kNew <=> fd_'[d] \in DOMAIN channels_
    BY <1>1, <1>3, <1>6, Indices DEF IInv, RegistrationAgrees
  <2>2. ASSUME NEW g \in DOMAIN epoll
        PROVE  \E d \in Owned' :
                  fd_'[d] = g /\ epoll[g] = [ptr |-> d, events |-> events_'[d]]
    <3>1. PICK d \in Owned : fd_[d] = g /\ epoll[g] = [ptr |-> d, events |-> events_[d]]
      BY DEF IInv, RegistrationAgrees
    <3> QED
      BY <1>1, <1>3, <3>1
  <2>3. \A g \in DOMAIN channels_ : channels_[g] \in Owned' /\ fd_'[channels_[g]] = g
    BY <1>1, <1>3 DEF IInv, RegistrationAgrees
  <2>4. ~refused'
    BY DEF IInv, RegistrationAgrees
  <2> QED
    BY <2>1, <2>2, <2>3, <2>4 DEF RegistrationAgrees
<1>8. EntryIsOwn'
  BY <1>1, <1>3, Indices DEF IInv, EntryIsOwn
<1> QED
  BY <1>1, <1>2, <1>4, <1>5, <1>7, <1>8 DEF IInv

\* removeChannel erases both entries, an entry for no event included.
LEMMA RemoveInv ==
    ASSUME IInv, NEW c \in Channels, Remove(c)
    PROVE  IInv' /\ c \in Owned /\ Owned' = Owned \ {c}
<1> USE DEF Remove
<1>1. c \in Owned /\ Owned' = Owned \ {c}
  BY DEF IInv, TypeOK, Owned, Lives
<1>2. index_[c] = kAdded <=> fd_[c] \in DOMAIN epoll
  BY <1>1 DEF IInv, RegistrationAgrees
<1>3. /\ refused' = refused
      /\ DOMAIN epoll' = DOMAIN epoll \ {fd_[c]}
      /\ \A g \in DOMAIN epoll : g /= fd_[c] => epoll'[g] = epoll[g]
  <2>0. refused \in BOOLEAN /\ epoll \in [DOMAIN epoll -> [ptr : Channels, events : SUBSET Flags]]
    BY DEF IInv, TypeOK
  <2>1. CASE index_[c] = kAdded
    BY <1>2, <2>0, <2>1 DEF removeChannel, update, Without
  <2>2. CASE index_[c] /= kAdded
    BY <1>2, <2>0, <2>2 DEF removeChannel
  <2> QED
    BY <2>1, <2>2
<1>4. /\ DOMAIN channels_' = DOMAIN channels_ \ {fd_[c]}
      /\ \A g \in DOMAIN channels_ : g /= fd_[c] => channels_'[g] = channels_[g]
  BY DEF removeChannel, Without
<1>5. \A d \in Owned' : /\ d \in Owned /\ d \in Channels /\ d /= c
                        /\ fd_[d] /= fd_[c] /\ index_'[d] = index_[d]
  BY <1>1 DEF IInv, TypeOK, OneChannelPerFd, Owned, removeChannel
<1>6. TypeOK'
  <2>1. DOMAIN epoll' \subseteq Fds
        /\ epoll' \in [DOMAIN epoll' -> [ptr : Channels, events : SUBSET Flags]]
    <3>1. epoll' = epoll \/ epoll' = Without(epoll, fd_[c])
      BY DEF removeChannel, update
    <3>2. /\ DOMAIN epoll \subseteq Fds
          /\ epoll \in [DOMAIN epoll -> [ptr : Channels, events : SUBSET Flags]]
      BY DEF IInv, TypeOK
    <3>3. CASE epoll' = epoll
      BY <3>2, <3>3
    <3>4. CASE epoll' = Without(epoll, fd_[c])
      BY <3>2, <3>4 DEF Without
    <3> QED
      BY <3>1, <3>3, <3>4
  <2>2. DOMAIN channels_' \subseteq Fds /\ channels_' \in [DOMAIN channels_' -> Channels]
    <3>1. channels_' = Without(channels_, fd_[c])
      BY DEF removeChannel
    <3> QED
      BY <3>1, WithoutType DEF IInv, TypeOK
  <2>3. life' \in [Channels -> Lives] /\ index_' \in [Channels -> {kNew, kAdded, kDeleted}]
    BY DEF IInv, TypeOK, Lives, removeChannel
  <2> QED
    BY <2>1, <2>2, <2>3, <1>3 DEF IInv, TypeOK
<1>7. OneChannelPerFd'
  BY <1>5 DEF IInv, OneChannelPerFd
<1>8. SilentUnlessAdded'
  <2>1. \A d \in Owned' : index_'[d] /= kAdded => events_[d] = kNoneEvent
    BY <1>5 DEF IInv, SilentUnlessAdded
  <2>2. \A d \in Channels : life'[d] = "disabled" => events_[d] = kNoneEvent
    BY DEF IInv, TypeOK, SilentUnlessAdded
  <2> QED
    BY <2>1, <2>2 DEF SilentUnlessAdded
<1>9. RegistrationAgrees'
  <2>1. \A d \in Owned' :
          /\ index_'[d] = kAdded <=> fd_[d] \in DOMAIN epoll'
          /\ index_'[d] /= kNew <=> fd_[d] \in DOMAIN channels_'
    BY <1>3, <1>4, <1>5 DEF IInv, RegistrationAgrees
  <2>2. ASSUME NEW g \in DOMAIN epoll'
        PROVE  \E d \in Owned' :
                  fd_[d] = g /\ epoll'[g] = [ptr |-> d, events |-> events_[d]]
    <3>1. g \in DOMAIN epoll /\ g /= fd_[c] /\ epoll'[g] = epoll[g]
      BY <1>3
    <3>2. PICK d \in Owned : fd_[d] = g /\ epoll[g] = [ptr |-> d, events |-> events_[d]]
      BY <3>1 DEF IInv, RegistrationAgrees
    <3> QED
      BY <1>1, <3>1, <3>2
  <2>3. \A g \in DOMAIN channels_' : channels_'[g] \in Owned' /\ fd_[channels_'[g]] = g
    BY <1>1, <1>4 DEF IInv, RegistrationAgrees
  <2>4. ~refused'
    BY <1>3 DEF IInv, RegistrationAgrees
  <2> QED
    BY <2>1, <2>2, <2>3, <2>4 DEF RegistrationAgrees
<1>10. EntryIsOwn'
  <2> SUFFICES ASSUME NEW d \in Owned', index_'[d] = kAdded
               PROVE  epoll'[fd_[d]] = [ptr |-> d, events |-> events_[d]]
    BY DEF EntryIsOwn
  <2>1. d \in Owned /\ index_[d] = kAdded /\ fd_[d] /= fd_[c]
    BY <1>5
  <2>2. fd_[d] \in DOMAIN epoll
    BY <2>1 DEF IInv, RegistrationAgrees
  <2> QED
    BY <2>1, <2>2, <1>3 DEF IInv, EntryIsOwn
<1> QED
  BY <1>1, <1>6, <1>7, <1>8, <1>9, <1>10 DEF IInv

\* ~Channel and poll touch no table.
LEMMA DestroyInv ==
    ASSUME IInv, NEW c \in Channels, Destroy(c)
    PROVE  IInv' /\ Owned' = Owned
<1> USE DEF Destroy
<1>1. Owned' = Owned
  BY DEF IInv, TypeOK, Owned, Lives
<1>2. TypeOK'
  BY DEF IInv, TypeOK, Lives
<1>3. \A d \in Channels : life'[d] = "disabled" => life[d] = "disabled"
  BY DEF IInv, TypeOK
<1> QED
  BY <1>1, <1>2, <1>3
  DEF IInv, OneChannelPerFd, SilentUnlessAdded, RegistrationAgrees, EntryIsOwn

LEMMA PollInv ==
    ASSUME IInv, NEW n \in Int, poll(n)
    PROVE  IInv' /\ Owned' = Owned
BY DEF poll, chanVars, IInv, TypeOK, Owned, OneChannelPerFd, SilentUnlessAdded,
       RegistrationAgrees, EntryIsOwn

----------------------------------------------------------------------------
(* The abstract table.                                                     *)

\* What an fd is asked for is what its channel asks for, or nothing.
LEMMA AskedIsEvents ==
    ASSUME IInv, NEW f
    PROVE  /\ \A c \in Owned : fd_[c] = f => Asked(f) = events_[c]
           /\ (\A c \in Owned : fd_[c] /= f) => Asked(f) = {}
           /\ Asked(f) \in SUBSET Flags
<1>1. ASSUME NEW c \in Owned, fd_[c] = f
      PROVE  Asked(f) = events_[c]
  <2>1. {d \in Owned : fd_[d] = f} = {c}
    BY <1>1 DEF IInv, OneChannelPerFd
  <2>2. {events_[d] : d \in {c}} = {events_[c]}
    OBVIOUS
  <2> QED
    BY <2>1, <2>2 DEF Asked
<1>2. ASSUME \A c \in Owned : fd_[c] /= f
      PROVE  Asked(f) = {}
  BY <1>2 DEF Asked
<1>3. \A c \in Owned : events_[c] \in SUBSET Flags
  BY DEF IInv, TypeOK, Owned
<1> QED
  BY <1>1, <1>2, <1>3

\* The kernel watches for what was asked.
LEMMA WatchedIsAsked ==
    ASSUME IInv, NEW f \in Fds
    PROVE  Watched(f) = Asked(f)
<1>1. CASE \A c \in Owned : fd_[c] /= f
  <2>1. f \notin DOMAIN epoll
    BY <1>1 DEF IInv, RegistrationAgrees
  <2> QED
    BY <1>1, <2>1, AskedIsEvents DEF Watched, kNoneEvent
<1>2. ASSUME NEW c \in Owned, fd_[c] = f
      PROVE  Watched(f) = Asked(f)
  <2>1. Asked(f) = events_[c]
    BY <1>2, AskedIsEvents
  <2>2. CASE index_[c] = kAdded
    <3>1. f \in DOMAIN epoll /\ epoll[f] = [ptr |-> c, events |-> events_[c]]
      BY <1>2, <2>2 DEF IInv, RegistrationAgrees, EntryIsOwn
    <3> QED
      BY <2>1, <3>1 DEF Watched
  <2>3. CASE index_[c] /= kAdded
    <3>1. f \notin DOMAIN epoll /\ events_[c] = kNoneEvent
      BY <1>2, <2>3 DEF IInv, RegistrationAgrees, SilentUnlessAdded
    <3> QED
      BY <2>1, <3>1 DEF Watched
  <2> QED
    BY <2>2, <2>3
<1> QED
  BY <1>1, <1>2


\* Both lemmas, as a state predicate.
TableAgrees ==
    \A f \in Fds : Watched(f) = Asked(f) /\ Asked(f) \in SUBSET Flags

LEMMA InvAgrees == IInv => TableAgrees
BY WatchedIsAsked, AskedIsEvents DEF TableAgrees

\* A step that changes what is asked of one fd only is a step of the table.
LEMMA StepIsAsk ==
    ASSUME TableAgrees', NEW f \in Fds,
           \A g \in Fds : g /= f => Asked(g)' = Asked(g)
    PROVE  Interest!Next
<1>1. \A g \in Fds : Watched(g)' = Asked(g)' /\ Asked(g)' \in SUBSET Flags
  BY DEF TableAgrees
<1>2. [g \in Fds |-> Watched(g)]' = [g \in Fds |-> Asked(g)]'
  BY <1>1
<1>3. [g \in Fds |-> Asked(g)]' = [[g \in Fds |-> Asked(g)] EXCEPT ![f] = Asked(f)']
  OBVIOUS
<1>4. Interest!Ask(f, Asked(f)')
  BY <1>2, <1>3 DEF Interest!Ask
<1> QED
  BY <1>1, <1>4 DEF Interest!Next

----------------------------------------------------------------------------
(* The steps.                                                              *)

\* Every mask an owner asks for is a set of flags.
LEMMA AskedMasks ==
    ASSUME IInv, NEW c \in Channels
    PROVE  /\ events_[c] \cup kReadEvent \in SUBSET Flags
           /\ events_[c] \cup kWriteEvent \in SUBSET Flags
           /\ events_[c] \ kWriteEvent \in SUBSET Flags
           /\ kNoneEvent \in SUBSET Flags
<1>1. events_[c] \in SUBSET Flags
  BY DEF IInv, TypeOK
<1> QED
  BY <1>1, Masks

\* An Update concerns the fd of its channel.
LEMMA UpdateAsks ==
    ASSUME IInv, NEW c \in Channels, NEW ev \in SUBSET Flags,
           NEW newLife \in {"inUse", "disabled"},
           newLife = "disabled" => ev = kNoneEvent,
           Update(c, ev, newLife)
    PROVE  IInv' /\ Interest!Next
<1>1. IInv' /\ UpdateEffect(c, ev) /\ c \in Owned /\ Owned' = Owned
  BY UpdateInv
<1>2. fd_[c] \in Fds
  BY DEF IInv, TypeOK
<1>3. fd_' = fd_ /\ \A d \in Channels : d /= c => events_'[d] = events_[d]
  BY <1>1 DEF Update, UpdateEffect, IInv, TypeOK
<1>4. ASSUME NEW g \in Fds, g /= fd_[c]
      PROVE  Asked(g)' = Asked(g)
  <2> DEFINE S == {d \in Owned : fd_[d] = g}
  <2>1. S' = S /\ \A d \in S : events_'[d] = events_[d]
    BY <1>1, <1>3, <1>4 DEF Owned
  <2>2. {events_'[d] : d \in S'} = {events_[d] : d \in S}
    <3> HIDE DEF S
    <3> QED
      BY <2>1
  <2> QED
    BY <2>2 DEF Asked
<1>5. TableAgrees'
  BY <1>1, InvAgrees, PTL
<1> QED
  BY <1>1, <1>2, <1>4, <1>5, StepIsAsk

\* A step of an owner is a step of the table, a stutter included.
LEMMA OwnerStep ==
    ASSUME IInv, NEW c \in Channels, Owner(c)
    PROVE  IInv' /\ Interest!Next
<1>1. ASSUME NEW f \in Fds, NewChannel(c, f) PROVE IInv' /\ Interest!Next
  <2>1. IInv' /\ Owned' = Owned \cup {c} /\ c \notin Owned
    BY <1>1, NewChannelInv
  <2>2. /\ fd_'[c] = f
        /\ \A d \in Owned : d /= c /\ fd_'[d] = fd_[d] /\ events_'[d] = events_[d]
    BY <1>1, <2>1 DEF NewChannel, IInv, TypeOK, Owned
  <2>3. ASSUME NEW g \in Fds, g /= f PROVE Asked(g)' = Asked(g)
    <3> DEFINE S == {d \in Owned : fd_[d] = g}
    <3>1. S' = S /\ \A d \in S : events_'[d] = events_[d]
      BY <2>1, <2>2, <2>3
    <3>2. {events_'[d] : d \in S'} = {events_[d] : d \in S}
      <4> HIDE DEF S
      <4> QED
        BY <3>1
    <3> QED
      BY <3>2 DEF Asked
  <2>4. TableAgrees'
    BY <2>1, InvAgrees, PTL
  <2> QED
    BY <2>1, <2>3, <2>4, StepIsAsk
<1>2. CASE enableReading(c)
  BY <1>2, AskedMasks, UpdateAsks DEF enableReading
<1>3. CASE enableWriting(c)
  BY <1>3, AskedMasks, UpdateAsks DEF enableWriting
<1>4. CASE disableWriting(c)
  BY <1>4, AskedMasks, UpdateAsks DEF disableWriting
<1>5. CASE disableAll(c)
  BY <1>5, AskedMasks, UpdateAsks DEF disableAll
<1>6. CASE Remove(c)
  <2>1. IInv' /\ c \in Owned /\ Owned' = Owned \ {c}
    BY <1>6, RemoveInv
  <2>2. fd_[c] \in Fds /\ fd_' = fd_ /\ events_' = events_
    BY <1>6 DEF IInv, TypeOK, Remove
  <2>3. ASSUME NEW g \in Fds, g /= fd_[c] PROVE Asked(g)' = Asked(g)
    BY <2>1, <2>2, <2>3 DEF Asked
  <2>4. TableAgrees'
    BY <2>1, InvAgrees, PTL
  <2> QED
    BY <2>1, <2>2, <2>3, <2>4, StepIsAsk
<1>7. CASE Destroy(c)
  <2>1. IInv' /\ Owned' = Owned
    BY <1>7, DestroyInv
  <2>2. fd_[c] \in Fds /\ fd_' = fd_ /\ events_' = events_
    BY <1>7 DEF IInv, TypeOK, Destroy
  <2>3. ASSUME NEW g \in Fds PROVE Asked(g)' = Asked(g)
    BY <2>1, <2>2 DEF Asked
  <2>4. TableAgrees'
    BY <2>1, InvAgrees, PTL
  <2> QED
    BY <2>1, <2>2, <2>3, <2>4, StepIsAsk
<1> QED
  BY <1>1, <1>2, <1>3, <1>4, <1>5, <1>6, <1>7 DEF Owner

----------------------------------------------------------------------------
(* The theorems.                                                           *)

\* Nothing is registered at first.
LEMMA InitInv == Init => IInv
<1> SUFFICES ASSUME Init PROVE IInv
  OBVIOUS
<1>1. Owned = {} /\ DOMAIN channels_ = {} /\ DOMAIN epoll = {}
  BY DEF Init, Owned
<1>2. TypeOK
  BY <1>1, Masks DEF Init, TypeOK, Lives
<1>3. \A c \in Channels : life[c] /= "disabled"
  BY DEF Init
<1> QED
  BY <1>1, <1>2, <1>3
  DEF IInv, OneChannelPerFd, SilentUnlessAdded, RegistrationAgrees, EntryIsOwn, Init

\* The invariant is inductive, and a step is one of the table or a stutter.
LEMMA NextStep ==
    IInv /\ [Next]_vars
        => IInv' /\ [Interest!Next]_<<[f \in Fds |-> Asked(f)], [f \in Fds |-> Watched(f)]>>
<1> SUFFICES ASSUME IInv, [Next]_vars
             PROVE  IInv' /\ [Interest!Next]_<<[f \in Fds |-> Asked(f)], [f \in Fds |-> Watched(f)]>>
  OBVIOUS
<1>1. ASSUME NEW c \in Channels, Owner(c) PROVE IInv' /\ Interest!Next
  BY <1>1, OwnerStep
<1>2. ASSUME UNCHANGED <<chanVars, channels_, epoll>>
      PROVE  /\ [f \in Fds |-> Asked(f)]' = [f \in Fds |-> Asked(f)]
             /\ [f \in Fds |-> Watched(f)]' = [f \in Fds |-> Watched(f)]
  BY <1>2 DEF chanVars, Asked, Watched, Owned
<1>3. ASSUME NEW n \in Int, poll(n)
      PROVE  IInv' /\ UNCHANGED <<chanVars, channels_, epoll>>
  BY <1>3, PollInv DEF poll
<1>4. CASE UNCHANGED vars
  <2>1. IInv'
    BY <1>4 DEF vars, chanVars, IInv, TypeOK, Owned, OneChannelPerFd,
                SilentUnlessAdded, RegistrationAgrees, EntryIsOwn
  <2>2. UNCHANGED <<chanVars, channels_, epoll>>
    BY <1>4 DEF vars
  <2> QED
    BY <2>1, <2>2, <1>2
<1>5. CASE Next
  <2>1. CASE \E c \in Channels : Owner(c)
    BY <1>1, <2>1
  <2>2. CASE \E n \in -1 .. Cardinality(DOMAIN epoll) : poll(n)
    BY <1>2, <1>3, <2>2
  <2> QED
    BY <1>5, <2>1, <2>2 DEF Next
<1> QED
  BY <1>4, <1>5

\* The inductive invariant holds.
THEOREM Invariance == Spec => []IInv
<1>1. IInv /\ [Next]_vars => IInv'
  BY NextStep
<1> QED
  BY InitInv, <1>1, PTL DEF Spec

\* The variables of EPoller.cpp and of the kernel's table keep their types.
THEOREM TypeCorrect == Spec => []TypeOK
<1>1. IInv => TypeOK
  BY DEF IInv
<1> QED
  BY Invariance, <1>1, PTL

\* index_ always tells EPoller::updateChannel and removeChannel what the
\* kernel holds: no epoll_ctl is refused, whatever the order of the calls.
THEOREM RegistrationNeverDisagrees == Spec => []RegistrationAgrees
<1>1. IInv => RegistrationAgrees
  BY DEF IInv
<1> QED
  BY Invariance, <1>1, PTL

\* EPoller::updateChannel and removeChannel implement the abstract table: the
\* kernel watches an fd for exactly what its channel asks for.
THEOREM ImplementsInterestTable == Spec => WatchSpec
<1>1. Init => Interest!Init
  <2> SUFFICES ASSUME Init PROVE Interest!Init
    OBVIOUS
  <2>1. \A f \in Fds : Asked(f) = {} /\ Watched(f) = {}
    BY DEF Init, Owned, Asked, Watched, kNoneEvent
  <2> QED
    BY <2>1 DEF Interest!Init
<1>2. IInv /\ [Next]_vars
        => [Interest!Next]_<<[f \in Fds |-> Asked(f)], [f \in Fds |-> Watched(f)]>>
  BY NextStep
<1> QED
  BY Invariance, <1>1, <1>2, PTL DEF Spec, WatchSpec, Interest!Spec
============================================================================
