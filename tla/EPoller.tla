------------------------------ MODULE EPoller ------------------------------
(***************************************************************************)
(* EPoller (EPoll.h/.cpp), the poller over epoll(7), with the Channel      *)
(* operations that call it and the protocol of the channels' owners.       *)
(* index_ remembers what the kernel was told, and decides whether the next *)
(* update is an ADD, a MOD or a DEL; a failing epoll_ctl is at most logged. *)
(***************************************************************************)
EXTENDS PollEvents, FiniteSets

CONSTANTS Channels,     \* the Channel objects (addresses)
          Fds           \* file descriptors

kNew == -1
kAdded == 1
kDeleted == 2

VARIABLES
    life,                   \* where the object is in its owner's protocol
    fd_, events_, index_,   \* Channel
    channels_,              \* EPoller: fd -> Channel*
    epoll,                  \* the kernel: fd -> [ptr, events]
    refused,                \* epoll_ctl has failed
    aborted                 \* an assert() has failed

chanVars == <<life, fd_, events_, index_>>
vars == <<chanVars, channels_, epoll, refused, aborted>>

\* "none": not constructed.  "removed": removeChannel was called, the object
\* waits for its queued destruction.
Lives == {"none", "inUse", "disabled", "removed"}

Owned == {c \in Channels : life[c] \in {"inUse", "disabled"}}

TypeOK ==
    /\ life \in [Channels -> Lives]
    /\ fd_ \in [Channels -> Fds]
    /\ events_ \in [Channels -> SUBSET Flags]
    /\ index_ \in [Channels -> {kNew, kAdded, kDeleted}]
    /\ DOMAIN channels_ \subseteq Fds
    /\ channels_ \in [DOMAIN channels_ -> Channels]
    /\ DOMAIN epoll \subseteq Fds
    /\ epoll \in [DOMAIN epoll -> [ptr : Channels, events : SUBSET Flags]]
    /\ refused \in BOOLEAN /\ aborted \in BOOLEAN

Init ==
    /\ life = [c \in Channels |-> "none"]
    /\ fd_ \in [Channels -> Fds]
    /\ events_ = [c \in Channels |-> kNoneEvent]
    /\ index_ = [c \in Channels |-> kNew]
    /\ channels_ = [f \in {} |-> f]
    /\ epoll = [f \in {} |-> f]
    /\ refused = FALSE /\ aborted = FALSE

----------------------------------------------------------------------------
(* EPoller::update: epoll_ctl(operation, fd).  ADD fails on an fd that is  *)
(* registered, MOD and DEL on one that is not.                             *)

With(map, f, v) == [g \in DOMAIN map \cup {f} |-> IF g = f THEN v ELSE map[g]]
Without(map, f) == [g \in DOMAIN map \ {f} |-> map[g]]

update(operation, c, ev) ==
    LET f == fd_[c]
        legal == IF operation = "ADD" THEN f \notin DOMAIN epoll
                                      ELSE f \in DOMAIN epoll
    IN  /\ refused' = (refused \/ ~legal)
        /\ epoll' = IF ~legal THEN epoll
                    ELSE IF operation = "DEL" THEN Without(epoll, f)
                    ELSE With(epoll, f, [ptr |-> c, events |-> ev])

\* Mutant: a channel that asks for nothing is modified and keeps its index.
updateChannel_NoDelete(c, ev) ==
    /\ events_' = [events_ EXCEPT ![c] = ev]
    /\ channels_' = IF index_[c] = kNew THEN With(channels_, fd_[c], c) ELSE channels_
    /\ index_' = [index_ EXCEPT ![c] = IF ev = kNoneEvent THEN kDeleted ELSE kAdded]
    /\ update(IF index_[c] = kAdded THEN "MOD" ELSE "ADD", c, ev)

\* Mutant: a registered channel is not modified.
updateChannel_NoModify(c, ev) ==
    /\ events_' = [events_ EXCEPT ![c] = ev]
    /\ \/ /\ index_[c] \in {kNew, kDeleted}
          /\ channels_' = IF index_[c] = kNew THEN With(channels_, fd_[c], c)
                          ELSE channels_
          /\ index_' = [index_ EXCEPT ![c] = kAdded]
          /\ update("ADD", c, ev)
       \/ /\ index_[c] = kAdded
          /\ UNCHANGED <<channels_, index_, epoll, refused>>

\* EPoller::updateChannel, called by Channel::update with the new events ev.
updateChannel(c, ev) ==
    /\ events_' = [events_ EXCEPT ![c] = ev]
    /\ \/ /\ index_[c] \in {kNew, kDeleted}
          /\ channels_' = IF index_[c] = kNew THEN With(channels_, fd_[c], c)
                          ELSE channels_
          /\ index_' = [index_ EXCEPT ![c] = kAdded]
          /\ update("ADD", c, ev)
       \/ /\ index_[c] = kAdded /\ ev = kNoneEvent
          /\ update("DEL", c, ev)
          /\ index_' = [index_ EXCEPT ![c] = kDeleted]
          /\ UNCHANGED channels_
       \/ /\ index_[c] = kAdded /\ ev /= kNoneEvent
          /\ update("MOD", c, ev)
          /\ UNCHANGED <<channels_, index_>>

\* EPoller::removeChannel.
removeChannel(c) ==
    /\ channels_' = Without(channels_, fd_[c])
    /\ \/ /\ index_[c] = kAdded
          /\ update("DEL", c, events_[c])
       \/ /\ index_[c] /= kAdded
          /\ UNCHANGED <<epoll, refused>>
    /\ index_' = [index_ EXCEPT ![c] = kNew]

----------------------------------------------------------------------------
(* The owners of channels.                                                 *)

\* An fd has a new Channel once its last one was removed: the Connector hands
\* its socket to a TcpConnection, or the fd is closed and its number reused.
NewChannel(c, f) ==
    /\ life[c] = "none"
    /\ \A d \in Owned : fd_[d] /= f
    /\ life' = [life EXCEPT ![c] = "inUse"]
    /\ fd_' = [fd_ EXCEPT ![c] = f]
    /\ events_' = [events_ EXCEPT ![c] = kNoneEvent]
    /\ index_' = [index_ EXCEPT ![c] = kNew]
    /\ UNCHANGED <<channels_, epoll, refused, aborted>>

Update(c, ev, newLife) ==
    /\ c \in Owned
    /\ updateChannel(c, ev)
    /\ life' = [life EXCEPT ![c] = newLife]
    /\ UNCHANGED <<fd_, aborted>>

enableReading(c) == Update(c, events_[c] \cup kReadEvent, "inUse")

enableWriting(c) == Update(c, events_[c] \cup kWriteEvent, "inUse")

\* Owners only disable a channel they enabled before; a TcpConnection that
\* closes calls disableAll twice.
disableWriting(c) ==
    /\ index_[c] /= kNew
    /\ Update(c, events_[c] \ kWriteEvent, "inUse")

disableAll(c) ==
    /\ index_[c] /= kNew
    /\ Update(c, kNoneEvent, "disabled")

\* loop_->removeChannel: owners call it after disableAll.
Remove(c) ==
    /\ life[c] = "disabled"
    /\ removeChannel(c)
    /\ life' = [life EXCEPT ![c] = "removed"]
    /\ UNCHANGED <<fd_, events_, aborted>>

\* ~Channel
Destroy(c) ==
    /\ life[c] = "removed"
    /\ life' = [life EXCEPT ![c] = "none"]
    /\ UNCHANGED <<fd_, events_, index_, channels_, epoll, refused, aborted>>

\* EPoller::poll with the result of epoll_wait.  A negative one is passed to
\* fillActiveChannels, whose assert() compares it as a size_t and fails; a
\* positive one is only logged, so that no channel ever becomes active.
poll(numEvents) ==
    /\ aborted' = (numEvents < 0)
    /\ UNCHANGED <<chanVars, channels_, epoll, refused>>

----------------------------------------------------------------------------
Owner(c) ==
    \/ \E f \in Fds : NewChannel(c, f)
    \/ enableReading(c)
    \/ enableWriting(c)
    \/ disableWriting(c)
    \/ disableAll(c)
    \/ Remove(c)
    \/ Destroy(c)

Next ==
    /\ ~aborted
    /\ \/ \E c \in Channels : Owner(c)
       \/ \E numEvents \in -1 .. Cardinality(DOMAIN epoll) : poll(numEvents)

Spec == Init /\ [][Next]_vars

----------------------------------------------------------------------------
(* Properties.                                                             *)

\* index_ tells the truth about the kernel: a channel is kAdded exactly when
\* its fd is registered, with a pointer to it and the events it asks for; the
\* kernel holds no other pointer; channels_ holds the channels that are not
\* kNew.  Hence no epoll_ctl is ever refused.
RegistrationAgrees ==
    /\ ~refused
    /\ \A c \in Owned :
          /\ index_[c] = kAdded <=> fd_[c] \in DOMAIN epoll
          /\ index_[c] /= kNew <=> fd_[c] \in DOMAIN channels_
    /\ \A f \in DOMAIN epoll :
          \E c \in Owned : fd_[c] = f /\ epoll[f] = [ptr |-> c, events |-> events_[c]]
    /\ \A f \in DOMAIN channels_ : channels_[f] \in Owned /\ fd_[channels_[f]] = f

\* EPoller implements InterestTable: in particular a channel that is disabled
\* and enabled again is watched again.
Asked(f) == UNION {events_[c] : c \in {d \in Owned : fd_[d] = f}}
Watched(f) == IF f \in DOMAIN epoll THEN epoll[f].events ELSE kNoneEvent

Interest == INSTANCE InterestTable WITH
                asked <- [f \in Fds |-> Asked(f)],
                watched <- [f \in Fds |-> Watched(f)]

WatchSpec == Interest!Spec

============================================================================
