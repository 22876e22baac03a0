------------------------------- MODULE Poller -------------------------------
(***************************************************************************)
(* Channel and Poller (Channel.h/.cpp, Poll.h/.cpp), with the part of      *)
(* EventLoop::loop that polls and dispatches.  Everything here runs in the *)
(* loop thread; what interleaves is client code: a callback invoked by     *)
(* Channel::handleEvent may update, remove or create any channel of the    *)
(* loop while later entries of activeChannels_ are still to be handled.    *)
(*                                                                         *)
(* pollfds_ and index_ are the two halves of a table that is kept dense by *)
(* swapping with the last element; every operation begins with assert()s   *)
(* on it, which the Debug build evaluates.                                 *)
(***************************************************************************)
EXTENDS PollEvents, Sequences, FiniteSets

CONSTANTS Channels,     \* the Channel objects (addresses)
          Fds           \* file descriptors

ASSUME FdsAssumption == Fds \subseteq Nat /\ Fds /= {}

----------------------------------------------------------------------------
\* The callbacks the owners in the repository install on a channel:
\* TcpConnection, Connector, and the read-only ones (Acceptor, TimerQueue,
\* the wakeup channel).
CallbackSets ==
    { {"read", "write", "close", "error"}, {"write", "error"}, {"read"} }

----------------------------------------------------------------------------
VARIABLES
    life,           \* where the object is in its owner's protocol
    callbacks,      \* the callbacks its owner installed
    fd_, events_, index_, eventHandling_,   \* Channel
    channels_,      \* Poller: fd -> Channel*
    pollfds_,       \* Poller: the array given to poll(2)
    activeChannels_, \* EventLoop: the channels still to be handled, each
                    \* with the revents_ that set_revents gave it
    pc,             \* what EventLoop::loop is doing
    scan,           \* fillActiveChannels: the entry it looks at
    todo            \* callbacks handleEvent has still to invoke on the head

chanVars == <<life, callbacks, fd_, events_, index_, eventHandling_>>
pollVars == <<channels_, pollfds_>>
loopVars == <<activeChannels_, pc, scan, todo>>
vars == <<life, callbacks, fd_, events_, index_, eventHandling_,
          channels_, pollfds_, activeChannels_, pc, scan, todo>>

\* "none": not constructed.  "inUse": constructed, its last update was an
\* enable or disableWriting (or none yet).  "disabled": its last update was
\* disableAll.  "removed": removeChannel was called, not yet destroyed.
Lives == {"none", "inUse", "disabled", "removed"}

Callbacks == {"read", "write", "close", "error"}

Owned == {c \in Channels : life[c] \in {"inUse", "disabled"}}
Registered == {c \in Owned : index_[c] >= 0}

\* Client code runs as a pending functor (or before loop()), or inside a
\* callback that handleEvent is invoking.
ClientMayRun == pc = "functors" \/ todo /= <<>>

PollFd(f, ev) == [fd |-> f, events |-> ev]
Ignored(f) == -f - 1
Entry(c) == pollfds_[index_[c] + 1]

\* pollfd.revents is not kept: poll(2) overwrites it before it is next read.
TypeOK ==
    /\ life \in [Channels -> Lives]
    /\ callbacks \in [Channels -> SUBSET Callbacks]
    /\ fd_ \in [Channels -> Fds]
    /\ events_ \in [Channels -> SUBSET Flags]
    /\ index_ \in [Channels -> Nat \cup {-1}]
    /\ eventHandling_ \in [Channels -> BOOLEAN]
    /\ DOMAIN channels_ \subseteq Fds
    /\ channels_ \in [DOMAIN channels_ -> Channels]
    /\ pollfds_ \in Seq([fd : Int, events : SUBSET Flags])
    /\ activeChannels_ \in Seq([ch : Channels, revents : SUBSET Flags])
    /\ pc \in {"functors", "scan", "dispatch"}
    /\ scan \in Nat
    /\ todo \in Seq(Callbacks)

Init ==
    /\ life = [c \in Channels |-> "none"]
    /\ callbacks = [c \in Channels |-> {}]
    /\ fd_ = [c \in Channels |-> CHOOSE f \in Fds : TRUE]
    /\ events_ = [c \in Channels |-> kNoneEvent]
    /\ index_ = [c \in Channels |-> -1]
    /\ eventHandling_ = [c \in Channels |-> FALSE]
    /\ channels_ = [f \in {} |-> f]
    /\ pollfds_ = <<>>
    /\ activeChannels_ = <<>>
    /\ pc = "functors"
    /\ scan = 0
    /\ todo = <<>>

----------------------------------------------------------------------------
(* Poller::updateChannel, called by Channel::update with the new events.   *)

\* The assert()s on lines 50 and 61-66, for the branch index() selects.
UpdateAsserts(c) ==
    IF index_[c] < 0
    THEN fd_[c] \notin DOMAIN channels_
    ELSE /\ fd_[c] \in DOMAIN channels_ /\ channels_[fd_[c]] = c
         /\ index_[c] < Len(pollfds_)
         /\ Entry(c).fd \in {fd_[c], Ignored(fd_[c])}

\* Mutant: an existing entry keeps its old events.
updateChannel_StaleEvents(c, ev) ==
    /\ events_' = [events_ EXCEPT ![c] = ev]
    /\ IF index_[c] < 0
       THEN /\ pollfds_' = Append(pollfds_, PollFd(fd_[c], ev))
            /\ index_' = [index_ EXCEPT ![c] = Len(pollfds_)]
            /\ channels_' = [f \in DOMAIN channels_ \cup {fd_[c]} |->
                                IF f = fd_[c] THEN c ELSE channels_[f]]
       ELSE UNCHANGED <<pollfds_, index_, channels_>>

updateChannel(c, ev) ==
    /\ events_' = [events_ EXCEPT ![c] = ev]
    /\ IF index_[c] < 0
       THEN /\ pollfds_' = Append(pollfds_, PollFd(fd_[c], ev))
            /\ index_' = [index_ EXCEPT ![c] = Len(pollfds_)]
            /\ channels_' = [f \in DOMAIN channels_ \cup {fd_[c]} |->
                                IF f = fd_[c] THEN c ELSE channels_[f]]
       ELSE /\ pollfds_' = [pollfds_ EXCEPT ![index_[c] + 1] =
                   PollFd(IF ev = kNoneEvent THEN Ignored(fd_[c]) ELSE @.fd, ev)]
            /\ UNCHANGED <<index_, channels_>>

(* Poller::removeChannel.                                                  *)

\* The assert()s on lines 82-94.
RemoveAsserts(c) ==
    /\ fd_[c] \in DOMAIN channels_ /\ channels_[fd_[c]] = c
    /\ events_[c] = kNoneEvent
    /\ index_[c] \in 0 .. Len(pollfds_) - 1
    /\ Entry(c) = PollFd(Ignored(fd_[c]), events_[c])

\* The channel whose entry is last: its fd, decoded if it is ignored.
ChannelAtEnd ==
    LET f == pollfds_[Len(pollfds_)].fd
    IN  channels_[IF f < 0 THEN -f - 1 ELSE f]

\* Mutant: the last entry is popped, whichever entry was to go.
SwapWithLastAndPop_NoSwap(s, i) == [k \in 1 .. Len(s) - 1 |-> s[k]]

\* iter_swap with the last element, then pop_back.
SwapWithLastAndPop(s, i) ==
    [k \in 1 .. Len(s) - 1 |-> IF k = i THEN s[Len(s)] ELSE s[k]]

\* Mutant: the entry swapped into the hole is not told its new index.
removeChannel_NoSetIndex(c) ==
    /\ pollfds_' = SwapWithLastAndPop(pollfds_, index_[c] + 1)
    /\ channels_' = [f \in DOMAIN channels_ \ {fd_[c]} |-> channels_[f]]
    /\ UNCHANGED index_

\* index_ of the removed channel is left as it was.
removeChannel(c) ==
    /\ pollfds_' = SwapWithLastAndPop(pollfds_, index_[c] + 1)
    /\ channels_' = [f \in DOMAIN channels_ \ {fd_[c]} |-> channels_[f]]
    /\ index_' = IF index_[c] = Len(pollfds_) - 1
                 THEN index_
                 ELSE [index_ EXCEPT ![ChannelAtEnd] = index_[c]]

----------------------------------------------------------------------------
(* What the owners of channels do (TcpConnection, Connector, Acceptor,     *)
(* TimerQueue, EventLoop): each is one Channel operation.                  *)

\* An fd number is reused once the channel that had it was removed and the
\* fd closed, even if the old object still awaits its queued destruction.
NewChannel(c, f) ==
    /\ ClientMayRun
    /\ life[c] = "none"
    /\ \A d \in Owned : fd_[d] /= f
    /\ \E cbs \in CallbackSets : callbacks' = [callbacks EXCEPT ![c] = cbs]
    /\ life' = [life EXCEPT ![c] = "inUse"]
    /\ fd_' = [fd_ EXCEPT ![c] = f]
    /\ events_' = [events_ EXCEPT ![c] = kNoneEvent]
    /\ index_' = [index_ EXCEPT ![c] = -1]
    /\ eventHandling_' = [eventHandling_ EXCEPT ![c] = FALSE]
    /\ UNCHANGED <<pollVars, loopVars>>

Update(c, ev, newLife) ==
    /\ ClientMayRun
    /\ c \in Owned
    /\ updateChannel(c, ev)
    /\ life' = [life EXCEPT ![c] = newLife]
    /\ UNCHANGED <<callbacks, fd_, eventHandling_, loopVars>>

enableReading(c) == Update(c, events_[c] \cup kReadEvent, "inUse")

enableWriting(c) == Update(c, events_[c] \cup kWriteEvent, "inUse")

\* Owners only disable a channel they enabled before.
disableWriting(c) ==
    /\ c \in Registered
    /\ Update(c, events_[c] \ kWriteEvent, "inUse")

disableAll(c) ==
    /\ c \in Registered
    /\ Update(c, kNoneEvent, "disabled")

\* loop_->removeChannel: owners call it after disableAll.
Remove(c) ==
    /\ ClientMayRun
    /\ life[c] = "disabled"
    /\ removeChannel(c)
    /\ life' = [life EXCEPT ![c] = "removed"]
    /\ UNCHANGED <<callbacks, fd_, events_, eventHandling_, loopVars>>

\* Mutant: the owner resets its channel inside the callback.
MayDestroy_Immediately(c) == ClientMayRun /\ life[c] = "removed"

\* ~Channel: owners leave it to a queued functor (Connector::resetChannel;
\* TcpClient::removeConnection, which queues connectDestroyed with the last
\* reference to the connection).  TcpServer::removeConnectionInLoop calls
\* connectDestroyed directly and is outside this protocol.
MayDestroy(c) == pc = "functors" /\ life[c] = "removed"

Destroy(c) ==
    /\ MayDestroy(c)
    /\ life' = [life EXCEPT ![c] = "none"]
    /\ callbacks' = [callbacks EXCEPT ![c] = {}]
    /\ events_' = [events_ EXCEPT ![c] = kNoneEvent]
    /\ index_' = [index_ EXCEPT ![c] = -1]
    /\ UNCHANGED <<fd_, eventHandling_, pollVars, loopVars>>

----------------------------------------------------------------------------
(* EventLoop::loop: poll, fillActiveChannels, handleEvent on each.         *)

\* poll(2) has returned; fillActiveChannels starts at the first entry.
Poll ==
    /\ pc = "functors"
    /\ pc' = "scan"
    /\ scan' = 1
    /\ UNCHANGED <<chanVars, pollVars, activeChannels_, todo>>

\* What poll(2) may report for an entry: nothing when its fd is negative.
MayReport(pfd) ==
    IF pfd.fd < 0 THEN {{}} ELSE SUBSET (pfd.events \cup AlwaysReported)

\* One iteration of the loop in fillActiveChannels.
fillActiveChannels ==
    /\ pc = "scan"
    /\ scan <= Len(pollfds_)
    /\ \E r \in MayReport(pollfds_[scan]) :
          IF r = {}
          THEN UNCHANGED activeChannels_
          ELSE activeChannels_' = Append(activeChannels_,
                    [ch |-> channels_[pollfds_[scan].fd], revents |-> r])
    /\ scan' = scan + 1
    /\ UNCHANGED <<life, callbacks, fd_, events_, index_, eventHandling_,
                   pollVars, pc, todo>>

PollReturn ==
    /\ pc = "scan"
    /\ scan > Len(pollfds_)
    /\ pc' = "dispatch"
    /\ scan' = 0
    /\ UNCHANGED <<chanVars, pollVars, activeChannels_, todo>>

When(b, cb) == IF b THEN <<cb>> ELSE <<>>

\* The callbacks Channel::handleEvent invokes for revents r, in order; a
\* read callback is the last one, because its branch returns.
CallbacksFor(cbs, r) ==
    LET onError == When(POLLERR \in r /\ "error" \in cbs, "error")
        onClose == When(POLLHUP \in r /\ POLLIN \notin r /\ "close" \in cbs,
                        "close")
        onWrite == When(POLLOUT \in r /\ "write" \in cbs, "write")
    IN  onError \o onClose \o
        (IF POLLIN \in r /\ "read" \in cbs THEN <<"read">> ELSE onWrite)

Current == Head(activeChannels_).ch

\* handleEvent on the next active channel; it ends at once if no callback
\* is due.
HandleEvent ==
    /\ pc = "dispatch" /\ todo = <<>> /\ activeChannels_ /= <<>>
    /\ todo' = CallbacksFor(callbacks[Current], Head(activeChannels_).revents)
    /\ IF todo' = <<>>
       THEN /\ activeChannels_' = Tail(activeChannels_)
            /\ UNCHANGED eventHandling_
       ELSE /\ eventHandling_' = [eventHandling_ EXCEPT ![Current] = TRUE]
            /\ UNCHANGED activeChannels_
    /\ UNCHANGED <<life, callbacks, fd_, events_, index_, pollVars,
                   pc, scan>>

\* The running callback returns.  After the last one handleEvent clears
\* eventHandling_, except that `return readCallback_()' leaves it set.
CallbackReturn ==
    /\ todo /= <<>>
    /\ todo' = Tail(todo)
    /\ IF Len(todo) > 1
       THEN UNCHANGED <<eventHandling_, activeChannels_>>
       ELSE /\ activeChannels_' = Tail(activeChannels_)
            /\ eventHandling_' =
                  [eventHandling_ EXCEPT ![Current] = (Head(todo) = "read")]
    /\ UNCHANGED <<life, callbacks, fd_, events_, index_, pollVars,
                   pc, scan>>

\* All active channels are handled: the loop goes on to dePendingFunctors.
DispatchDone ==
    /\ pc = "dispatch" /\ activeChannels_ = <<>>
    /\ pc' = "functors"
    /\ UNCHANGED <<chanVars, pollVars, activeChannels_, scan, todo>>

----------------------------------------------------------------------------
Client(c) ==
    \/ \E f \in Fds : NewChannel(c, f)
    \/ enableReading(c)
    \/ enableWriting(c)
    \/ disableWriting(c)
    \/ disableAll(c)
    \/ Remove(c)
    \/ Destroy(c)

Loop ==
    \/ Poll
    \/ fillActiveChannels
    \/ PollReturn
    \/ HandleEvent
    \/ CallbackReturn
    \/ DispatchDone

Next == Loop \/ \E c \in Channels : Client(c)

Spec == Init /\ [][Next]_vars

----------------------------------------------------------------------------
(* Properties.                                                             *)

\* Poller's two tables, and index_ of the registered channels, describe the
\* same set: channels_ maps exactly the registered fds to their channels,
\* every slot of pollfds_ belongs to the one registered channel whose index_
\* points at it, and that slot carries the channel's fd (plain or encoded as
\* ignored) and its current events.  A channel its owner disabled is ignored.
MapMatches ==
    /\ \A c \in Registered : /\ fd_[c] \in DOMAIN channels_
                             /\ channels_[fd_[c]] = c
    /\ \A f \in DOMAIN channels_ : /\ channels_[f] \in Registered
                                   /\ fd_[channels_[f]] = f

SlotsMatch ==
    \A c \in Registered :
        /\ index_[c] + 1 \in 1 .. Len(pollfds_)
        /\ Entry(c).fd \in {fd_[c], Ignored(fd_[c])}
        /\ Entry(c).events = events_[c]
        /\ life[c] = "disabled" => Entry(c) = PollFd(Ignored(fd_[c]), kNoneEvent)

NoOrphanSlot ==
    \A i \in 1 .. Len(pollfds_) : \E c \in Registered : index_[c] = i - 1

TableConsistent == MapMatches /\ SlotsMatch /\ NoOrphanSlot

\* Whenever a client may call an operation, the assert()s that operation
\* begins with hold: in Poller::updateChannel and removeChannel, in
\* fillActiveChannels (lines 34 and 36) and in ~Channel.
AssertionsHold ==
    /\ \A c \in Owned : UpdateAsserts(c)
    /\ \A c \in Channels : life[c] = "disabled" => RemoveAsserts(c)
    /\ pc = "scan" /\ scan <= Len(pollfds_) /\ pollfds_[scan].fd >= 0 =>
          /\ pollfds_[scan].fd \in DOMAIN channels_
          /\ fd_[channels_[pollfds_[scan].fd]] = pollfds_[scan].fd
    /\ \A c \in Channels : MayDestroy(c) => ~eventHandling_[c]

\* Neither channels_ nor the active list points at a destroyed Channel, even
\* though callbacks remove channels that are still waiting in the list.
NoDanglingChannel ==
    /\ \A f \in DOMAIN channels_ : life[channels_[f]] /= "none"
    /\ \A i \in 1 .. Len(activeChannels_) : life[activeChannels_[i].ch] /= "none"

\* An operation on one channel never changes what poll(2) watches for
\* another one, although removeChannel moves entries and index_ around.
OthersUndisturbed ==
    [][\A c \in Registered :
          c \in Registered' /\ UNCHANGED <<events_[c], life[c]>>
             => /\ index_'[c] + 1 \in 1 .. Len(pollfds_')
                /\ pollfds_'[index_'[c] + 1].events = Entry(c).events
                /\ \/ pollfds_'[index_'[c] + 1].fd = Entry(c).fd
                   \/ Entry(c).events = kNoneEvent]_vars

============================================================================
